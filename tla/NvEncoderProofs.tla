--------------------------- MODULE NvEncoderProofs ---------------------------
(***************************************************************************)
(* Proofs about NvEncoder for every set of threads, faults and empty slots *)
(* and every bound. The inductive invariant, part by part:                 *)
(*   Control    where the running method is, on which thread;              *)
(*   Resources  what the factory has made at each of its stages;           *)
(*   Locks      a locked buffer is in use, or its unlock was refused;      *)
(*   Typing     frames, packets and time stamps are of their types;        *)
(*   Order      which frame is where: given out, with the driver, current; *)
(*   Kept       without buffering, what was accepted is what came out;     *)
(*   Clock      the time stamps of the packets and the counter;            *)
(*   Stacks     the type of the context stacks.                            *)
(* Locks uses Resources, Order to Clock use Typing, all of them Control.   *)
(***************************************************************************)
EXTENDS NvEncoder, SequenceTheorems, TLAPS

Steps == {"absent", "table", "idle", "drop_ctx", "gone"} \cup Stages \cup Sending
         \cup Undoing
InMethod == Stages \cup Sending \cup Undoing \cup {"table", "drop_ctx"}
Answers == {"none", "ok", "err", "unsupported", "closed", "packet", "eof", "need_more"}

Control ==
  /\ pc \in Steps /\ result \in Answers /\ flushed \in BOOLEAN
  /\ missing \subseteq Slots
  /\ thr \in Threads \cup {NoThread}
  /\ pc \in InMethod => thr \in Threads /\ result # "eof"
  /\ pc = "absent" => result = "none"
  /\ result = "eof" => flushed

LEMMA UndoingIs ==
  Undoing = {"ask_open", "undo_preset", "ask_preset", "ask", "ask_output", "undo_input",
             "drop_input", "drop_output", "undo_session"}
BY DEF Undoing, AfterUndo

\* The order in which things are undone, step by step.
LEMMA UndoOrder ==
  ASSUME Undo
  PROVE  /\ pc \in {"ask_open", "ask_preset", "undo_session"} => pc' = "drop_ctx"
         /\ pc \in {"ask", "undo_input", "drop_output"} => pc' = "undo_session"
         /\ pc = "undo_preset" => pc' = "ask_preset"
         /\ pc = "ask_output" => pc' = "undo_input"
         /\ pc = "drop_input" => pc' = "drop_output"
         /\ pc \in Undoing /\ pc' \in Undoing \cup {"drop_ctx"}
BY UndoingIs DEF Undo, AfterUndo

LEMMA FirstUndoIs ==
  ASSUME StageFails
  PROVE  /\ pc = "open" => pc' = "ask_open"
         /\ pc = "preset" => pc' = "undo_preset"
         /\ pc \in {"init", "input"} => pc' = "ask"
         /\ pc = "output" => pc' = "ask_output"
         /\ pc \in Stages /\ pc' \in Undoing
BY UndoingIs DEF StageFails, FirstUndo, Stages

LEMMA ControlInit == Init => Control
BY EncoderAssumption, UndoingIs
   DEF Init, Control, Steps, InMethod, Answers, Stages, Sending

LEMMA ControlStep == Control /\ [Next]_vars => Control'
<1> SUFFICES ASSUME Control, [Next]_vars PROVE Control'
  OBVIOUS
<1> USE EncoderAssumption, UndoingIs DEF Control, Steps, InMethod, Answers, Stages, Sending
<1>1. CASE MakeRefused
  BY <1>1 DEF MakeRefused, Refusals
<1>2. ASSUME NEW t \in Threads, MakeContext(t) PROVE Control'
  BY <1>2 DEF MakeContext
<1>3. CASE MakeTable \/ TableFails
  BY <1>3 DEF MakeTable, TableFails, Refusals, DropContextWith
<1>4. CASE MakeStage
  <2>1. /\ pc' \in {"preset", "init", "input", "output", "idle"}
        /\ pc' = "idle" <=> pc = "output"
    BY <1>4 DEF MakeStage, NextStage
  <2>2. /\ result' = IF pc = "output" THEN "ok" ELSE result
        /\ thr' = IF pc = "output" THEN NoThread ELSE thr
        /\ UNCHANGED <<missing, flushed>>
    BY <1>4 DEF MakeStage
  <2>3. pc \in Stages
    BY <1>4 DEF MakeStage
  <2>4. QED
    BY <2>1, <2>2, <2>3
<1>5. CASE StageMissing \/ StageFails \/ Undo
  <2>1. CASE StageMissing
    BY <2>1 DEF StageMissing, DropContextWith
  <2>2. CASE StageFails
    BY <2>2, FirstUndoIs DEF StageFails
  <2>3. CASE Undo
    BY <2>3, UndoOrder DEF Undo
  <2>4. QED
    BY <1>5, <2>1, <2>2, <2>3
<1>6. CASE SendRefused
  BY <1>6 DEF SendRefused
<1>7. ASSUME NEW t \in Threads, NEW given \in NoPts..MaxPts, Send(t, given)
      PROVE  Control'
  BY <1>7 DEF Send
<1>8. CASE LockInput \/ LockInputFails
  BY <1>8 DEF LockInput, LockInputFails, LockGivenUp, Refusal, Return
<1>9. ASSUME NEW good \in BOOLEAN, Upload(good) PROVE Control'
  BY <1>9 DEF Upload, Return
<1>10. CASE UnlockInputFails \/ Encode \/ NeedMoreInput \/ EncodeFails
  BY <1>10 DEF UnlockInputFails, Encode, NeedMoreInput, EncodeFails, Refusal, Return
<1>11. CASE LockOutput \/ LockOutputFails
  BY <1>11 DEF LockOutput, LockOutputFails, Refusal, Return
<1>12. CASE UnlockOutput \/ EmptyOutput \/ UnlockOutputFails
  BY <1>12 DEF UnlockOutput, EmptyOutput, UnlockOutputFails, UnlockError, Refusal, Return
<1>13. CASE ReceivePacket \/ Flush
  BY <1>13 DEF ReceivePacket, Flush
<1>14. ASSUME NEW t \in Threads, Drop(t) PROVE Control'
  BY <1>14 DEF Drop
<1>15. CASE DropContext
  BY <1>15 DEF DropContext, DropContextWith
<1>16. CASE Environment \/ UNCHANGED vars
  BY <1>16 DEF Environment, ForeignPush, ForeignPop, vars
<1>17. QED
  BY <1>1, <1>2, <1>3, <1>4, <1>5, <1>6, <1>7, <1>8, <1>9, <1>10, <1>11, <1>12,
     <1>13, <1>14, <1>15, <1>16
     DEF Next, Running, MakeStep, SendStep, Client

THEOREM ControlInvariant == Spec => []Control
<1>1. QED
  BY ControlInit, ControlStep, PTL DEF Spec

-----------------------------------------------------------------------------
(* What has been made.                                                     *)

Usable == {"live", "locked"}

\* With a complete function table, what is to be destroyed is.
BuffersGone == /\ input \in Buffers /\ output \in Buffers
               /\ missing = {} => input \notin Usable /\ output \notin Usable
SessionGone == /\ session \in {"none", "open", "destroyed"}
               /\ missing = {} => session # "open"

Resources ==
  /\ pc \in {"absent", "table", "open"} =>
       session = "none" /\ input = "none" /\ output = "none"
  /\ pc = "absent" => ctx = "none"
  /\ pc \in InMethod \cup {"idle"} => ctx = "live"
  /\ pc \in {"preset", "init", "input"} =>
       session = "open" /\ input = "none" /\ output = "none"
  /\ pc = "output" => session = "open" /\ input = "live" /\ output = "none"
  /\ pc \in Sending \cup {"idle"} =>
       session = "open" /\ input \in Usable /\ output \in Usable
  /\ pc = "ask_open" => session = "none" /\ input = "none" /\ output = "none"
  /\ pc \in {"undo_preset", "ask"} =>
       session = "open" /\ input = "none" /\ output = "none"
  /\ pc = "ask_preset" => /\ session \in {"open", "destroyed"}
                          /\ "destroy" \notin missing => session = "destroyed"
                          /\ input = "none" /\ output = "none"
  /\ pc \in {"ask_output", "undo_input"} =>
       session = "open" /\ input = "live" /\ output = "none"
  /\ pc = "drop_input" => session = "open" /\ input \in Usable /\ output \in Usable
  /\ pc = "drop_output" => /\ session = "open" /\ output \in Usable
                           /\ input \in Usable \cup {"destroyed"}
                           /\ "destroy_in" \notin missing => input = "destroyed"
  /\ pc = "undo_session" => session = "open" /\ BuffersGone
  /\ pc = "drop_ctx" => SessionGone /\ BuffersGone
  /\ pc = "gone" => ctx \in {"none", "destroyed"} /\ SessionGone /\ BuffersGone

LEMMA ResourcesInit == Init => Resources
BY UndoingIs DEF Init, Resources, InMethod, Stages, Sending

LEMMA ResourcesStep == Control /\ Resources /\ [Next]_vars => Resources'
<1> SUFFICES ASSUME Control, Resources, [Next]_vars PROVE Resources'
  OBVIOUS
<1> USE UndoingIs DEF Resources, InMethod, Stages, Sending, Usable, Buffers, BuffersGone,
                      SessionGone, driverVars
<1>1. CASE MakeRefused
  BY <1>1 DEF MakeRefused
<1>2. ASSUME NEW t \in Threads, MakeContext(t) PROVE Resources'
  BY <1>2 DEF MakeContext
<1>3. CASE MakeTable \/ TableFails
  BY <1>3 DEF MakeTable, TableFails, DropContextWith
<1>4. CASE MakeStage
  BY <1>4 DEF MakeStage, NextStage
<1>5. CASE StageMissing \/ StageFails \/ Undo
  <2>1. CASE StageMissing
    BY <2>1 DEF StageMissing, DropContextWith
  <2>2. CASE StageFails
    BY <2>2, FirstUndoIs DEF StageFails
  <2>3. CASE Undo
    BY <2>3, UndoOrder DEF Undo
  <2>4. QED
    BY <1>5, <2>1, <2>2, <2>3
<1>6. CASE SendRefused
  BY <1>6 DEF SendRefused
<1>7. ASSUME NEW t \in Threads, NEW given \in NoPts..MaxPts, Send(t, given)
      PROVE  Resources'
  BY <1>7 DEF Send
<1>8. CASE LockInput \/ LockInputFails
  BY <1>8 DEF LockInput, LockInputFails, LockGivenUp, Return
<1>9. ASSUME NEW good \in BOOLEAN, Upload(good) PROVE Resources'
  BY <1>9 DEF Upload, UnlockAlways, Return
<1>10. CASE UnlockInputFails \/ Encode \/ NeedMoreInput \/ EncodeFails
  BY <1>10 DEF UnlockInputFails, Encode, NeedMoreInput, EncodeFails, Return
<1>11. CASE LockOutput \/ LockOutputFails
  BY <1>11 DEF LockOutput, LockOutputFails, Return
<1>12. CASE UnlockOutput \/ EmptyOutput \/ UnlockOutputFails
  BY <1>12 DEF UnlockOutput, EmptyOutput, UnlockOutputFails, Return
<1>13. CASE ReceivePacket \/ Flush
  BY <1>13 DEF ReceivePacket, Flush
<1>14. ASSUME NEW t \in Threads, Drop(t) PROVE Resources'
  BY <1>14 DEF Drop
<1>15. CASE DropContext
  BY <1>15 DEF DropContext, DropContextWith
<1>16. CASE Environment \/ UNCHANGED vars
  BY <1>16 DEF Environment, ForeignPush, ForeignPop, vars
<1>17. QED
  BY <1>1, <1>2, <1>3, <1>4, <1>5, <1>6, <1>7, <1>8, <1>9, <1>10, <1>11, <1>12,
     <1>13, <1>14, <1>15, <1>16
     DEF Next, Running, MakeStep, SendStep, Client

\* Whatever stage of the factory fails, and in Drop, driver call by driver call:
\* buffers never outlive the session nor the session the context, and the session
\* is used only while it is open, but for the two questions for its last error
\* that ResourcesUnwound names; as long as no slot of the table is empty.
THEOREM EverythingUnwound == Spec => []ResourcesUnwound
<1>1. Control /\ Resources => ResourcesUnwound
  BY UndoingIs
     DEF Control, Resources, ResourcesUnwound, UsesSession, Steps, InMethod, Stages,
         Sending, Usable, Buffers, BuffersGone, SessionGone
<1>2. QED
  BY <1>1, ControlInvariant, ResourcesInit, ResourcesStep, PTL DEF Spec

-----------------------------------------------------------------------------
(* Locked buffers.                                                         *)

Locks ==
  /\ refused \subseteq {"input", "output"}
  /\ input = "locked" => pc = "upload" \/ "input" \in refused
  /\ output = "locked" => pc = "unlock_out" \/ "output" \in refused

LEMMA LocksStep == Resources /\ Locks /\ [Next]_vars => Locks'
<1> SUFFICES ASSUME Resources, Locks, [Next]_vars PROVE Locks'
  OBVIOUS
<1> USE DEF Locks, driverVars, historyVars
<1>1. CASE MakeRefused
  BY <1>1 DEF MakeRefused
<1>2. ASSUME NEW t \in Threads, MakeContext(t) PROVE Locks'
  BY <1>2 DEF MakeContext
<1>3. CASE MakeTable \/ TableFails
  BY <1>3 DEF MakeTable, TableFails, DropContextWith
<1>4. CASE MakeStage
  BY <1>4 DEF MakeStage, Stages
<1>5. CASE StageMissing \/ StageFails \/ Undo
  <2>1. UNCHANGED refused /\ pc \notin {"upload", "unlock_out"}
    BY <1>5, UndoingIs DEF StageMissing, StageFails, Undo, DropContextWith, Stages
  <2>2. input' \in {input, "destroyed"} /\ output' \in {output, "destroyed"}
    BY <1>5 DEF StageMissing, StageFails, Undo
  <2>3. QED
    BY <2>1, <2>2
<1>6. CASE SendRefused
  BY <1>6 DEF SendRefused
<1>7. ASSUME NEW t \in Threads, NEW given \in NoPts..MaxPts, Send(t, given)
      PROVE  Locks'
  BY <1>7 DEF Send
<1>8. CASE LockInput \/ LockInputFails
  BY <1>8 DEF LockInput, LockInputFails, LockGivenUp, Return
<1>9. ASSUME NEW good \in BOOLEAN, Upload(good) PROVE Locks'
  BY <1>9 DEF Upload, UnlockAlways, Return
<1>10. CASE UnlockInputFails \/ Encode \/ NeedMoreInput \/ EncodeFails
  BY <1>10 DEF UnlockInputFails, Encode, NeedMoreInput, EncodeFails, Return
<1>11. CASE LockOutput \/ LockOutputFails
  BY <1>11 DEF LockOutput, LockOutputFails, Return
<1>12. CASE UnlockOutput \/ EmptyOutput \/ UnlockOutputFails
  BY <1>12 DEF UnlockOutput, EmptyOutput, UnlockOutputFails, Return
<1>13. CASE ReceivePacket \/ Flush
  BY <1>13 DEF ReceivePacket, Flush
<1>14. ASSUME NEW t \in Threads, Drop(t) PROVE Locks'
  BY <1>14 DEF Drop
<1>15. CASE DropContext
  BY <1>15 DEF DropContext, DropContextWith
<1>16. CASE Environment \/ UNCHANGED vars
  BY <1>16 DEF Environment, ForeignPush, ForeignPop, vars
<1>17. QED
  BY <1>1, <1>2, <1>3, <1>4, <1>5, <1>6, <1>7, <1>8, <1>9, <1>10, <1>11, <1>12,
     <1>13, <1>14, <1>15, <1>16
     DEF Next, Running, MakeStep, SendStep, Client

\* Between two calls no buffer is locked unless the driver refused its unlock:
\* the early returns of send_frame and drain_output all come after the unlock.
THEOREM LocksArePaired == Spec => []LocksPaired
<1>1. Init => Locks
  BY DEF Init, Locks
<1>2. Locks => LocksPaired
  BY DEF Locks, LocksPaired
<1>3. QED
  BY <1>1, <1>2, ControlInvariant, ResourcesInit, ResourcesStep, LocksStep, PTL
     DEF Spec

-----------------------------------------------------------------------------
(* Types of frames, packets and time stamps.                               *)

Before == {"lock_in", "upload", "encode"}
After  == {"lock_out", "unlock_out"}

Typing ==
  /\ frame \in 0..MaxFrames /\ ready \in 0..MaxFrames
  /\ held \in Seq(1..MaxFrames)
  /\ pts \in NoPts..MaxPts /\ pts_counter \in MinPts..MaxPts
  /\ output_queue \in Seq(Packets) /\ delivered \in Seq(Packets)
  /\ accepted \in Seq(1..MaxFrames)
  /\ backward \in BOOLEAN /\ buffered \in BOOLEAN
  /\ pc \in Sending => frame # 0 /\ pts # NoPts
  /\ ready # 0 <=> pc \in After

Bookkeeping == <<frame, ready, held, pts, pts_counter, output_queue, delivered,
                 accepted, backward, buffered>>

LEMMA PtsRange ==
  /\ MinPts \in Int /\ NoPts \in Int /\ MaxPts \in Nat /\ MinPts <= 0
  /\ NoPts = MinPts - 1 /\ MinPts < MaxPts
BY EncoderAssumption DEF MinPts, NoPts

\* Steps that keep the books as they are and stay on their side of the encode.
LEMMA OtherSteps ==
  ASSUME Control,
         \/ MakeRefused \/ \E t \in Threads : MakeContext(t) \/ Drop(t)
         \/ MakeTable \/ TableFails \/ MakeStage \/ StageMissing \/ StageFails \/ Undo
         \/ SendRefused \/ LockInput \/ LockOutput \/ Flush \/ DropContext
         \/ Environment \/ UNCHANGED vars
  PROVE  /\ UNCHANGED Bookkeeping
         /\ pc' \in Before <=> pc \in Before
         /\ pc' \in After <=> pc \in After
         /\ pc' \in Sending <=> pc \in Sending
<1> USE DEF Bookkeeping, Before, After, Sending, Stages, pictureVars, queueVars,
            clockVars, historyVars
<1>1. CASE MakeRefused \/ \E t \in Threads : MakeContext(t) \/ Drop(t)
  BY <1>1 DEF MakeRefused, MakeContext, Drop
<1>2. CASE MakeTable \/ TableFails
  BY <1>2 DEF MakeTable, TableFails, DropContextWith
<1>3. CASE MakeStage
  BY <1>3 DEF MakeStage, NextStage
<1>4. CASE StageMissing \/ StageFails \/ Undo
  <2>1. CASE StageMissing
    BY <2>1 DEF StageMissing, DropContextWith
  <2>2. CASE StageFails
    BY <2>2, FirstUndoIs, UndoingIs DEF StageFails
  <2>3. CASE Undo
    BY <2>3, UndoOrder, UndoingIs DEF Undo
  <2>4. QED
    BY <1>4, <2>1, <2>2, <2>3
<1>5. CASE SendRefused \/ LockInput \/ LockOutput \/ Flush
  BY <1>5 DEF SendRefused, LockInput, LockOutput, Flush
<1>6. CASE DropContext
  BY <1>6 DEF DropContext, DropContextWith
<1>7. CASE Environment \/ UNCHANGED vars
  BY <1>7 DEF Environment, ForeignPush, ForeignPop, vars
<1>8. QED
  BY <1>1, <1>2, <1>3, <1>4, <1>5, <1>6, <1>7

\* Steps of send_frame that give the frame up.
LEMMA RefusingSteps ==
  ASSUME Control,
         \/ LockInputFails \/ UnlockInputFails \/ EncodeFails
         \/ LockOutputFails \/ UnlockOutputFails
  PROVE  /\ UNCHANGED <<frame, held, pts, pts_counter, output_queue, delivered,
                        accepted, backward, buffered>>
         /\ pc \in Sending /\ pc' = "idle"
         /\ ready' = IF pc \in After THEN 0 ELSE ready
         /\ UNCHANGED flushed /\ result' # "eof"
<1> USE DEF Control, Sending, After, Return, Refusal, pictureVars, queueVars, clockVars
<1>1. CASE LockInputFails
  BY <1>1 DEF LockInputFails, LockGivenUp
<1>2. CASE UnlockInputFails
  BY <1>2 DEF UnlockInputFails
<1>3. CASE EncodeFails
  BY <1>3 DEF EncodeFails
<1>4. CASE LockOutputFails
  BY <1>4 DEF LockOutputFails
<1>5. CASE UnlockOutputFails
  BY <1>5 DEF UnlockOutputFails, UnlockError
<1>6. QED
  BY <1>1, <1>2, <1>3, <1>4, <1>5

LEMMA TypingInit == Init => Typing
<1> SUFFICES ASSUME Init PROVE Typing
  OBVIOUS
<1>1. 0 \in 0..MaxFrames /\ 0 \in MinPts..MaxPts /\ NoPts \in NoPts..MaxPts
  BY PtsRange, EncoderAssumption
<1>2. <<>> \in Seq(1..MaxFrames) /\ <<>> \in Seq(Packets)
  OBVIOUS
<1>3. QED
  BY <1>1, <1>2 DEF Init, Typing, Sending, After

LEMMA TypingStep == Control /\ Typing /\ [Next]_vars => Typing'
<1> SUFFICES ASSUME Control, Typing, [Next]_vars PROVE Typing'
  OBVIOUS
<1> USE DEF Typing, Sending, After
<1>0. 0 \in 0..MaxFrames
  BY EncoderAssumption
<1>1. ASSUME NEW t \in Threads, NEW given \in NoPts..MaxPts, Send(t, given)
      PROVE  Typing'
  <2>1. frame' \in 0..MaxFrames /\ frame' # 0
    BY <1>1, EncoderAssumption DEF Send
  <2>2. pts' \in MinPts..MaxPts
    BY <1>1, PtsRange DEF Send
  <2>3. pts' \in NoPts..MaxPts /\ pts' # NoPts
    BY <2>2, PtsRange
  <2>4. pts_counter' \in MinPts..MaxPts
    BY <1>1, <2>2, PtsRange DEF Send, CounterAfter
  <2>5. backward' \in BOOLEAN
    BY <1>1 DEF Send
  <2>6. UNCHANGED <<ready, held, output_queue, delivered, accepted, buffered>>
        /\ pc = "idle" /\ pc' = "lock_in"
    BY <1>1 DEF Send, pictureVars, queueVars, historyVars
  <2>7. QED
    BY <2>1, <2>3, <2>4, <2>5, <2>6
<1>2. ASSUME NEW good \in BOOLEAN, Upload(good) PROVE Typing'
  <2>1. /\ UNCHANGED <<frame, ready, held, pts, pts_counter, output_queue,
                       delivered, backward, buffered>>
        /\ accepted' = accepted /\ pc = "upload" /\ pc' \in {"encode", "idle"}
    BY <1>2 DEF Upload, Return, pictureVars, queueVars, clockVars
  <2>2. QED
    BY <2>1
<1>3. CASE Encode
  <2> DEFINE all == Append(held, frame)
  <2>1. all \in Seq(1..MaxFrames) /\ all # <<>>
    BY <1>3, AppendProperties DEF Encode
  <2>2. Head(all) \in 1..MaxFrames /\ Tail(all) \in Seq(1..MaxFrames)
    BY <2>1, HeadTailProperties
  <2>3. ready' = Head(all) /\ held' = Tail(all) /\ pc = "encode" /\ pc' = "lock_out"
    BY <1>3 DEF Encode
  <2>4. UNCHANGED <<frame, pts, pts_counter, output_queue, delivered, accepted,
                    backward, buffered>>
    BY <1>3 DEF Encode, queueVars, clockVars, historyVars
  <2>5. QED
    BY <2>2, <2>3, <2>4
<1>4. CASE NeedMoreInput
  <2>1. Append(held, frame) \in Seq(1..MaxFrames)
        /\ Append(accepted, frame) \in Seq(1..MaxFrames)
    BY <1>4, AppendProperties DEF NeedMoreInput
  <2>2. /\ held' = Append(held, frame) /\ accepted' = Append(accepted, frame)
        /\ pc = "encode" /\ pc' = "idle" /\ buffered' = TRUE
        /\ UNCHANGED <<frame, ready, pts, pts_counter, output_queue, delivered, backward>>
    BY <1>4 DEF NeedMoreInput, Return, queueVars, clockVars
  <2>3. QED
    BY <2>1, <2>2
<1>5. CASE UnlockOutput
  <2> DEFINE packet == [frame |-> ready, pts |-> pts]
  <2>1. packet \in Packets /\ frame \in 1..MaxFrames
    BY <1>5, PtsRange DEF UnlockOutput, Packets
  <2>2. Append(output_queue, packet) \in Seq(Packets)
        /\ Append(accepted, frame) \in Seq(1..MaxFrames)
    BY <2>1, AppendProperties
  <2>3. /\ output_queue' = Append(output_queue, packet)
        /\ accepted' = Append(accepted, frame) /\ ready' = 0 /\ pc' = "idle"
        /\ UNCHANGED <<frame, held, pts, pts_counter, delivered, backward, buffered>>
    BY <1>5 DEF UnlockOutput, Queued, Return, clockVars
  <2>4. QED
    BY <1>0, <2>2, <2>3
<1>6. CASE EmptyOutput
  <2>1. ready \in 1..MaxFrames /\ frame \in 1..MaxFrames
    BY <1>6 DEF EmptyOutput
  <2>2. <<ready>> \in Seq(1..MaxFrames)
    BY <2>1
  <2>3. <<ready>> \o held \in Seq(1..MaxFrames)
        /\ Append(accepted, frame) \in Seq(1..MaxFrames)
    BY <2>1, <2>2, ConcatProperties, AppendProperties
  <2>4. /\ held' = <<ready>> \o held /\ accepted' = Append(accepted, frame)
        /\ ready' = 0 /\ pc' = "idle" /\ buffered' = TRUE
        /\ UNCHANGED <<frame, pts, pts_counter, output_queue, delivered, backward>>
    BY <1>6 DEF EmptyOutput, Return, queueVars, clockVars
  <2>5. QED
    BY <1>0, <2>3, <2>4
<1>7. CASE ReceivePacket
  <2>1. /\ UNCHANGED <<frame, ready, held, pts, pts_counter, accepted, backward,
                       buffered, pc>>
        /\ \/ UNCHANGED <<output_queue, delivered>>
           \/ /\ output_queue # <<>> /\ output_queue' = Tail(output_queue)
              /\ delivered' = Append(delivered, Head(output_queue))
    BY <1>7 DEF ReceivePacket, pictureVars, queueVars, clockVars, historyVars
  <2>2. output_queue # <<>> => /\ Tail(output_queue) \in Seq(Packets)
                               /\ Append(delivered, Head(output_queue)) \in Seq(Packets)
    BY HeadTailProperties, AppendProperties
  <2>3. QED
    BY <2>1, <2>2
<1>8. CASE \/ LockInputFails \/ UnlockInputFails \/ EncodeFails
           \/ LockOutputFails \/ UnlockOutputFails
  BY <1>0, <1>8, RefusingSteps
<1>9. CASE \/ MakeRefused \/ \E t \in Threads : MakeContext(t) \/ Drop(t)
           \/ MakeTable \/ TableFails \/ MakeStage \/ StageMissing \/ StageFails \/ Undo
           \/ SendRefused \/ LockInput \/ LockOutput \/ Flush \/ DropContext
           \/ Environment \/ UNCHANGED vars
  BY <1>9, OtherSteps DEF Bookkeeping
<1>10. QED
  BY <1>1, <1>2, <1>3, <1>4, <1>5, <1>6, <1>7, <1>8, <1>9
     DEF Next, Running, MakeStep, SendStep, Client

LEMMA TypingInvariant == Spec => []Typing
<1>1. QED
  BY TypingInit, TypingStep, ControlInvariant, PTL DEF Spec

-----------------------------------------------------------------------------
(* The frames of a sequence of packets.                                    *)

Frames == 1..MaxFrames

LEMMA FramesOfType ==
  ASSUME NEW packets \in Seq(Packets)
  PROVE  /\ FramesOf(packets) \in Seq(Frames)
         /\ Len(FramesOf(packets)) = Len(packets)
         /\ DOMAIN FramesOf(packets) = 1..Len(packets)
         /\ \A i \in 1..Len(packets) : FramesOf(packets)[i] = packets[i].frame
<1>1. DOMAIN packets = 1..Len(packets) /\ Len(packets) \in Nat
      /\ \A i \in 1..Len(packets) : packets[i] \in Packets
  BY LenProperties
<1>2. \A i \in 1..Len(packets) : packets[i].frame \in Frames
  BY <1>1 DEF Packets, Frames
<1>3. QED
  BY <1>1, <1>2 DEF FramesOf

LEMMA FramesOfAppend ==
  ASSUME NEW packets \in Seq(Packets), NEW packet \in Packets
  PROVE  FramesOf(Append(packets, packet)) = Append(FramesOf(packets), packet.frame)
<1> DEFINE left == FramesOf(Append(packets, packet))
           right == Append(FramesOf(packets), packet.frame)
<1>1. Append(packets, packet) \in Seq(Packets) /\ Len(Append(packets, packet)) = Len(packets) + 1
      /\ \A i \in 1..Len(packets) : Append(packets, packet)[i] = packets[i]
      /\ Append(packets, packet)[Len(packets) + 1] = packet
  BY AppendProperties
<1>2. packet.frame \in Frames
  BY DEF Packets, Frames
<1>3. left \in Seq(Frames) /\ Len(left) = Len(packets) + 1
      /\ \A i \in 1..Len(packets) + 1 : left[i] = Append(packets, packet)[i].frame
  BY <1>1, FramesOfType
<1>4. /\ right \in Seq(Frames) /\ Len(right) = Len(packets) + 1
      /\ \A i \in 1..Len(packets) : right[i] = packets[i].frame
      /\ right[Len(packets) + 1] = packet.frame
  BY <1>2, FramesOfType, AppendProperties
<1>5. Len(packets) \in Nat
  BY LenProperties
<1> HIDE DEF left, right
<1>6. \A i \in 1..Len(left) : left[i] = right[i]
  BY <1>1, <1>3, <1>4, <1>5
<1>7. left = right
  BY <1>3, <1>4, <1>6, SeqEqual
<1>8. QED
  BY <1>7 DEF left, right

LEMMA FramesOfTail ==
  ASSUME NEW packets \in Seq(Packets), packets # <<>>
  PROVE  /\ FramesOf(packets) # <<>>
         /\ Head(FramesOf(packets)) = Head(packets).frame
         /\ Tail(FramesOf(packets)) = FramesOf(Tail(packets))
<1> DEFINE all == FramesOf(packets)
           rest == FramesOf(Tail(packets))
           tail == Tail(all)
<1>1. Tail(packets) \in Seq(Packets) /\ Len(Tail(packets)) = Len(packets) - 1
      /\ \A i \in 1..Len(Tail(packets)) : Tail(packets)[i] = packets[i + 1]
  BY HeadTailProperties
<1>2. Len(packets) \in Nat /\ Len(packets) # 0
  BY EmptySeq, LenProperties
<1>3. all \in Seq(Frames) /\ Len(all) = Len(packets)
      /\ \A i \in 1..Len(packets) : all[i] = packets[i].frame
  BY FramesOfType
<1>4. all # <<>>
  BY <1>2, <1>3, EmptySeq
<1>5. tail \in Seq(Frames) /\ Len(tail) = Len(packets) - 1
      /\ \A i \in 1..Len(packets) - 1 : tail[i] = all[i + 1]
  BY <1>3, <1>4, HeadTailProperties
<1>6. rest \in Seq(Frames) /\ Len(rest) = Len(packets) - 1
      /\ \A i \in 1..Len(packets) - 1 : rest[i] = Tail(packets)[i].frame
  BY <1>1, FramesOfType
<1>7. Head(all) = all[1] /\ Head(packets) = packets[1]
  BY <1>3, <1>4
<1> HIDE DEF all, rest, tail
<1>8. \A i \in 1..Len(tail) : tail[i] = rest[i]
  BY <1>1, <1>2, <1>3, <1>5, <1>6
<1>9. tail = rest
  BY <1>5, <1>6, <1>8, SeqEqual
<1>10. all[1] = packets[1].frame
  BY <1>2, <1>3
<1>11. QED
  BY <1>4, <1>7, <1>9, <1>10 DEF all, rest, tail

\* Handing the head of one sequence to the end of another keeps them together.
LEMMA HeadMoves ==
  ASSUME NEW S, NEW s \in Seq(S), NEW t \in Seq(S), t # <<>>
  PROVE  Append(s, Head(t)) \o Tail(t) = s \o t
<1> DEFINE left == Append(s, Head(t)) \o Tail(t)
           right == s \o t
<1>1. /\ Head(t) \in S /\ Tail(t) \in Seq(S) /\ Len(Tail(t)) = Len(t) - 1
      /\ \A i \in 1..Len(Tail(t)) : Tail(t)[i] = t[i + 1]
  BY HeadTailProperties
<1>2. /\ Append(s, Head(t)) \in Seq(S) /\ Len(Append(s, Head(t))) = Len(s) + 1
      /\ \A i \in 1..Len(s) : Append(s, Head(t))[i] = s[i]
      /\ Append(s, Head(t))[Len(s) + 1] = Head(t)
  BY <1>1, AppendProperties
<1>3. Len(s) \in Nat /\ Len(t) \in Nat /\ Len(t) # 0 /\ Head(t) = t[1]
  BY EmptySeq, LenProperties
<1>4. /\ left \in Seq(S) /\ Len(left) = Len(s) + Len(t)
      /\ \A i \in 1..Len(s) + Len(t) :
           left[i] = IF i <= Len(s) + 1 THEN Append(s, Head(t))[i]
                     ELSE Tail(t)[i - (Len(s) + 1)]
  <2> DEFINE a == Append(s, Head(t))
             b == Tail(t)
  <2>1. a \in Seq(S) /\ b \in Seq(S) /\ Len(a) = Len(s) + 1 /\ Len(b) = Len(t) - 1
    BY <1>1, <1>2
  <2> HIDE DEF a, b
  <2>2. /\ a \o b \in Seq(S) /\ Len(a \o b) = Len(a) + Len(b)
        /\ \A i \in 1..Len(a) + Len(b) :
             (a \o b)[i] = IF i <= Len(a) THEN a[i] ELSE b[i - Len(a)]
    BY <2>1, ConcatProperties
  <2>3. Len(a) + Len(b) = Len(s) + Len(t)
    BY <1>3, <2>1
  <2>4. QED
    BY <2>1, <2>2, <2>3 DEF a, b
<1>5. /\ right \in Seq(S) /\ Len(right) = Len(s) + Len(t)
      /\ \A i \in 1..Len(s) + Len(t) :
           right[i] = IF i <= Len(s) THEN s[i] ELSE t[i - Len(s)]
  BY ConcatProperties
<1> HIDE DEF left, right
<1>6. \A i \in 1..Len(left) : left[i] = right[i]
  <2> SUFFICES ASSUME NEW i \in 1..Len(left) PROVE left[i] = right[i]
    OBVIOUS
  <2>0. i \in 1..Len(s) + Len(t)
    BY <1>4
  <2>1. CASE i <= Len(s)
    BY <1>2, <1>3, <1>4, <1>5, <2>1, SMTT(30)
  <2>2. CASE i = Len(s) + 1
    <3>1. left[i] = t[1]
      BY <1>2, <1>3, <1>4, <2>2, SMTT(30)
    <3>2. right[i] = t[1]
      BY <1>3, <1>4, <1>5, <2>2, SMTT(30)
    <3>3. QED
      BY <3>1, <3>2
  <2>3. CASE i > Len(s) + 1
    <3>0. i - (Len(s) + 1) \in 1..Len(t) - 1
      BY <1>3, <2>0, <2>3
    <3>1. PICK j \in 1..Len(t) - 1 : j = i - (Len(s) + 1)
      BY <3>0
    <3>2. left[i] = Tail(t)[j]
      BY <1>3, <1>4, <2>3, <3>1
    <3>3. Tail(t)[j] = t[j + 1]
      BY <1>1, <3>1
    <3>4. right[i] = t[j + 1]
      BY <1>3, <1>4, <1>5, <2>3, <3>1
    <3>5. QED
      BY <3>2, <3>3, <3>4
  <2>4. QED
    BY <1>3, <2>0, <2>1, <2>2, <2>3
<1>7. left = right
  BY <1>4, <1>5, <1>6, SeqEqual
<1>8. QED
  BY <1>7 DEF left, right

\* And a new element behind the second one is behind both.
LEMMA AppendBehind ==
  ASSUME NEW S, NEW s \in Seq(S), NEW t \in Seq(S), NEW e \in S
  PROVE  s \o Append(t, e) = Append(s \o t, e)
<1>1. <<e>> \in Seq(S)
  OBVIOUS
<1>2. Append(t, e) = t \o <<e>> /\ s \o t \in Seq(S)
  BY AppendIsConcat, ConcatProperties
<1>3. Append(s \o t, e) = (s \o t) \o <<e>>
  BY <1>2, AppendIsConcat
<1>4. QED
  BY <1>1, <1>2, <1>3, ConcatAssociative

-----------------------------------------------------------------------------
(* Which frame is where.                                                   *)

Increasing(s) == \A i, j \in DOMAIN s : i < j => s[i] < s[j]

\* The frames that have become packets.
Out == Range(FramesOf(delivered)) \cup Range(FramesOf(output_queue))

Order ==
  /\ Increasing(held)
  /\ \A i \in DOMAIN held : ready < held[i] /\ held[i] <= frame
  /\ pc \in Before => \A i \in DOMAIN held : held[i] < frame
  /\ ready <= frame
  /\ \A f \in Out : f <= frame /\ \A i \in DOMAIN held : f < held[i]
  /\ pc \in Before => \A f \in Out : f < frame
  /\ ready # 0 => \A f \in Out : f < ready

LEMMA RangeOfAppend ==
  ASSUME NEW S, NEW s \in Seq(S), NEW e \in S
  PROVE  Range(Append(s, e)) = Range(s) \cup {e}
BY AppendProperties, LenProperties DEF Range

LEMMA OutType ==
  ASSUME Typing PROVE Out \subseteq Frames
BY FramesOfType, RangeOfSeq DEF Typing, Out

\* Receiving a packet leaves the frames given out as they are, and in order.
LEMMA FramesOfReceive ==
  ASSUME Typing, output_queue # <<>>, output_queue' = Tail(output_queue),
         delivered' = Append(delivered, Head(output_queue))
  PROVE  FramesOf(delivered') \o FramesOf(output_queue')
           = FramesOf(delivered) \o FramesOf(output_queue)
<1> DEFINE d == FramesOf(delivered)
           q == FramesOf(output_queue)
<1>1. Head(output_queue) \in Packets /\ Tail(output_queue) \in Seq(Packets)
  BY HeadTailProperties DEF Typing
<1>2. d \in Seq(Frames) /\ q \in Seq(Frames)
  BY FramesOfType DEF Typing
<1>3. q # <<>> /\ Head(q) = Head(output_queue).frame
      /\ Tail(q) = FramesOf(Tail(output_queue))
  BY FramesOfTail DEF Typing
<1>4. FramesOf(Append(delivered, Head(output_queue))) = Append(d, Head(q))
  BY <1>1, <1>3, FramesOfAppend DEF Typing
<1>5. FramesOf(delivered') = Append(d, Head(q)) /\ FramesOf(output_queue') = Tail(q)
  BY <1>3, <1>4
<1> HIDE DEF d, q
<1>6. Append(d, Head(q)) \o Tail(q) = d \o q
  BY <1>2, <1>3, HeadMoves
<1>7. QED
  BY <1>5, <1>6 DEF d, q

LEMMA OutIsRange ==
  ASSUME NEW d \in Seq(Packets), NEW q \in Seq(Packets)
  PROVE  Range(FramesOf(d) \o FramesOf(q)) = Range(FramesOf(d)) \cup Range(FramesOf(q))
<1> DEFINE a == FramesOf(d)
           b == FramesOf(q)
<1>1. a \in Seq(Frames) /\ b \in Seq(Frames)
  BY FramesOfType
<1> HIDE DEF a, b
<1>2. Range(a \o b) = Range(a) \cup Range(b)
  BY <1>1, RangeConcatenation
<1>3. QED
  BY <1>2 DEF a, b

LEMMA OutOfReceive ==
  ASSUME Typing, output_queue # <<>>, output_queue' = Tail(output_queue),
         delivered' = Append(delivered, Head(output_queue))
  PROVE  Out' = Out
<1>1. delivered' \in Seq(Packets) /\ output_queue' \in Seq(Packets)
  BY HeadTailProperties, AppendProperties DEF Typing
<1>2. Out' = Range(FramesOf(delivered') \o FramesOf(output_queue'))
  BY <1>1, OutIsRange DEF Out
<1>3. Out = Range(FramesOf(delivered) \o FramesOf(output_queue))
  BY OutIsRange DEF Typing, Out
<1>4. QED
  BY <1>2, <1>3, FramesOfReceive

LEMMA OutOfQueued ==
  ASSUME Typing, NEW packet \in Packets, UNCHANGED delivered,
         output_queue' = Append(output_queue, packet)
  PROVE  Out' = Out \cup {packet.frame}
<1>1. packet.frame \in Frames /\ FramesOf(output_queue) \in Seq(Frames)
  BY FramesOfType DEF Packets, Frames, Typing
<1>2. FramesOf(output_queue') = Append(FramesOf(output_queue), packet.frame)
  BY FramesOfAppend DEF Typing
<1>3. Range(FramesOf(output_queue')) = Range(FramesOf(output_queue)) \cup {packet.frame}
  BY <1>1, <1>2, RangeOfAppend
<1>4. QED
  BY <1>3 DEF Out

LEMMA OrderInit == Init => Order
<1> SUFFICES ASSUME Init PROVE Order
  OBVIOUS
<1>1. held = <<>> /\ output_queue = <<>> /\ delivered = <<>> /\ ready = 0 /\ frame = 0
  BY DEF Init
<1>2. Out = {}
  BY <1>1 DEF Out, FramesOf, Range
<1>3. DOMAIN held = {}
  BY <1>1
<1>4. QED
  BY <1>1, <1>2, <1>3 DEF Order, Increasing

\* Appending a frame above all others, taking the least one away, putting it
\* back: the frames with the driver stay in order.
LEMMA IncreasingAppend ==
  ASSUME NEW s \in Seq(Frames), NEW f \in Frames, Increasing(s),
         \A i \in DOMAIN s : s[i] < f
  PROVE  Increasing(Append(s, f))
<1>1. /\ DOMAIN s = 1..Len(s) /\ Len(s) \in Nat
      /\ DOMAIN Append(s, f) = 1..Len(s) + 1
      /\ \A i \in 1..Len(s) : Append(s, f)[i] = s[i]
      /\ Append(s, f)[Len(s) + 1] = f
  BY LenProperties, AppendProperties
<1>2. QED
  BY <1>1 DEF Increasing

LEMMA IncreasingTail ==
  ASSUME NEW s \in Seq(Frames), s # <<>>, Increasing(s)
  PROVE  /\ Increasing(Tail(s))
         /\ \A i \in DOMAIN Tail(s) : Head(s) < Tail(s)[i]
         /\ \A i \in DOMAIN Tail(s) : \E j \in DOMAIN s : Tail(s)[i] = s[j]
<1> DEFINE t == Tail(s)
<1>1. DOMAIN s = 1..Len(s) /\ Len(s) \in Nat /\ Len(s) # 0 /\ Head(s) = s[1]
  BY LenProperties, EmptySeq
<1>2. /\ t \in Seq(Frames) /\ Len(t) = Len(s) - 1
      /\ \A i \in 1..Len(t) : t[i] = s[i + 1]
  BY HeadTailProperties
<1>3. DOMAIN t = 1..Len(s) - 1
  BY <1>2, LenProperties
<1> HIDE DEF t
<1>4. \A i \in DOMAIN t : i + 1 \in DOMAIN s /\ t[i] = s[i + 1] /\ 1 < i + 1
  BY <1>1, <1>2, <1>3
<1>5. \A i \in DOMAIN t : s[1] < t[i]
  BY <1>1, <1>4 DEF Increasing
<1>6. Increasing(t)
  <2> SUFFICES ASSUME NEW i \in DOMAIN t, NEW j \in DOMAIN t, i < j
               PROVE  t[i] < t[j]
    BY DEF Increasing
  <2>1. i + 1 < j + 1
    BY <1>1, <1>3
  <2>2. QED
    BY <1>4, <2>1 DEF Increasing
<1>7. QED
  BY <1>1, <1>4, <1>5, <1>6 DEF t

LEMMA IncreasingCons ==
  ASSUME NEW s \in Seq(Frames), NEW f \in Frames, Increasing(s),
         \A i \in DOMAIN s : f < s[i]
  PROVE  /\ Increasing(<<f>> \o s)
         /\ \A i \in DOMAIN (<<f>> \o s) : \/ (<<f>> \o s)[i] = f
                                           \/ \E j \in DOMAIN s : (<<f>> \o s)[i] = s[j]
<1> DEFINE one == <<f>>
           t == one \o s
<1>1. one \in Seq(Frames) /\ Len(one) = 1 /\ one[1] = f
  OBVIOUS
<1>2. DOMAIN s = 1..Len(s) /\ Len(s) \in Nat
  BY LenProperties
<1> HIDE DEF one
<1>3. /\ t \in Seq(Frames) /\ Len(t) = 1 + Len(s)
      /\ \A i \in 1..1 + Len(s) : t[i] = IF i <= 1 THEN one[i] ELSE s[i - 1]
  <2>1. /\ t \in Seq(Frames) /\ Len(t) = Len(one) + Len(s)
        /\ \A i \in 1..Len(one) + Len(s) :
             t[i] = IF i <= Len(one) THEN one[i] ELSE s[i - Len(one)]
    BY <1>1, ConcatProperties
  <2> HIDE DEF t
  <2>2. QED
    BY <1>1, <2>1
<1>4. DOMAIN t = 1..1 + Len(s)
  BY <1>3, LenProperties
<1> HIDE DEF t
<1>5. \A i \in DOMAIN t : \/ i = 1 /\ t[i] = f
                          \/ i > 1 /\ i - 1 \in DOMAIN s /\ t[i] = s[i - 1]
  BY <1>1, <1>2, <1>3, <1>4
<1>6. Increasing(t)
  <2> SUFFICES ASSUME NEW i \in DOMAIN t, NEW j \in DOMAIN t, i < j
               PROVE  t[i] < t[j]
    BY DEF Increasing
  <2>1. j > 1 /\ j - 1 \in DOMAIN s /\ t[j] = s[j - 1]
    BY <1>2, <1>4, <1>5
  <2>2. CASE i = 1
    BY <1>5, <2>1, <2>2
  <2>3. CASE i # 1
    <3>1. i - 1 \in DOMAIN s /\ t[i] = s[i - 1] /\ i - 1 < j - 1
      BY <1>2, <1>4, <1>5, <2>3
    <3>2. QED
      BY <2>1, <3>1 DEF Increasing
  <2>4. QED
    BY <2>2, <2>3
<1>7. \A i \in DOMAIN t : t[i] = f \/ \E j \in DOMAIN s : t[i] = s[j]
  BY <1>5
<1>8. QED
  BY <1>6, <1>7 DEF t, one

LEMMA OrderStep == Control /\ Typing /\ Order /\ [Next]_vars => Order'
<1> SUFFICES ASSUME Control, Typing, Order, [Next]_vars PROVE Order'
  OBVIOUS
<1>1. /\ frame \in Int /\ ready \in Int /\ held \in Seq(Frames)
      /\ \A i \in DOMAIN held : held[i] \in Frames
      /\ Frames \subseteq Int /\ Out \subseteq Frames
      /\ \A f \in Frames : f > 0 /\ f \in Int
  BY OutType, EncoderAssumption, SMTT(30) DEF Typing, Frames
<1>2. ASSUME UNCHANGED <<output_queue, delivered>> PROVE Out' = Out
  BY <1>2 DEF Out
<1>3. ASSUME UNCHANGED <<frame, held, output_queue, delivered>>, ready' \in {0, ready},
             pc' \in Before => pc \in Before
      PROVE  Order'
  <2>1. Out' = Out
    BY <1>2, <1>3
  <2>2. \A i \in DOMAIN held : 0 < held[i]
    BY <1>1
  <2>3. 0 <= frame
    BY EncoderAssumption DEF Typing
  <2>4. QED
    BY <1>1, <1>3, <2>1, <2>2, <2>3 DEF Order, Increasing
<1>4. ASSUME NEW t \in Threads, NEW given \in NoPts..MaxPts, Send(t, given)
      PROVE  Order'
  <2>1. /\ frame' = frame + 1
        /\ UNCHANGED <<ready, held, output_queue, delivered>>
    BY <1>4 DEF Send, pictureVars, queueVars
  <2>2. Out' = Out
    BY <1>2, <2>1
  <2>3. ASSUME NEW i \in DOMAIN held
        PROVE  ready < held[i] /\ held[i] < frame' /\ held[i] <= frame'
    <3>1. /\ held[i] \in Int /\ frame \in Int
          /\ held[i] <= frame /\ ready < held[i]
      BY <1>1 DEF Order
    <3>2. QED
      BY <2>1, <3>1
  <2>4. \A f \in Out : f < frame'
    BY <1>1, <2>1 DEF Order
  <2>5. ready <= frame'
    BY <1>1, <2>1 DEF Order
  <2>6. \A f \in Out : f <= frame' /\ \A i \in DOMAIN held : f < held[i]
    BY <1>1, <2>1, <2>4 DEF Order
  <2>7. QED
    BY <2>1, <2>2, <2>3, <2>4, <2>5, <2>6 DEF Order, Increasing
<1>5. ASSUME NEW good \in BOOLEAN, Upload(good) PROVE Order'
  BY <1>3, <1>5 DEF Upload, Return, pictureVars, queueVars, clockVars, Before
<1>6. CASE Encode \/ NeedMoreInput
  <2> DEFINE all == Append(held, frame)
  <2>1. frame \in Frames /\ pc \in Before /\ pc' \notin Before /\ ready = 0
    BY <1>6 DEF Encode, NeedMoreInput, Return, Typing, Frames, Before, After, Sending
  <2>2. Out' = Out /\ UNCHANGED frame
    BY <1>2, <1>6 DEF Encode, NeedMoreInput, queueVars, clockVars
  <2>3. all \in Seq(Frames) /\ all # <<>> /\ Increasing(all)
    BY <1>1, <2>1, IncreasingAppend, AppendProperties DEF Order
  <2>4. \A i \in DOMAIN all : /\ all[i] \in Frames /\ all[i] <= frame
                              /\ \A f \in Out : f < all[i]
    <3>1. /\ DOMAIN all = 1..Len(held) + 1 /\ DOMAIN held = 1..Len(held)
          /\ Len(held) \in Nat
          /\ \A i \in 1..Len(held) : all[i] = held[i]
          /\ all[Len(held) + 1] = frame
      BY <1>1, <2>1, AppendProperties, LenProperties
    <3> HIDE DEF all
    <3>2. ASSUME NEW i \in DOMAIN all
          PROVE  all[i] = frame \/ \E j \in DOMAIN held : all[i] = held[j]
      BY <3>1
    <3>3. QED
      BY <1>1, <2>1, <3>2 DEF Order
  <2>5. CASE NeedMoreInput
    <3>1. held' = all /\ UNCHANGED ready
      BY <2>5 DEF NeedMoreInput
    <3> HIDE DEF all
    <3>2. \A i \in DOMAIN held' : ready' < held'[i] /\ held'[i] <= frame'
      BY <1>1, <2>1, <2>2, <2>4, <3>1
    <3>3. \A f \in Out' : f <= frame' /\ \A i \in DOMAIN held' : f < held'[i]
      BY <2>2, <2>4, <3>1 DEF Order
    <3>4. Increasing(held') /\ ready' <= frame' /\ ready' = 0
      BY <2>1, <2>2, <2>3, <3>1 DEF Order
    <3>5. QED
      BY <2>1, <3>2, <3>3, <3>4 DEF Order, Increasing
  <2>6. CASE Encode
    <3>1. ready' = Head(all) /\ held' = Tail(all)
      BY <2>6 DEF Encode
    <3> HIDE DEF all
    <3>2. Head(all) = all[1] /\ 1 \in DOMAIN all
      BY <2>3, LenProperties, EmptySeq
    <3>3. /\ Increasing(held')
          /\ \A i \in DOMAIN held' : ready' < held'[i]
          /\ \A i \in DOMAIN held' : \E j \in DOMAIN all : held'[i] = all[j]
      BY <2>3, <3>1, IncreasingTail
    <3>4. \A i \in DOMAIN held' : held'[i] <= frame' /\ \A f \in Out' : f < held'[i]
      BY <2>2, <2>4, <3>3
    <3>5. ready' <= frame' /\ \A f \in Out' : f < ready'
      BY <2>2, <2>4, <3>1, <3>2
    <3>6. \A f \in Out' : f <= frame'
      BY <2>2 DEF Order
    <3>7. QED
      BY <2>1, <3>3, <3>4, <3>5, <3>6 DEF Order, Increasing
  <2>7. QED
    BY <1>6, <2>5, <2>6
<1>7. CASE UnlockOutput
  <2> DEFINE packet == [frame |-> ready, pts |-> pts]
  <2>1. packet \in Packets /\ packet.frame = ready
    BY <1>7, PtsRange DEF UnlockOutput, Packets, Typing, Sending, After
  <2>2. /\ output_queue' = Append(output_queue, packet) /\ ready' = 0
        /\ pc' = "idle" /\ pc = "unlock_out" /\ UNCHANGED <<held, frame, delivered>>
    BY <1>7 DEF UnlockOutput, Queued, Return, clockVars
  <2>3. Out' = Out \cup {ready}
    <3> HIDE DEF packet
    <3>1. QED
      BY <2>1, <2>2, OutOfQueued
  <2>4. \A f \in Out' : f <= frame' /\ \A i \in DOMAIN held' : f < held'[i]
    BY <1>1, <2>2, <2>3 DEF Order
  <2>5. \A i \in DOMAIN held' : ready' < held'[i] /\ held'[i] <= frame'
    BY <1>1, <2>2 DEF Order
  <2>6. ready' <= frame' /\ ready' = 0
    BY <2>2, EncoderAssumption DEF Typing
  <2>7. QED
    BY <2>2, <2>4, <2>5, <2>6 DEF Order, Increasing, Before
<1>8. CASE EmptyOutput
  <2> DEFINE back == <<ready>> \o held
  <2>1. ready \in Frames /\ \A f \in Out : f < ready
    BY <1>8 DEF EmptyOutput, Typing, Frames, After, Order
  <2>2. /\ held' = back /\ ready' = 0 /\ pc' = "idle" /\ UNCHANGED frame
        /\ UNCHANGED <<output_queue, delivered>>
    BY <1>8 DEF EmptyOutput, Return, clockVars, queueVars
  <2>3. /\ Increasing(back)
        /\ \A i \in DOMAIN back : \/ back[i] = ready
                                  \/ \E j \in DOMAIN held : back[i] = held[j]
    BY <1>1, <2>1, IncreasingCons DEF Order
  <2>4. Out' = Out
    BY <1>2, <2>2
  <2> HIDE DEF back
  <2>5. \A i \in DOMAIN held' : /\ 0 < held'[i] /\ held'[i] <= frame'
                                /\ \A f \in Out' : f < held'[i]
    BY <1>1, <2>1, <2>2, <2>3, <2>4 DEF Order
  <2>6. \A f \in Out' : f <= frame'
    BY <2>2, <2>4 DEF Order
  <2>7. ready' <= frame' /\ ready' = 0
    BY <2>2, EncoderAssumption DEF Typing
  <2>8. QED
    BY <2>2, <2>3, <2>5, <2>6, <2>7 DEF Order, Increasing, Before
<1>9. CASE ReceivePacket
  <2>1. /\ UNCHANGED <<frame, ready, held, pc>>
        /\ \/ UNCHANGED <<output_queue, delivered>>
           \/ /\ output_queue # <<>> /\ output_queue' = Tail(output_queue)
              /\ delivered' = Append(delivered, Head(output_queue))
    BY <1>9 DEF ReceivePacket, pictureVars, queueVars, clockVars
  <2>2. Out' = Out
    BY <1>2, <2>1, OutOfReceive
  <2>3. QED
    BY <2>1, <2>2 DEF Order, Increasing
<1>10. CASE \/ LockInputFails \/ UnlockInputFails \/ EncodeFails
            \/ LockOutputFails \/ UnlockOutputFails
  BY <1>3, <1>10, RefusingSteps DEF Before
<1>11. CASE \/ MakeRefused \/ \E t \in Threads : MakeContext(t) \/ Drop(t)
            \/ MakeTable \/ TableFails \/ MakeStage \/ StageMissing \/ StageFails \/ Undo
            \/ SendRefused \/ LockInput \/ LockOutput \/ Flush \/ DropContext
            \/ Environment \/ UNCHANGED vars
  BY <1>3, <1>11, OtherSteps DEF Bookkeeping
<1>12. QED
  BY <1>4, <1>5, <1>6, <1>7, <1>8, <1>9, <1>10, <1>11
     DEF Next, Running, MakeStep, SendStep, Client

LEMMA OrderInvariant == Spec => []Order
<1>1. QED
  BY OrderInit, OrderStep, TypingInvariant, ControlInvariant, PTL DEF Spec

-----------------------------------------------------------------------------
(* What the client has, or can get.                                        *)

AllPackets == delivered \o output_queue
AllFrames == FramesOf(delivered) \o FramesOf(output_queue)

\* With a driver that keeps nothing back.
Kept ==
  ~buffered => /\ held = <<>>
               /\ pc \in After => ready = frame
               /\ AllFrames = accepted

LEMMA FramesOfConcat ==
  ASSUME NEW a \in Seq(Packets), NEW b \in Seq(Packets)
  PROVE  FramesOf(a \o b) = FramesOf(a) \o FramesOf(b)
<1> DEFINE ab == a \o b
           fa == FramesOf(a)
           fb == FramesOf(b)
           left == FramesOf(ab)
           right == fa \o fb
<1>1. /\ fa \in Seq(Frames) /\ Len(fa) = Len(a)
      /\ \A i \in 1..Len(a) : fa[i] = a[i].frame
  BY FramesOfType
<1>2. /\ fb \in Seq(Frames) /\ Len(fb) = Len(b)
      /\ \A i \in 1..Len(b) : fb[i] = b[i].frame
  BY FramesOfType
<1>3. Len(a) \in Nat /\ Len(b) \in Nat
  BY LenProperties
<1>4. /\ ab \in Seq(Packets) /\ Len(ab) = Len(a) + Len(b)
      /\ \A i \in 1..Len(a) + Len(b) : ab[i] = IF i <= Len(a) THEN a[i] ELSE b[i - Len(a)]
  BY ConcatProperties
<1> HIDE DEF ab, fa, fb
<1>5. /\ left \in Seq(Frames) /\ Len(left) = Len(ab)
      /\ \A i \in 1..Len(ab) : left[i] = ab[i].frame
  BY <1>4, FramesOfType
<1>6. /\ right \in Seq(Frames) /\ Len(right) = Len(fa) + Len(fb)
      /\ \A i \in 1..Len(fa) + Len(fb) :
           right[i] = IF i <= Len(fa) THEN fa[i] ELSE fb[i - Len(fa)]
  <2>1. fa \in Seq(Frames) /\ fb \in Seq(Frames)
    BY <1>1, <1>2
  <2>2. QED
    BY <2>1, ConcatProperties
<1> HIDE DEF left, right
<1>7. Len(left) = Len(a) + Len(b) /\ Len(right) = Len(a) + Len(b)
  BY <1>1, <1>2, <1>4, <1>5, <1>6
<1>8. ASSUME NEW i \in 1..Len(left) PROVE left[i] = right[i]
  <2>1. i \in 1..Len(a) + Len(b)
    BY <1>7
  <2>2. CASE i <= Len(a)
    <3>1. i \in 1..Len(a)
      BY <1>3, <2>1, <2>2
    <3>2. left[i] = a[i].frame
      BY <1>4, <1>5, <2>1, <2>2
    <3>3. right[i] = fa[i]
      BY <1>1, <1>2, <1>6, <2>1, <2>2
    <3>4. QED
      BY <1>1, <3>1, <3>2, <3>3
  <2>3. CASE ~(i <= Len(a))
    <3>0. i - Len(a) \in 1..Len(b)
      BY <1>3, <2>1, <2>3
    <3>1. PICK j \in 1..Len(b) : j = i - Len(a)
      BY <3>0
    <3>2. left[i] = b[j].frame
      BY <1>4, <1>5, <2>1, <2>3, <3>1
    <3>3. right[i] = fb[j]
      BY <1>1, <1>2, <1>6, <2>1, <2>3, <3>1
    <3>4. QED
      BY <1>2, <3>1, <3>2, <3>3
  <2>4. QED
    BY <2>2, <2>3
<1>9. left = right
  BY <1>5, <1>6, <1>7, <1>8, SeqEqual
<1>10. QED
  BY <1>9 DEF left, right, ab, fa, fb

LEMMA KeptStep == Control /\ Typing /\ Kept /\ [Next]_vars => Kept'
<1> SUFFICES ASSUME Control, Typing, Kept, [Next]_vars PROVE Kept'
  OBVIOUS
<1>1. ASSUME NEW t \in Threads, NEW given \in NoPts..MaxPts, Send(t, given)
      PROVE  Kept'
  BY <1>1 DEF Send, Kept, AllFrames, After, pictureVars, queueVars, historyVars
<1>2. ASSUME NEW good \in BOOLEAN, Upload(good) PROVE Kept'
  BY <1>2 DEF Upload, Return, Kept, AllFrames, After, pictureVars, queueVars, clockVars
<1>3. CASE Encode
  <2>1. /\ ready' = Head(Append(held, frame)) /\ held' = Tail(Append(held, frame))
        /\ UNCHANGED <<frame, accepted, output_queue, delivered, buffered>>
    BY <1>3 DEF Encode, queueVars, clockVars, historyVars
  <2>2. held = <<>> => ready' = frame /\ held' = <<>>
    BY <2>1
  <2>3. QED
    BY <2>1, <2>2 DEF Kept, AllFrames
<1>4. CASE NeedMoreInput \/ EmptyOutput
  BY <1>4 DEF NeedMoreInput, EmptyOutput, Kept
<1>5. CASE UnlockOutput
  <2> DEFINE packet == [frame |-> ready, pts |-> pts]
             d == FramesOf(delivered)
             q == FramesOf(output_queue)
  <2>1. /\ output_queue' = Append(output_queue, packet) /\ pc' = "idle"
        /\ UNCHANGED <<held, buffered, frame, delivered>>
        /\ accepted' = Append(accepted, frame)
    BY <1>5 DEF UnlockOutput, Queued, Return, clockVars
  <2>2. packet \in Packets /\ packet.frame = ready /\ pc \in After /\ ready \in Frames
    BY <1>5, PtsRange DEF UnlockOutput, Packets, Frames, Typing, Sending, After
  <2>3. d \in Seq(Frames) /\ q \in Seq(Frames)
    BY FramesOfType DEF Typing
  <2>4. FramesOf(output_queue') = Append(q, ready)
    <3> HIDE DEF packet
    <3>1. FramesOf(Append(output_queue, packet)) = Append(q, packet.frame)
      BY <2>2, FramesOfAppend DEF Typing
    <3>2. QED
      BY <2>1, <2>2, <3>1
  <2> HIDE DEF d, q, packet
  <2>5. d \o Append(q, ready) = Append(d \o q, ready)
    BY <2>2, <2>3, AppendBehind
  <2>6. AllFrames' = d \o Append(q, ready) /\ AllFrames = d \o q
    BY <2>1, <2>4 DEF AllFrames, d, q
  <2>7. QED
    BY <2>1, <2>2, <2>5, <2>6 DEF Kept, After
<1>6. CASE ReceivePacket
  <2>1. /\ UNCHANGED <<frame, ready, held, pc, accepted, buffered>>
        /\ \/ UNCHANGED <<output_queue, delivered>>
           \/ /\ output_queue # <<>> /\ output_queue' = Tail(output_queue)
              /\ delivered' = Append(delivered, Head(output_queue))
    BY <1>6 DEF ReceivePacket, pictureVars, queueVars, clockVars, historyVars
  <2>2. AllFrames' = AllFrames
    BY <2>1, FramesOfReceive DEF AllFrames
  <2>3. QED
    BY <2>1, <2>2 DEF Kept
<1>7. CASE \/ LockInputFails \/ UnlockInputFails \/ EncodeFails
           \/ LockOutputFails \/ UnlockOutputFails
  BY <1>7, RefusingSteps DEF Kept, AllFrames, After
<1>8. CASE \/ MakeRefused \/ \E t \in Threads : MakeContext(t) \/ Drop(t)
           \/ MakeTable \/ TableFails \/ MakeStage \/ StageMissing \/ StageFails \/ Undo
           \/ SendRefused \/ LockInput \/ LockOutput \/ Flush \/ DropContext
           \/ Environment \/ UNCHANGED vars
  BY <1>8, OtherSteps DEF Bookkeeping, Kept, AllFrames
<1>9. QED
  BY <1>1, <1>2, <1>3, <1>4, <1>5, <1>6, <1>7, <1>8
     DEF Next, Running, MakeStep, SendStep, Client

\* As long as the driver keeps nothing back, the frames send_frame said Ok to
\* are, in order, those of the packets delivered or waiting.
THEOREM OkIsAPacket == Spec => []OkMeansPacket
<1>1. Init => Kept
  <2>1. FramesOf(<<>>) = <<>>
    BY DEF FramesOf
  <2>2. QED
    BY <2>1 DEF Init, Kept, AllFrames, After
<1>2. Typing /\ Kept => OkMeansPacket
  BY FramesOfConcat DEF Typing, Kept, AllFrames, OkMeansPacket
<1>3. QED
  BY <1>1, <1>2, KeptStep, ControlInvariant, TypingInvariant, PTL DEF Spec

-----------------------------------------------------------------------------
(* Time stamps.                                                            *)

Clock ==
  /\ pts = NoPts => pts_counter = 0 /\ AllPackets = <<>>
  /\ pts # NoPts /\ pts # MaxPts => pts_counter = pts + 1
  /\ ~backward => PtsIncreasing
  /\ ~backward => \A i \in DOMAIN AllPackets :
                    /\ AllPackets[i].pts <= pts
                    /\ pc \in Sending => AllPackets[i].pts < pts

LEMMA ClockStep == Control /\ Typing /\ Clock /\ [Next]_vars => Clock'
<1> SUFFICES ASSUME Control, Typing, Clock, [Next]_vars PROVE Clock'
  OBVIOUS
<1>0. /\ AllPackets \in Seq(Packets)
      /\ \A i \in DOMAIN AllPackets : AllPackets[i].pts \in MinPts..MaxPts
  <2>1. AllPackets \in Seq(Packets)
    BY ConcatProperties DEF Typing, AllPackets
  <2>2. \A i \in DOMAIN AllPackets : AllPackets[i] \in Packets
    BY <2>1, LenProperties
  <2>3. QED
    BY <2>1, <2>2 DEF Packets
<1>1. ASSUME UNCHANGED <<pts, pts_counter, backward>>, AllPackets' = AllPackets,
             pc' \in Sending => pc \in Sending
      PROVE  Clock'
  BY <1>1 DEF Clock, PtsIncreasing, AllPackets
<1>2. ASSUME NEW t \in Threads, NEW given \in NoPts..MaxPts, Send(t, given)
      PROVE  Clock'
  <2>1. /\ pts' = IF given = NoPts THEN pts_counter ELSE given
        /\ pts_counter' = CounterAfter(given, pts')
        /\ backward' = (backward \/ pts = MaxPts \/ (given # NoPts /\ given <= pts))
        /\ UNCHANGED <<output_queue, delivered>>
    BY <1>2 DEF Send, queueVars
  <2>2. AllPackets' = AllPackets
    BY <2>1 DEF AllPackets
  <2>3. pts' \in MinPts..MaxPts /\ pts' # NoPts
    BY <2>1, PtsRange DEF Typing
  <2>4. pts' # MaxPts => pts_counter' = pts' + 1
    BY <2>1, <2>3 DEF CounterAfter
  <2>5. ~backward' => ~backward /\ pts # MaxPts /\ (given = NoPts \/ ~(given <= pts))
    BY <2>1
  <2>6. ASSUME ~backward', NEW i \in DOMAIN AllPackets
        PROVE  AllPackets[i].pts < pts'
    <3>1. AllPackets[i].pts <= pts /\ AllPackets[i].pts \in Int /\ pts # MaxPts
      BY <1>0, <2>5, <2>6, PtsRange DEF Clock
    <3>2. pts # NoPts
      BY <2>6 DEF Clock
    <3>3. pts \in Int /\ given \in Int /\ pts_counter = pts + 1
      BY <3>1, <3>2, PtsRange DEF Clock, Typing
    <3>4. pts' > pts
      BY <2>1, <2>5, <2>6, <3>3
    <3>5. QED
      BY <2>3, <3>1, <3>3, <3>4, PtsRange
  <2>7. ~backward' => PtsIncreasing'
    BY <2>1, <2>5 DEF Clock, PtsIncreasing
  <2>8. ASSUME ~backward', NEW i \in DOMAIN AllPackets'
        PROVE  AllPackets'[i].pts <= pts' /\ AllPackets'[i].pts < pts'
    <3>1. AllPackets[i].pts < pts' /\ AllPackets[i].pts \in Int /\ pts' \in Int
      BY <1>0, <2>2, <2>3, <2>6, <2>8, PtsRange
    <3>2. QED
      BY <2>2, <3>1
  <2>9. QED
    BY <2>3, <2>4, <2>7, <2>8 DEF Clock
<1>3. CASE UnlockOutput
  <2> DEFINE packet == [frame |-> ready, pts |-> pts]
             n == Len(AllPackets)
  <2>1. /\ output_queue' = Append(output_queue, packet) /\ pc' = "idle"
        /\ UNCHANGED <<pts, pts_counter, backward, delivered>> /\ pc \in Sending
    BY <1>3 DEF UnlockOutput, Queued, Return, clockVars, Sending
  <2>2. packet \in Packets /\ packet.pts = pts /\ pts # NoPts /\ pts \in Int
    BY <1>3, PtsRange DEF UnlockOutput, Packets, Typing, Sending, After
  <2>3. AllPackets' = Append(AllPackets, packet)
    <3> HIDE DEF packet
    <3>1. delivered \in Seq(Packets) /\ output_queue \in Seq(Packets)
      BY DEF Typing
    <3>2. delivered \o Append(output_queue, packet)
            = Append(delivered \o output_queue, packet)
      BY <2>2, <3>1, AppendBehind
    <3>3. QED
      BY <2>1, <3>2 DEF AllPackets
  <2>4. /\ DOMAIN AllPackets = 1..n /\ n \in Nat
        /\ DOMAIN AllPackets' = 1..n + 1
        /\ \A i \in 1..n : AllPackets'[i] = AllPackets[i]
        /\ AllPackets'[n + 1].pts = pts
    <3> HIDE DEF packet
    <3>1. QED
      BY <1>0, <2>2, <2>3, LenProperties, AppendProperties
  <2> HIDE DEF n
  <2>5. ASSUME ~backward, NEW i \in 1..n PROVE AllPackets[i].pts < pts
    BY <2>1, <2>4, <2>5 DEF Clock
  <2>6. ASSUME ~backward, NEW i \in 1..n + 1, NEW j \in 1..n + 1, i < j
        PROVE  AllPackets'[i].pts < AllPackets'[j].pts
    <3>1. i \in 1..n
      BY <2>4, <2>6
    <3>2. CASE j = n + 1
      BY <2>4, <2>5, <2>6, <3>1, <3>2
    <3>3. CASE j # n + 1
      <4>1. j \in 1..n
        BY <2>4, <3>3
      <4>2. AllPackets[i].pts < AllPackets[j].pts
        BY <2>4, <2>6, <3>1, <4>1 DEF Clock, PtsIncreasing, AllPackets
      <4>3. QED
        BY <2>4, <3>1, <4>1, <4>2
    <3>4. QED
      BY <3>2, <3>3
  <2>7. ASSUME ~backward, NEW i \in 1..n + 1 PROVE AllPackets'[i].pts <= pts
    <3>1. CASE i = n + 1
      BY <2>2, <2>4, <3>1
    <3>2. CASE i # n + 1
      <4>1. i \in 1..n
        BY <2>4, <3>2
      <4>2. AllPackets[i].pts < pts /\ AllPackets[i].pts \in Int
        BY <1>0, <2>4, <2>5, <2>7, <4>1, PtsRange
      <4>3. QED
        BY <2>2, <2>4, <4>1, <4>2
    <3>3. QED
      BY <3>1, <3>2
  <2>8. ~backward' => PtsIncreasing'
    BY <2>1, <2>4, <2>6 DEF PtsIncreasing, AllPackets
  <2>9. ~backward' => \A i \in DOMAIN AllPackets' : AllPackets'[i].pts <= pts'
    BY <2>1, <2>4, <2>7
  <2>10. pc' \notin Sending
    BY <2>1 DEF Sending
  <2>11. QED
    BY <2>1, <2>2, <2>8, <2>9, <2>10 DEF Clock
<1>4. CASE ReceivePacket
  <2>1. /\ UNCHANGED <<pts, pts_counter, backward, pc>>
        /\ \/ UNCHANGED <<output_queue, delivered>>
           \/ /\ output_queue # <<>> /\ output_queue' = Tail(output_queue)
              /\ delivered' = Append(delivered, Head(output_queue))
    BY <1>4 DEF ReceivePacket, pictureVars, queueVars, clockVars
  <2>2. output_queue # <<>> =>
          Append(delivered, Head(output_queue)) \o Tail(output_queue)
            = delivered \o output_queue
    BY HeadMoves DEF Typing
  <2>3. AllPackets' = AllPackets
    BY <2>1, <2>2 DEF AllPackets
  <2>4. QED
    BY <1>1, <2>1, <2>3
<1>5. ASSUME NEW good \in BOOLEAN, Upload(good) PROVE Clock'
  BY <1>1, <1>5 DEF Upload, Return, Sending, AllPackets, queueVars, clockVars
<1>6. CASE Encode \/ NeedMoreInput \/ EmptyOutput
  BY <1>1, <1>6 DEF Encode, NeedMoreInput, EmptyOutput, Return, Sending, AllPackets,
                    queueVars, clockVars
<1>7. CASE \/ LockInputFails \/ UnlockInputFails \/ EncodeFails
           \/ LockOutputFails \/ UnlockOutputFails
  BY <1>1, <1>7, RefusingSteps DEF AllPackets, Sending
<1>8. CASE \/ MakeRefused \/ \E t \in Threads : MakeContext(t) \/ Drop(t)
           \/ MakeTable \/ TableFails \/ MakeStage \/ StageMissing \/ StageFails \/ Undo
           \/ SendRefused \/ LockInput \/ LockOutput \/ Flush \/ DropContext
           \/ Environment \/ UNCHANGED vars
  BY <1>1, <1>8, OtherSteps DEF Bookkeeping, AllPackets
<1>9. QED
  BY <1>2, <1>3, <1>4, <1>5, <1>6, <1>7, <1>8
     DEF Next, Running, MakeStep, SendStep, Client

\* The time stamps of the packets increase, whatever frames come without one
\* and whatever fails, as long as the client's own increase and one is left.
THEOREM StampsIncrease == Spec => []PtsIncreasing
<1>1. Init => Clock
  <2> SUFFICES ASSUME Init PROVE Clock
    OBVIOUS
  <2>1. delivered \o output_queue = <<>>
    BY DEF Init
  <2>2. AllPackets = <<>> /\ PtsIncreasing
    BY <2>1 DEF AllPackets, PtsIncreasing
  <2>3. QED
    BY <2>2 DEF Init, Clock
<1>2. Clock => PtsIncreasing
  BY DEF Clock, PtsIncreasing
<1>3. QED
  BY <1>1, <1>2, ClockStep, ControlInvariant, TypingInvariant, PTL DEF Spec

-----------------------------------------------------------------------------
(* Type correctness.                                                       *)

Stacks == stack \in [Threads -> Seq(Foreign \cup {Own})]

LEMMA PopType ==
  ASSUME NEW S, NEW s \in Seq(S)
  PROVE  SubSeq(s, 1, Len(s) - 1) \in Seq(S)
BY SubSeqProperties, LenProperties, EmptySeq

LEMMA StacksInit == Init => Stacks
<1> SUFFICES ASSUME Init PROVE Stacks
  OBVIOUS
<1>1. \A c \in Foreign : <<c>> \in Seq(Foreign \cup {Own})
  OBVIOUS
<1>2. {<<>>} \cup {<<c>> : c \in Foreign} \subseteq Seq(Foreign \cup {Own})
  BY <1>1, EmptySeq
<1>3. stack \in [Threads -> {<<>>} \cup {<<c>> : c \in Foreign}]
  BY DEF Init
<1>4. QED
  BY <1>2, <1>3 DEF Stacks

\* Only the thread of a method or of other code pushes and pops.
LEMMA StacksStep == Control /\ Stacks /\ [Next]_vars => Stacks'
<1> SUFFICES ASSUME Control, Stacks, [Next]_vars PROVE Stacks'
  OBVIOUS
<1>1. ASSUME NEW t \in Threads, NEW c \in Foreign \cup {Own},
             stack' = PushOn(stack, t, c)
      PROVE  Stacks'
  <2>1. Append(stack[t], c) \in Seq(Foreign \cup {Own})
    BY AppendProperties DEF Stacks
  <2>2. QED
    BY <1>1, <2>1 DEF Stacks, PushOn
<1>2. ASSUME NEW t \in Threads, stack' = PopFrom(stack, t) PROVE Stacks'
  <2>1. SubSeq(stack[t], 1, Len(stack[t]) - 1) \in Seq(Foreign \cup {Own})
    BY PopType DEF Stacks
  <2>2. QED
    BY <1>2, <2>1 DEF Stacks, PopFrom
<1>3. ASSUME NEW answer, pc \in InMethod, DropContextWith(answer) PROVE Stacks'
  <2>1. thr \in Threads /\ stack' \in {stack, PopFrom(stack, thr)}
    BY <1>3 DEF DropContextWith, DestroyOn, Control
  <2>2. QED
    BY <1>2, <2>1 DEF Stacks
<1>4. ASSUME NEW t \in Threads, MakeContext(t) PROVE Stacks'
  BY <1>1, <1>4 DEF MakeContext
<1>5. CASE TableFails \/ StageMissing \/ DropContext
  BY <1>3, <1>5 DEF TableFails, StageMissing, DropContext, InMethod
<1>6. ASSUME NEW t \in Threads, ForeignPop(t) PROVE Stacks'
  BY <1>2, <1>6 DEF ForeignPop
<1>7. ASSUME NEW t \in Threads, NEW c \in Foreign, ForeignPush(t, c) PROVE Stacks'
  BY <1>1, <1>7 DEF ForeignPush
<1>8. ASSUME UNCHANGED stack PROVE Stacks'
  BY <1>8 DEF Stacks
<1>9. CASE \/ MakeRefused \/ MakeTable \/ MakeStage \/ StageFails \/ Undo
           \/ SendRefused \/ ReceivePacket \/ Flush
  BY <1>8, <1>9 DEF MakeRefused, MakeTable, MakeStage, StageFails, Undo, SendRefused,
                    ReceivePacket, Flush
<1>10. ASSUME NEW t \in Threads, Drop(t) \/ \E given \in NoPts..MaxPts : Send(t, given)
       PROVE  Stacks'
  BY <1>8, <1>10 DEF Drop, Send
<1>11. CASE LockInput \/ LockInputFails \/ UnlockInputFails
            \/ \E good \in BOOLEAN : Upload(good)
  BY <1>8, <1>11 DEF LockInput, LockInputFails, Upload, UnlockInputFails
<1>12. CASE Encode \/ NeedMoreInput \/ EncodeFails
  BY <1>8, <1>12 DEF Encode, NeedMoreInput, EncodeFails
<1>13. CASE \/ LockOutput \/ LockOutputFails
            \/ UnlockOutput \/ EmptyOutput \/ UnlockOutputFails
  BY <1>8, <1>13 DEF LockOutput, LockOutputFails, UnlockOutput, EmptyOutput,
                     UnlockOutputFails
<1>14. CASE UNCHANGED vars
  BY <1>8, <1>14 DEF vars
<1>15. QED
  BY <1>4, <1>5, <1>6, <1>7, <1>9, <1>10, <1>11, <1>12, <1>13, <1>14
     DEF Next, Running, MakeStep, SendStep, Client, Environment

\* Every variable of an encoder keeps its type.
THEOREM TypeCorrect == Spec => []TypeOK
<1>1. Control /\ Resources /\ Locks /\ Typing /\ Stacks => TypeOK
  <2> SUFFICES ASSUME Control, Resources, Locks, Typing, Stacks PROVE TypeOK
    OBVIOUS
  <2>1. /\ ctx \in {"none", "live", "destroyed"}
        /\ session \in {"none", "open", "destroyed"}
        /\ input \in Buffers /\ output \in Buffers
    BY UndoingIs DEF Control, Resources, Steps, InMethod, Stages, Sending, Usable,
                     Buffers, BuffersGone, SessionGone
  <2>2. pc \in {"absent", "table", "idle", "drop_ctx", "gone"} \cup Stages \cup Sending
              \cup Undoing
        /\ result \in {"none", "ok", "err", "unsupported", "closed", "packet", "eof",
                       "need_more"}
        /\ flushed \in BOOLEAN /\ missing \subseteq Slots
        /\ thr \in Threads \cup {NoThread}
    BY DEF Control, Steps, Answers
  <2>3. /\ held \in Seq(1..MaxFrames) /\ ready \in 0..MaxFrames
        /\ output_queue \in Seq(Packets) /\ delivered \in Seq(Packets)
        /\ pts_counter \in MinPts..MaxPts /\ pts \in NoPts..MaxPts
        /\ frame \in 0..MaxFrames /\ backward \in BOOLEAN
        /\ accepted \in Seq(1..MaxFrames) /\ buffered \in BOOLEAN
    BY DEF Typing
  <2>4. stack \in [Threads -> Seq(Foreign \cup {Own})] /\ refused \subseteq {"input", "output"}
    BY DEF Stacks, Locks
  <2>5. QED
    BY <2>1, <2>2, <2>3, <2>4 DEF TypeOK
<1>2. Init => Locks
  BY DEF Init, Locks
<1>3. QED
  BY <1>1, <1>2, ControlInvariant, ResourcesInit, ResourcesStep, LocksStep,
     TypingInvariant, StacksInit, StacksStep, PTL DEF Spec

-----------------------------------------------------------------------------
(* Refinement: the encoder implements FramePipe.                           *)

LEMMA PipeInit == Init => Pipe!Init
<1>1. FramesOf(<<>>) = <<>>
  BY DEF FramesOf
<1>2. QED
  BY <1>1 DEF Init, Pipe!Init

\* The frames in the abstract pipe are those that became packets.
LEMMA InPipeIsOut == Pipe!InPipe = Out
BY DEF Pipe!InPipe, Out, Range

\* A step that leaves the packets alone begins another call or goes unseen.
LEMMA PipeBegins ==
  ASSUME UNCHANGED <<output_queue, delivered, flushed>>,
         result' # "eof" \/ result' = result
  PROVE  Pipe!Next \/ UNCHANGED Pipe!pipeVars
<1>1. CASE result' = result
  BY <1>1 DEF Pipe!pipeVars
<1>2. CASE result' # "eof"
  BY <1>2 DEF Pipe!Next, Pipe!Begin
<1>3. QED
  BY <1>1, <1>2

LEMMA PipeStep ==
  Control /\ Typing /\ Order /\ [Next]_vars => [Pipe!Next]_(Pipe!pipeVars)
<1> SUFFICES ASSUME Control, Typing, Order, [Next]_vars
             PROVE  Pipe!Next \/ UNCHANGED Pipe!pipeVars
  OBVIOUS
<1>1. CASE UnlockOutput
  <2> DEFINE packet == [frame |-> ready, pts |-> pts]
  <2>1. /\ output_queue' = Append(output_queue, packet)
        /\ UNCHANGED <<delivered, flushed>>
        /\ result' # "eof" /\ result # "eof"
    BY <1>1 DEF UnlockOutput, Queued, Return, Control, InMethod, Sending
  <2>2. packet \in Packets /\ packet.frame = ready /\ ready \in Frames /\ ready # 0
    BY <1>1, PtsRange DEF UnlockOutput, Packets, Frames, Typing, Sending, After
  <2>3. FramesOf(output_queue') = Append(FramesOf(output_queue), ready)
    <3> HIDE DEF packet
    <3>1. QED
      BY <2>1, <2>2, FramesOfAppend DEF Typing
  <2>4. ready \notin Pipe!InPipe
    <3>1. ready \in Int /\ ~(ready < ready)
      BY <2>2, EncoderAssumption DEF Frames
    <3>2. QED
      BY <2>2, <3>1, InPipeIsOut DEF Order
  <2>5. Pipe!Produce(ready)
    BY <2>1, <2>3, <2>4 DEF Pipe!Produce
  <2>6. QED
    BY <2>2, <2>5 DEF Pipe!Next, Frames
<1>2. CASE ReceivePacket
  <2>1. CASE output_queue # <<>>
    <3>1. /\ output_queue' = Tail(output_queue) /\ UNCHANGED flushed
          /\ delivered' = Append(delivered, Head(output_queue)) /\ result' # "eof"
      BY <1>2, <2>1 DEF ReceivePacket
    <3>2. Head(output_queue) \in Packets
      BY <2>1, HeadTailProperties DEF Typing
    <3>3. /\ FramesOf(output_queue) # <<>>
          /\ FramesOf(output_queue') = Tail(FramesOf(output_queue))
          /\ Head(FramesOf(output_queue)) = Head(output_queue).frame
      BY <2>1, <3>1, FramesOfTail DEF Typing
    <3>4. FramesOf(delivered') = Append(FramesOf(delivered), Head(FramesOf(output_queue)))
      BY <3>1, <3>2, <3>3, FramesOfAppend DEF Typing
    <3>5. QED
      BY <3>1, <3>3, <3>4 DEF Pipe!Next, Pipe!Deliver
  <2>2. CASE output_queue = <<>>
    <3>1. /\ UNCHANGED <<output_queue, delivered, flushed>>
          /\ (result' = "eof") = flushed
      BY <1>2, <2>2 DEF ReceivePacket, queueVars, Control
    <3>2. FramesOf(output_queue) = <<>>
      BY <2>2 DEF FramesOf
    <3>3. QED
      BY <3>1, <3>2 DEF Pipe!Next, Pipe!Empty
  <2>3. QED
    BY <2>1, <2>2
<1>3. CASE Flush
  <2>1. /\ UNCHANGED <<output_queue, delivered>> /\ flushed' = TRUE /\ result' # "eof"
    BY <1>3 DEF Flush, queueVars
  <2>2. CASE result = "eof"
    BY <2>1, <2>2, PipeBegins DEF Control
  <2>3. CASE result # "eof"
    BY <2>1, <2>3 DEF Pipe!Next, Pipe!Close
  <2>4. QED
    BY <2>2, <2>3
<1>4. CASE \/ LockInputFails \/ UnlockInputFails \/ EncodeFails
           \/ LockOutputFails \/ UnlockOutputFails
  BY <1>4, RefusingSteps, PipeBegins
<1>5. CASE MakeRefused \/ MakeTable \/ TableFails
  BY <1>5, PipeBegins DEF MakeRefused, MakeTable, TableFails, Refusals, DropContextWith,
                          queueVars
<1>6. CASE MakeStage \/ StageMissing \/ StageFails \/ Undo
  BY <1>6, PipeBegins DEF MakeStage, StageMissing, StageFails, Undo, DropContextWith,
                          queueVars
<1>7. ASSUME NEW t \in Threads, \/ MakeContext(t) \/ Drop(t)
                                \/ \E given \in NoPts..MaxPts : Send(t, given)
      PROVE  Pipe!Next \/ UNCHANGED Pipe!pipeVars
  BY <1>7, PipeBegins DEF MakeContext, Drop, Send, queueVars
<1>8. CASE SendRefused \/ LockInput \/ LockOutput \/ DropContext
  BY <1>8, PipeBegins DEF SendRefused, LockInput, LockOutput, DropContext,
                          DropContextWith, queueVars
<1>9. CASE (\E good \in BOOLEAN : Upload(good)) \/ Encode \/ NeedMoreInput \/ EmptyOutput
  BY <1>9, PipeBegins DEF Upload, Encode, NeedMoreInput, EmptyOutput, Return, queueVars
<1>10. CASE Environment \/ UNCHANGED vars
  BY <1>10, PipeBegins DEF Environment, ForeignPush, ForeignPop, vars, queueVars
<1>11. QED
  BY <1>1, <1>2, <1>3, <1>4, <1>5, <1>6, <1>7, <1>8, <1>9, <1>10
     DEF Next, Running, MakeStep, SendStep, Client

\* For every number of threads and frames, what the client sees of the packet
\* queue is the FIFO pipe of FramePipe: no frame becomes two packets, the order
\* stays, and Eof comes only from an encoder that was flushed and has no packet.
THEOREM PipeRefinement == Spec => ImplementsPipe
<1>1. QED
  BY PipeInit, PipeStep, ControlInvariant, TypingInvariant, OrderInvariant, PTL
     DEF Spec, ImplementsPipe, Pipe!Spec
-----------------------------------------------------------------------------
(***************************************************************************)
(* What CallReturns rests on. The fairness step stays with TLC; that a     *)
(* method is never without a next step and has only so many of them is     *)
(* proved here, whatever the driver refuses and whichever slots are empty. *)
(***************************************************************************)

\* The guards of the running method's actions, step by step. A buffer is locked
\* by us, or is refused as locked, or its slot is empty; anywhere else the
\* driver either does what it is asked or does not.
CanStep ==
  \/ pc \in {"table", "drop_ctx", "upload", "encode", "unlock_out"} \cup Stages \cup Undoing
  \/ pc = "lock_in" /\ (input \in Usable \/ "lock_in" \in missing)
  \/ pc = "lock_out" /\ (output \in Usable \/ "lock_out" \in missing)
MethodGoesOn == pc \in InMethod => CanStep

\* No method gets stuck: send_frame never comes to a buffer that it could
\* neither lock nor be refused, whatever earlier frames left behind.
THEOREM MethodsGoOn == Spec => []MethodGoesOn
<1>1. Control /\ Resources => MethodGoesOn
  BY DEF Control, Resources, MethodGoesOn, CanStep, InMethod, Sending, Stages
<1>2. QED
  BY <1>1, ControlInvariant, ResourcesInit, ResourcesStep, PTL DEF Spec

\* The most steps that the method has left, when a stage of make_for may fail at
\* any time and be undone.
StepsLeft ==
  CASE pc \in {"absent", "idle", "gone"}             -> 0
    [] pc \in {"unlock_out", "drop_ctx"}             -> 1
    [] pc \in {"lock_out", "ask_open", "ask_preset", "undo_session"} -> 2
    [] pc \in {"encode", "ask", "undo_input", "drop_output", "undo_preset"} -> 3
    [] pc \in {"upload", "ask_output", "drop_input"} -> 4
    [] pc \in {"lock_in", "output"}                  -> 5
    [] pc = "input"                                  -> 6
    [] pc = "init"                                   -> 7
    [] pc = "preset"                                 -> 8
    [] pc = "open"                                   -> 9
    [] pc = "table"                                  -> 10

\* Every step of a method is one step nearer to its end, and other threads
\* never set it back: nothing is tried again.
MethodsAreFinite ==
  [][/\ pc \in InMethod => StepsLeft' <= StepsLeft
     /\ Running => StepsLeft' < StepsLeft]_vars

StepsAreNat == StepsLeft \in Nat

\* What makes the steps left well-founded.
LEMMA StepsType == Control => StepsAreNat
BY UndoingIs DEF Control, Steps, Stages, Sending, StepsAreNat, StepsLeft

\* No method of the encoder can go on for ever.
THEOREM MethodsTerminate == Spec => MethodsAreFinite
<1>1. ASSUME Control, Running PROVE StepsLeft' < StepsLeft
  <2> USE DEF StepsLeft
  <2>0. CASE StageFails
    BY <2>0, FirstUndoIs DEF Stages
  <2>1. CASE MakeTable \/ TableFails \/ StageMissing \/ DropContext
    BY <2>1 DEF MakeTable, TableFails, StageMissing, DropContext, DropContextWith, Stages
  <2>2. CASE MakeStage
    BY <2>2 DEF MakeStage, NextStage, Stages
  <2>3. CASE LockInput \/ LockInputFails \/ UnlockInputFails
    BY <2>3 DEF LockInput, LockInputFails, LockGivenUp, UnlockInputFails, Return
  <2>4. ASSUME NEW good \in BOOLEAN, Upload(good) PROVE StepsLeft' < StepsLeft
    BY <2>4 DEF Upload, Return
  <2>5. CASE Encode \/ NeedMoreInput \/ EncodeFails
    BY <2>5 DEF Encode, NeedMoreInput, EncodeFails, Return
  <2>6. CASE \/ LockOutput \/ LockOutputFails
             \/ UnlockOutput \/ EmptyOutput \/ UnlockOutputFails
    BY <2>6 DEF LockOutput, LockOutputFails, UnlockOutput, EmptyOutput,
                UnlockOutputFails, Return
  <2>7. CASE Undo
    BY <2>7, UndoOrder, UndoingIs
  <2>8. QED
    BY <1>1, <2>0, <2>1, <2>2, <2>3, <2>4, <2>5, <2>6, <2>7
       DEF Running, MakeStep, SendStep
<1>2. ASSUME Control, [Next]_vars, pc \in InMethod, ~Running
      PROVE  StepsLeft' <= StepsLeft
  <2>1. CASE Client
    BY <1>2, <2>1, UndoingIs
       DEF Client, InMethod, Stages, Sending, MakeRefused, SendRefused, ReceivePacket,
           Flush, MakeContext, Drop, Send
  <2>2. CASE Environment \/ UNCHANGED vars
    <3>1. pc' = pc
      BY <2>2 DEF Environment, ForeignPush, ForeignPop, vars
    <3>2. StepsLeft' = StepsLeft
      BY <3>1 DEF StepsLeft
    <3>3. StepsLeft \in Nat
      BY <1>2, StepsType DEF StepsAreNat
    <3>4. QED
      BY <3>2, <3>3
  <2>3. QED
    BY <1>2, <2>1, <2>2 DEF Next
<1>3. StepsAreNat /\ StepsAreNat' /\ StepsLeft' < StepsLeft => StepsLeft' <= StepsLeft
  BY DEF StepsAreNat
<1>4. Control /\ StepsAreNat /\ StepsAreNat' /\ [Next]_vars =>
        [/\ pc \in InMethod => StepsLeft' <= StepsLeft
         /\ Running => StepsLeft' < StepsLeft]_vars
  BY <1>1, <1>2, <1>3
<1>5. QED
  BY <1>4, ControlInvariant, StepsType, PTL DEF Spec, MethodsAreFinite
=============================================================================
