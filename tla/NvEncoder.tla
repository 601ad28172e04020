------------------------------ MODULE NvEncoder ------------------------------
(***************************************************************************)
(* One NVENC encoder (src/src/encoder.rs): the factory that opens a        *)
(* session and its two buffers and must undo what it did when a step       *)
(* fails, the lock - upload - unlock - encode - lock - copy - unlock cycle *)
(* of send_frame, the packet queue, and Drop. Unlike the decoder it binds  *)
(* no context: cuCtxCreate leaves it current on the thread that built the  *)
(* encoder. The driver is external; a driver that buffers pictures may     *)
(* answer NEED_MORE_INPUT or an empty bitstream.                           *)
(***************************************************************************)
EXTENDS Integers, Sequences, CudaContexts

CONSTANTS
  Threads, NoThread,
  Own,             \* the context this encoder creates
  Foreign,         \* contexts other code makes current on these threads
  Faults,          \* the driver calls that may fail
  Optional,        \* function-table slots a driver may leave empty
  Buffering,       \* whether the driver may keep pictures back
  MaxFrames,       \* bound: frames sent
  MaxPts,          \* greatest time stamp: that of an i64 in the code
  MaxForeign       \* bound: depth of a context stack

\* The calls of the function table, named after what they do.
Stages == {"open", "preset", "init", "input", "output"}
Slots  == Stages \cup {"lock_in", "unlock_in", "encode", "lock_out", "unlock_out",
                       "destroy_in", "destroy_out", "destroy"}

ASSUME EncoderAssumption ==
  /\ NoThread \notin Threads
  /\ Own \notin Foreign /\ NoContext \notin Foreign \cup {Own}
  /\ Faults \subseteq Slots \cup {"ctx", "table"} /\ Optional \subseteq Slots
  /\ Buffering \in BOOLEAN
  /\ {MaxFrames, MaxPts, MaxForeign} \subseteq Nat

VARIABLES
  stack,          \* [Threads -> sequence of contexts]
  missing,        \* the empty slots of the function table, fixed at start
  ctx,            \* the CUDA context: "none", "live", "destroyed"
  session,        \* the NVENC session: "none", "open", "destroyed"
  input, output,  \* the buffers: "none", "live", "locked", "destroyed"
  held,           \* frames the driver has taken and not given out
  ready,          \* the frame whose bitstream is in the output buffer, or 0
  output_queue,   \* packets, as the frame they encode and their time stamp
  pts_counter, flushed,
  pc, thr,        \* the step of the running method, and its thread
  frame, pts,     \* the newest frame and its time stamp
  result,         \* answer of the last method, from when it is settled
  accepted,       \* history: frames for which send_frame answered Ok
  delivered,      \* history: packets handed to the client
  refused,        \* history: buffers the driver refused to unlock
  buffered,       \* history: the driver has kept a picture back
  backward        \* history: a time stamp was out of order, or none was left

driverVars  == <<ctx, session, input, output>>
pictureVars == <<held, ready>>
queueVars   == <<output_queue, delivered>>
clockVars   == <<pts_counter, pts, frame, backward>>
historyVars == <<accepted, refused, buffered>>
vars == <<stack, missing, driverVars, pictureVars, queueVars, clockVars, flushed,
          pc, thr, result, historyVars>>

\* Two's complement, and a value that stands for None.
MinPts == -MaxPts - 1
NoPts  == MinPts - 1
Fails(call) == call \in Faults

\* A call that fails is Error::Other, an empty slot Error::Unsupported. For the
\* message of the first, map_nvenc_status asks the session for its last error: in
\* send_frame an open one (see ResourcesUnwound), in make_for a step of its own.
Refusal(call) == IF call \in missing THEN "unsupported" ELSE "err"

Init ==
  /\ stack \in [Threads -> {<<>>} \cup {<<c>> : c \in Foreign}]
  /\ missing \in {{}} \cup {{slot} : slot \in Optional}
  /\ ctx = "none" /\ session = "none" /\ input = "none" /\ output = "none"
  /\ held = <<>> /\ ready = 0
  /\ output_queue = <<>> /\ delivered = <<>>
  /\ pts_counter = 0 /\ pts = NoPts /\ frame = 0 /\ backward = FALSE
  /\ flushed = FALSE /\ pc = "absent" /\ thr = NoThread /\ result = "none"
  /\ accepted = <<>> /\ refused = {} /\ buffered = FALSE

-----------------------------------------------------------------------------
(* make_for                                                                *)

\* map_unsupported, and the closure on nvenc_fns, tell a driver that is not there
\* from one that refuses.
Refusals == {"unsupported", "err"}

MakeRefused ==
  /\ pc = "absent" /\ Fails("ctx")
  /\ pc' = "gone" /\ result' \in Refusals
  /\ UNCHANGED <<stack, missing, driverVars, pictureVars, queueVars, clockVars,
                 flushed, thr, historyVars>>

MakeContext(t) ==
  /\ pc = "absent"
  /\ pc' = "table" /\ thr' = t
  /\ ctx' = "live" /\ stack' = PushOn(stack, t, Own)
  /\ UNCHANGED <<missing, session, input, output, pictureVars, queueVars,
                 clockVars, flushed, result, historyVars>>

\* nvenc_fns() has an answer.
MakeTable ==
  /\ pc = "table"
  /\ pc' = "open"
  /\ UNCHANGED <<stack, missing, driverVars, pictureVars, queueVars, clockVars,
                 flushed, thr, result, historyVars>>

\* The CudaContext is dropped, by `?' or with the encoder's fields.
DropContextWith(answer) ==
  /\ ctx' = "destroyed" /\ stack' = DestroyOn(stack, thr, Own)
  /\ pc' = "gone" /\ thr' = NoThread /\ result' = answer
  /\ UNCHANGED <<missing, pictureVars, queueVars, clockVars, flushed, historyVars>>

TableFails ==
  /\ pc = "table" /\ Fails("table")
  /\ \E answer \in Refusals : DropContextWith(answer)
  /\ UNCHANGED <<session, input, output>>

\* One stage after the other, each leaving its mark in the driver.
NextStage == [open |-> "preset", preset |-> "init", init |-> "input",
              input |-> "output", output |-> "idle"]
MakeStage ==
  /\ pc \in Stages /\ pc \notin missing
  /\ pc' = NextStage[pc]
  /\ session' = IF pc = "open" THEN "open" ELSE session
  /\ input'   = IF pc = "input" THEN "live" ELSE input
  /\ output'  = IF pc = "output" THEN "live" ELSE output
  /\ result'  = IF pc = "output" THEN "ok" ELSE result
  /\ thr'     = IF pc = "output" THEN NoThread ELSE thr
  /\ UNCHANGED <<stack, missing, ctx, pictureVars, queueVars, clockVars, flushed,
                 historyVars>>

\* `ok_or_else(..)?' on an empty slot: the context goes, the session stays.
StageMissing ==
  /\ pc \in Stages \cap missing
  /\ DropContextWith("unsupported")
  /\ UNCHANGED <<session, input, output>>

\* Where a failing stage goes: it asks the session for its last error and then
\* undoes what was made, but the preset stage asks the session it has destroyed.
FirstUndo == [open |-> "ask_open", preset |-> "undo_preset", init |-> "ask",
              input |-> "ask", output |-> "ask_output"]
StageFails ==
  /\ pc \in Stages \ missing /\ Fails(pc)
  /\ pc' = FirstUndo[pc] /\ result' = "err"
  /\ UNCHANGED <<stack, missing, driverVars, pictureVars, queueVars, clockVars,
                 flushed, thr, historyVars>>

\* A change that would break ResourcesUnwound: forget the input buffer.
AfterUndoForgets ==
  [ask_open |-> "drop_ctx", undo_preset |-> "ask_preset", ask_preset |-> "drop_ctx",
   ask |-> "undo_session", ask_output |-> "undo_session", undo_input |-> "undo_session",
   drop_input |-> "drop_output", drop_output |-> "undo_session",
   undo_session |-> "drop_ctx"]
\* The order of the calls that undo: in make_for (ask, undo), in Drop (drop), the
\* destruction of the session in both.
AfterUndo ==
  [ask_open |-> "drop_ctx", undo_preset |-> "ask_preset", ask_preset |-> "drop_ctx",
   ask |-> "undo_session", ask_output |-> "undo_input", undo_input |-> "undo_session",
   drop_input |-> "drop_output", drop_output |-> "undo_session",
   undo_session |-> "drop_ctx"]
Undoing == DOMAIN AfterUndo

\* One driver call: nvEncGetLastErrorString, which changes nothing, or one that
\* destroys, which an empty slot leaves out.
Undo ==
  /\ pc \in Undoing
  /\ pc' = AfterUndo[pc]
  /\ input' = IF pc \in {"undo_input", "drop_input"} /\ "destroy_in" \notin missing
              THEN "destroyed" ELSE input
  /\ output' = IF pc = "drop_output" /\ "destroy_out" \notin missing
               THEN "destroyed" ELSE output
  /\ session' = IF pc \in {"undo_preset", "undo_session"} /\ "destroy" \notin missing
                THEN "destroyed" ELSE session
  /\ UNCHANGED <<stack, missing, ctx, pictureVars, queueVars, clockVars, flushed,
                 thr, result, historyVars>>

\* The context is the last to go.
DropContext ==
  /\ pc = "drop_ctx"
  /\ DropContextWith(result)
  /\ UNCHANGED <<session, input, output>>

-----------------------------------------------------------------------------
(* send_frame                                                              *)

\* After flush() every frame is refused with Eof, and a frame that is not
\* video is invalid; neither moves the counter.
SendRefused ==
  /\ pc = "idle"
  /\ result' = IF flushed THEN "closed" ELSE "err"
  /\ UNCHANGED <<stack, missing, driverVars, pictureVars, queueVars, clockVars,
                 flushed, pc, thr, historyVars>>

\* A change that would break PtsIncreasing: count only the frames that come
\* without a time stamp.
CounterOfUnstamped(given, stamp) ==
  IF given = NoPts THEN pts_counter + 1 ELSE pts_counter
\* An i64 addition, which wraps in a release build.
CounterAfter(given, stamp) == IF stamp = MaxPts THEN MinPts ELSE stamp + 1

\* The counter moves on before anything can fail.
Send(t, given) ==
  /\ pc = "idle" /\ ~flushed /\ frame < MaxFrames
  /\ frame' = frame + 1
  /\ pts' = IF given = NoPts THEN pts_counter ELSE given
  /\ pts_counter' = CounterAfter(given, pts')
  /\ backward' = (backward \/ pts = MaxPts \/ (given # NoPts /\ given <= pts))
  /\ pc' = "lock_in" /\ thr' = t /\ result' = "none"
  /\ UNCHANGED <<stack, missing, driverVars, pictureVars, queueVars, flushed,
                 historyVars>>

\* send_frame returns: Ok makes the frame an accepted one.
Return(answer) ==
  /\ pc' = "idle" /\ thr' = NoThread /\ result' = answer
  /\ accepted' = IF answer = "ok" THEN Append(accepted, frame) ELSE accepted

LockInput ==
  /\ pc = "lock_in" /\ "lock_in" \notin missing /\ input = "live"
  /\ input' = "locked" /\ pc' = "upload"
  /\ UNCHANGED <<stack, missing, ctx, session, output, pictureVars, queueVars,
                 clockVars, flushed, thr, result, historyVars>>

\* A change that would break CallReturns: ask until the driver gives in.
LockRetried(answer) == UNCHANGED <<pc, thr, result, accepted>>
LockGivenUp(answer) == Return(answer)

LockInputFails ==
  /\ pc = "lock_in"
  /\ "lock_in" \in missing \/ Fails("lock_in") \/ input = "locked"
  /\ LockGivenUp(Refusal("lock_in"))
  /\ UNCHANGED <<stack, missing, driverVars, pictureVars, queueVars, clockVars,
                 flushed, refused, buffered>>

\* A change that would break LocksPaired: `?' on the upload before the unlock.
UnlockAfterUpload(good) == IF good THEN "live" ELSE "locked"
UnlockAlways(good) == "live"

\* upload_nv12 rejects a frame with fewer than three planes; the buffer is
\* unlocked first, whatever it answered.
Upload(good) ==
  /\ pc = "upload" /\ "unlock_in" \notin missing
  /\ input' = UnlockAlways(good)
  /\ IF good THEN pc' = "encode" /\ UNCHANGED <<thr, result, accepted>>
             ELSE Return("err")
  /\ UNCHANGED <<stack, missing, ctx, session, output, pictureVars, queueVars,
                 clockVars, flushed, refused, buffered>>

UnlockInputFails ==
  /\ pc = "upload"
  /\ "unlock_in" \in missing \/ Fails("unlock_in")
  /\ refused' = refused \cup {"input"}
  /\ Return(Refusal("unlock_in"))
  /\ UNCHANGED <<stack, missing, driverVars, pictureVars, queueVars, clockVars,
                 flushed, buffered>>

Encode ==
  /\ pc = "encode" /\ "encode" \notin missing
  /\ LET all == Append(held, frame) IN
       ready' = Head(all) /\ held' = Tail(all)
  /\ pc' = "lock_out"
  /\ UNCHANGED <<stack, missing, driverVars, queueVars, clockVars, flushed, thr,
                 result, historyVars>>

\* NV_ENC_ERR_NEED_MORE_INPUT: the driver has the frame, the caller has an Ok.
NeedMoreInput ==
  /\ pc = "encode" /\ "encode" \notin missing /\ Buffering
  /\ held' = Append(held, frame) /\ buffered' = TRUE
  /\ Return("ok")
  /\ UNCHANGED <<stack, missing, driverVars, ready, queueVars, clockVars, flushed,
                 refused>>

EncodeFails ==
  /\ pc = "encode"
  /\ "encode" \in missing \/ Fails("encode")
  /\ Return(Refusal("encode"))
  /\ UNCHANGED <<stack, missing, driverVars, pictureVars, queueVars, clockVars,
                 flushed, refused, buffered>>

-----------------------------------------------------------------------------
(* drain_output                                                            *)

LockOutput ==
  /\ pc = "lock_out" /\ "lock_out" \notin missing /\ output = "live"
  /\ output' = "locked" /\ pc' = "unlock_out"
  /\ UNCHANGED <<stack, missing, ctx, session, input, pictureVars, queueVars,
                 clockVars, flushed, thr, result, historyVars>>

LockOutputFails ==
  /\ pc = "lock_out"
  /\ "lock_out" \in missing \/ Fails("lock_out") \/ output = "locked"
  /\ ready' = 0
  /\ Return(Refusal("lock_out"))
  /\ UNCHANGED <<stack, missing, driverVars, held, queueVars, clockVars, flushed,
                 refused, buffered>>

\* A change that would break ImplementsPipe: the newest packet in front.
QueuedInFront(packet) == <<packet>> \o output_queue
\* A change that would break TypeOK: read the bitstream after the unlock.
QueuedAfterUnlock(packet) == Append(output_queue, [packet EXCEPT !.frame = ready'])
Queued(packet) == Append(output_queue, packet)

\* The packet carries the time stamp of the frame that was just submitted.
UnlockOutput ==
  /\ pc = "unlock_out" /\ "unlock_out" \notin missing
  /\ output' = "live" /\ ready' = 0
  /\ output_queue' = Queued([frame |-> ready, pts |-> pts])
  /\ Return("ok")
  /\ UNCHANGED <<stack, missing, ctx, session, input, held, delivered, clockVars,
                 flushed, refused, buffered>>

\* No bytes: nothing is queued, and the answer is Ok all the same.
EmptyOutput ==
  /\ pc = "unlock_out" /\ "unlock_out" \notin missing /\ Buffering
  /\ output' = "live" /\ ready' = 0
  /\ held' = <<ready>> \o held /\ buffered' = TRUE
  /\ Return("ok")
  /\ UNCHANGED <<stack, missing, ctx, session, input, queueVars, clockVars,
                 flushed, refused>>

\* A change that would break OkMeansPacket: do not look at the unlock's answer.
UnlockErrorIgnored == "ok"
UnlockError == Refusal("unlock_out")

\* The bytes were copied, and are thrown away with the error.
UnlockOutputFails ==
  /\ pc = "unlock_out"
  /\ "unlock_out" \in missing \/ Fails("unlock_out")
  /\ refused' = refused \cup {"output"} /\ ready' = 0
  /\ Return(UnlockError)
  /\ UNCHANGED <<stack, missing, driverVars, held, queueVars, clockVars, flushed,
                 buffered>>

-----------------------------------------------------------------------------
(* receive_packet, flush, Drop                                             *)

ReceivePacket ==
  /\ pc = "idle"
  /\ IF output_queue # <<>>
       THEN /\ output_queue' = Tail(output_queue)
            /\ delivered' = Append(delivered, Head(output_queue))
            /\ result' = "packet"
       ELSE /\ result' = IF flushed THEN "eof" ELSE "need_more"
            /\ UNCHANGED queueVars
  /\ UNCHANGED <<stack, missing, driverVars, pictureVars, clockVars, flushed, pc,
                 thr, historyVars>>

\* No end-of-stream picture is sent: flush only closes the encoder.
Flush ==
  /\ pc = "idle"
  /\ flushed' = TRUE /\ result' = "ok"
  /\ UNCHANGED <<stack, missing, driverVars, pictureVars, queueVars, clockVars, pc,
                 thr, historyVars>>

\* The buffers, the session, and last the field that holds the context.
Drop(t) ==
  /\ pc = "idle"
  /\ pc' = "drop_input" /\ thr' = t /\ result' = "none"
  /\ UNCHANGED <<stack, missing, driverVars, pictureVars, queueVars, clockVars,
                 flushed, historyVars>>

-----------------------------------------------------------------------------
\* Other code pushes contexts, and pops what it pushed.
ForeignPush(t, c) ==
  /\ t # thr /\ Len(stack[t]) < MaxForeign
  /\ stack' = PushOn(stack, t, c)
  /\ UNCHANGED <<missing, driverVars, pictureVars, queueVars, clockVars, flushed,
                 pc, thr, result, historyVars>>

ForeignPop(t) ==
  /\ t # thr /\ Current(stack[t]) \in Foreign
  /\ stack' = PopFrom(stack, t)
  /\ UNCHANGED <<missing, driverVars, pictureVars, queueVars, clockVars, flushed,
                 pc, thr, result, historyVars>>

MakeStep == MakeTable \/ TableFails \/ MakeStage \/ StageMissing \/ StageFails

SendStep == \/ LockInput \/ LockInputFails
            \/ \E good \in BOOLEAN : Upload(good)
            \/ UnlockInputFails
            \/ Encode \/ NeedMoreInput \/ EncodeFails
            \/ LockOutput \/ LockOutputFails
            \/ UnlockOutput \/ EmptyOutput \/ UnlockOutputFails

Running == MakeStep \/ SendStep \/ Undo \/ DropContext

Client == \/ MakeRefused \/ SendRefused \/ ReceivePacket \/ Flush
          \/ \E t \in Threads : MakeContext(t) \/ Drop(t)
          \/ \E t \in Threads, given \in NoPts..MaxPts : Send(t, given)

Environment == \E t \in Threads : ForeignPop(t) \/ \E c \in Foreign : ForeignPush(t, c)

Next == Running \/ Client \/ Environment

\* Synchronous code runs on once it has begun.
Spec == Init /\ [][Next]_vars
FairSpec == Spec /\ WF_vars(Running)
-----------------------------------------------------------------------------
(* Properties                                                              *)

Sending == {"lock_in", "upload", "encode", "lock_out", "unlock_out"}
Buffers == {"none", "live", "locked", "destroyed"}
Packets == [frame : 1..MaxFrames, pts : MinPts..MaxPts]

TypeOK ==
  /\ stack \in [Threads -> Seq(Foreign \cup {Own})] /\ missing \subseteq Slots
  /\ ctx \in {"none", "live", "destroyed"} /\ session \in {"none", "open", "destroyed"}
  /\ input \in Buffers /\ output \in Buffers
  /\ held \in Seq(1..MaxFrames) /\ ready \in 0..MaxFrames
  /\ output_queue \in Seq(Packets) /\ delivered \in Seq(Packets)
  /\ pts_counter \in MinPts..MaxPts /\ pts \in NoPts..MaxPts
  /\ frame \in 0..MaxFrames /\ backward \in BOOLEAN /\ flushed \in BOOLEAN
  /\ pc \in {"absent", "table", "idle", "drop_ctx", "gone"} \cup Stages \cup Sending
            \cup Undoing
  /\ thr \in Threads \cup {NoThread}
  /\ result \in {"none", "ok", "err", "unsupported", "closed", "packet", "eof",
                 "need_more"}
  /\ accepted \in Seq(1..MaxFrames) /\ refused \subseteq {"input", "output"}
  /\ buffered \in BOOLEAN

\* Whichever stage of the factory fails, and in Drop, everything that was made
\* is undone, the buffers before the session and the session before the context
\* (encoder.rs: "drop after the NVENC session"), provided the function table is
\* complete. No call is made on a session that is not open, nor without its
\* context, but for the question for the last error at two stages: a session
\* that did not open is asked what the driver left in its handle, and the preset
\* stage asks the session it has just destroyed.
UsesSession ==
  (Stages \ {"open"}) \cup Sending \cup {"idle"}
  \cup (Undoing \ {"ask_open", "ask_preset"})
ResourcesUnwound ==
  missing = {} =>
    /\ ctx = "destroyed" => session # "open"
    /\ session # "open" => {input, output} \cap {"live", "locked"} = {}
    /\ pc \in UsesSession => session = "open"
    /\ pc \in UsesSession \cup Undoing => ctx = "live"
    /\ pc = "gone" => ctx # "live"

\* On every path out of send_frame a locked buffer has been unlocked, unless the
\* driver refused to: a buffer left locked would refuse all later frames.
LocksPaired ==
  pc = "idle" => /\ input = "locked" => "input" \in refused
                 /\ output = "locked" => "output" \in refused

\* With a driver that keeps nothing back, an Ok from send_frame stands for one
\* packet and an error for none: what was accepted is what is queued or
\* delivered, in that order.
FramesOf(packets) == [i \in DOMAIN packets |-> packets[i].frame]
OkMeansPacket ==
  pc = "idle" /\ ~buffered => FramesOf(delivered \o output_queue) = accepted

\* Time stamps of the packets increase, however frames with and without a time
\* stamp are mixed and whatever fails, as long as the client's own do and it
\* goes no further once the greatest time stamp is used up.
PtsIncreasing ==
  LET packets == delivered \o output_queue IN
    ~backward => \A i, j \in DOMAIN packets : i < j => packets[i].pts < packets[j].pts

\* send_frame, the packet queue, flush and receive_packet are a FIFO pipe.
Pipe == INSTANCE FramePipe WITH Pictures <- 1..MaxFrames,
                                queue <- FramesOf(output_queue),
                                delivered <- FramesOf(delivered),
                                closed <- flushed,
                                eof <- result = "eof"
ImplementsPipe == Pipe!Spec

\* Every method returns.
CallReturns ==
  pc \notin {"absent", "idle", "gone"} ~> pc \in {"idle", "gone"}

\* encoder.rs has the context "kept current on the calling thread for the whole
\* encoder lifetime".
KeptCurrent == pc \in Sending => Current(stack[thr]) = Own

\* encoder.rs says flush drains the encoder by an EOS-flagged picture: when the
\* client is told Eof, it has every frame that was accepted.
FlushDrains ==
  result = "eof" => \A i \in DOMAIN accepted :
                      \E j \in DOMAIN delivered : delivered[j].frame = accepted[i]
=============================================================================
