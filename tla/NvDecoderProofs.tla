--------------------------- MODULE NvDecoderProofs ---------------------------
(***************************************************************************)
(* Proofs about NvDecoder for every set of threads, every set of faults    *)
(* and every bound. The inductive invariant has one part per concern:      *)
(*   Control   where the running method is, and what it may have answered; *)
(*   Contexts  what is on the context stacks;                              *)
(*   Handles   which CUDA objects are alive;                               *)
(*   Config    where the codec configuration is;                           *)
(*   Faulted   which answers of 0 left an error behind;                    *)
(*   Frames    where every decoded picture is;                             *)
(*   Drained   what an end-of-stream parse left with the parser.           *)
(* Each part is proved from the ones above it.                             *)
(***************************************************************************)
EXTENDS NvDecoder, SequenceTheorems, FiniteSetTheorems, TLAPS

\* Steps between the push and the pop of a method.
Bound == InParse \cup {"bound", "parsed", "drop_decoder"}

Control ==
  /\ pc \in Steps /\ op \in Methods /\ thr \in Threads \cup {NoThread}
  /\ pushed \in BOOLEAN /\ unbound \in BOOLEAN /\ result \in Answers
  /\ thr = NoThread <=> pc \in {"absent", "idle", "gone"}
  /\ pushed => pc \in Bound \cup {"unbind"}
  /\ pc \in Bound /\ ~pushed => unbound
  /\ pc \in Bound \cup {"absent", "create_parser"} => result = "none"
  /\ pc \in {"absent", "create_parser"} => op = "make"
  /\ pc = "bound" => op # "make"
  /\ pc \in InParse \cup {"parsed"} => op \in {"send", "flush"}
  /\ pc \in {"drop_decoder", "drop_ctx"} => op = "drop"
  /\ result = "eof" => pc = "idle"

LEMMA ControlInit == Init => Control
BY DecoderAssumption DEF Init, Control, Steps, Methods, Answers, Bound, InParse

LEMMA ControlStep == Control /\ [Next]_vars => Control'
<1> SUFFICES ASSUME Control, [Next]_vars PROVE Control'
  OBVIOUS
<1> USE DecoderAssumption DEF Control, Steps, Methods, Answers, Bound, InParse
<1>1. CASE MakeRefused \/ MakeParserFails \/ MakeParser
  <2>1. CASE MakeRefused
    BY <1>1, <2>1 DEF MakeRefused, callVars, stateVars, historyVars
  <2>2. CASE MakeParserFails
    BY <2>2 DEF MakeParserFails, historyVars
  <2>3. CASE MakeParser
    BY <2>3 DEF MakeParser, historyVars
  <2>4. QED
    BY <1>1, <2>1, <2>2, <2>3
<1>2. ASSUME NEW t \in Threads, MakeContext(t) PROVE Control'
  BY <1>2 DEF MakeContext, historyVars
<1>3. ASSUME NEW t \in Threads, NEW m \in {"send", "flush", "drop"}, Call(t, m)
      PROVE  Control'
  BY <1>3 DEF Call
<1>4. CASE ReceiveFrame
  BY <1>4 DEF ReceiveFrame, callVars
<1>5. CASE Unbind
  BY <1>5 DEF Unbind, historyVars
<1>6. CASE \/ SendRefused \/ SendParse \/ FlushParse \/ SendErr \/ SendOk
           \/ FlushDone
  BY <1>6 DEF SendRefused, SendParse, FlushParse, SendErr, SendOk, FlushDone,
              Return, callVars, stateVars, historyVars
<1>7. CASE DropParser \/ DropDecoder \/ DropContext
  BY <1>7 DEF DropParser, DropDecoder, DropContext, callVars, historyVars
<1>8. CASE ParseOk \/ ParseFails \/ SeqCallback \/ DecodeCallback
  BY <1>8 DEF Parsed, ParseOk, ParseFails, FlushGoesOn, Return, SeqCallback,
              DecodeCallback, callVars, stateVars, historyVars
<1>9. ASSUME NEW p \in Pictures, DisplayDropped(p) \/ MapFails(p) \/ Map(p)
      PROVE  Control'
  BY <1>9 DEF DisplayDropped, MapFails, Map, callVars, historyVars
<1>10. CASE SyncFails \/ Copy \/ CopyFails \/ PushFrame
  BY <1>10 DEF SyncFails, Copy, CopyFails, PushFrame, GiveUp, callVars,
               stateVars, historyVars
<1>11. CASE Environment
  BY <1>11 DEF Environment, ForeignPush, ForeignPop, callVars, historyVars
<1>12. CASE UNCHANGED vars
  BY <1>12 DEF vars, stateVars, callVars, historyVars
<1>13. QED
  BY <1>1, <1>2, <1>3, <1>4, <1>5, <1>6, <1>7, <1>8, <1>9, <1>10, <1>11, <1>12
     DEF Next, Running, MakeStep, MethodStep, ParserStep, DisplayCallback,
         Client

THEOREM ControlInvariant == Spec => []Control
<1>1. QED
  BY ControlInit, ControlStep, PTL DEF Spec

-----------------------------------------------------------------------------
(* The context stacks.                                                     *)

\* Popping what was just pushed gives the sequence back, and what was just
\* pushed is current: the facts a guard's push and pop rest on.
LEMMA PopAfterPush ==
  ASSUME NEW S, NEW s \in Seq(S), NEW c \in S
  PROVE  /\ Current(Append(s, c)) = c
         /\ SubSeq(Append(s, c), 1, Len(Append(s, c)) - 1) = s
<1>1. Append(s, c) # <<>> /\ Len(Append(s, c)) = Len(s) + 1
  BY AppendProperties
<1>2. Append(s, c)[Len(s) + 1] = c
  BY AppendProperties
<1>3. SubSeq(Append(s, c), 1, Len(s)) = s
  BY HeadTailAppend, AppendProperties, LenProperties
<1>4. QED
  BY <1>1, <1>2, <1>3, LenProperties DEF Current

\* What is current on a stack of typed contexts.
LEMMA CurrentType ==
  ASSUME NEW S, NEW s \in Seq(S)
  PROVE  Current(s) \in S \cup {NoContext}
BY ElementOfSeq, LenProperties, EmptySeq DEF Current

LEMMA PopType ==
  ASSUME NEW S, NEW s \in Seq(S)
  PROVE  SubSeq(s, 1, Len(s) - 1) \in Seq(S)
BY SubSeqProperties, LenProperties, EmptySeq

Contexts ==
  /\ foreign \in [Threads -> Seq(Foreign)]
  /\ stack \in [Threads -> Seq(Foreign \cup {Own})]
  /\ StackNeutral

LEMMA ContextsInit == Init => Contexts
<1> SUFFICES ASSUME Init PROVE Contexts
  OBVIOUS
<1>1. {<<>>} \cup {<<c>> : c \in Foreign} \subseteq Seq(Foreign)
  <2>1. \A c \in Foreign : <<c>> \in Seq(Foreign)
    OBVIOUS
  <2>2. QED
    BY <2>1, EmptySeq
<1>2. foreign \in [Threads -> Seq(Foreign)]
  <2>1. foreign \in [Threads -> {<<>>} \cup {<<c>> : c \in Foreign}]
    BY DEF Init
  <2>2. QED
    BY <1>1, <2>1
<1>3. foreign \in [Threads -> Seq(Foreign \cup {Own})]
  BY <1>2, SeqMonotonic
<1>4. QED
  BY <1>2, <1>3, DecoderAssumption DEF Init, Contexts, StackNeutral, Holding

LEMMA ContextsStep == Control /\ Contexts /\ [Next]_vars => Contexts'
<1> SUFFICES ASSUME Control, Contexts, [Next]_vars PROVE Contexts'
  OBVIOUS
<1> USE DecoderAssumption
<1> DEFINE Kept == UNCHANGED <<stack, foreign, thr>> /\ Holding' = Holding
<1>1. ASSUME Kept PROVE Contexts'
  BY <1>1 DEF Contexts, StackNeutral
<1>2. \A t \in Threads : foreign[t] \in Seq(Foreign \cup {Own})
  BY SeqMonotonic DEF Contexts
<1>3. ASSUME NEW t \in Threads
      PROVE  /\ Current(Append(foreign[t], Own)) = Own
             /\ SubSeq(Append(foreign[t], Own), 1,
                       Len(Append(foreign[t], Own)) - 1) = foreign[t]
             /\ Append(foreign[t], Own) \in Seq(Foreign \cup {Own})
             /\ Current(foreign[t]) # Own
  <2>1. Own \in Foreign \cup {Own}
    OBVIOUS
  <2>2. foreign[t] \in Seq(Foreign)
    BY DEF Contexts
  <2>3. Current(foreign[t]) \in Foreign \cup {NoContext}
    BY <2>2, CurrentType
  <2>4. QED
    BY <1>2, <2>1, <2>3, PopAfterPush, AppendProperties
<1>4. ASSUME NEW t \in Threads, MakeContext(t) PROVE Contexts'
  BY <1>3, <1>4 DEF MakeContext, Contexts, StackNeutral, Holding, Control,
                    PushOn
<1>5. CASE MakeParserFails
  BY <1>3, <1>5, <1>2 DEF MakeParserFails, Contexts, StackNeutral, Holding,
                          Control, DestroyOn, PopFrom, Bound, InParse
<1>6. ASSUME NEW t \in Threads, NEW m \in {"send", "flush", "drop"}, Call(t, m)
      PROVE  Contexts'
  <2>1. /\ thr = NoThread /\ ~Holding /\ stack[t] = foreign[t]
        /\ foreign' = foreign /\ thr' = t /\ pc' = "bound"
    BY <1>6 DEF Call, Contexts, StackNeutral, Holding, Control, Bound, InParse
  <2>2. CASE pushed' = TRUE /\ stack' = GuardPush(t)
    BY <1>3, <2>1, <2>2 DEF Contexts, StackNeutral, Holding, GuardPush, PushOn
  <2>3. CASE pushed' = FALSE /\ stack' = stack
    BY <2>1, <2>3 DEF Contexts, StackNeutral, Holding
  <2>4. QED
    BY <1>6, <2>2, <2>3 DEF Call
<1>7. CASE Unbind
  BY <1>3, <1>7, <1>2 DEF Unbind, Contexts, StackNeutral, Holding, Control,
                          GuardPop, PopFrom
<1>8. CASE DropContext
  BY <1>3, <1>8 DEF DropContext, Contexts, StackNeutral, Holding, Control,
                    DestroyOn, Bound, InParse
<1>9. ASSUME NEW t \in Threads, NEW c \in Foreign, ForeignPush(t, c)
      PROVE  Contexts'
  <2>1. Append(foreign[t], c) \in Seq(Foreign)
    BY AppendProperties DEF Contexts
  <2>2. Append(foreign[t], c) \in Seq(Foreign \cup {Own})
    BY <2>1, SeqMonotonic
  <2>3. QED
    BY <1>9, <2>1, <2>2 DEF ForeignPush, Contexts, StackNeutral, Holding,
                            PushOn, callVars
<1>10. ASSUME NEW t \in Threads, ForeignPop(t) PROVE Contexts'
  <2>1. SubSeq(foreign[t], 1, Len(foreign[t]) - 1) \in Seq(Foreign)
    BY PopType DEF Contexts
  <2>2. SubSeq(foreign[t], 1, Len(foreign[t]) - 1) \in Seq(Foreign \cup {Own})
    BY <2>1, SeqMonotonic
  <2>3. QED
    BY <1>10, <2>1, <2>2 DEF ForeignPop, Contexts, StackNeutral, Holding,
                             PopFrom, callVars
<1>11. CASE MakeRefused \/ MakeParser
  <2>1. Kept
    BY <1>11 DEF MakeRefused, MakeParser, Holding, stateVars, contextVars,
                 callVars
  <2>2. QED
    BY <1>1, <2>1
<1>12. CASE \/ SendRefused \/ SendParse \/ FlushParse \/ SendErr \/ SendOk
            \/ FlushDone \/ DropParser \/ DropDecoder \/ ReceiveFrame
  <2>1. Kept
    BY <1>12 DEF SendRefused, SendParse, FlushParse, SendErr, SendOk, FlushDone,
                 DropParser, DropDecoder, ReceiveFrame, Return, Holding,
                 stateVars, contextVars, callVars
  <2>2. QED
    BY <1>1, <2>1
<1>13. CASE ParserStep
  <2>1. Kept
    BY <1>13 DEF ParserStep, DisplayCallback, Parsed, ParseOk, ParseFails, FlushGoesOn,
                 Return, SeqCallback, DecodeCallback, DisplayDropped, MapFails,
                 Map, SyncFails, Copy, CopyFails, PushFrame, GiveUp, Holding,
                 stateVars, contextVars, callVars
  <2>2. QED
    BY <1>1, <2>1
<1>14. CASE UNCHANGED vars
  BY <1>1, <1>14 DEF vars, stateVars, contextVars, callVars, Holding
<1>15. QED
  BY <1>4, <1>5, <1>6, <1>7, <1>8, <1>9, <1>10, <1>11, <1>12, <1>13, <1>14
     DEF Next, Running, MakeStep, MethodStep, Client, Environment

\* ContextGuard and pop_creation leave every thread's context stack as they
\* found it, whatever fails in between, for any number of threads and contexts.
THEOREM StackIsNeutral == Spec => []StackNeutral
<1>1. Contexts => StackNeutral
  BY DEF Contexts
<1>2. QED
  BY <1>1, ControlInvariant, ContextsInit, ContextsStep, PTL DEF Spec

\* A driver call made for this decoder finds the decoder's context current on
\* the calling thread once the push has succeeded.
THEOREM DriverCallsBound == Spec => []CallbacksHaveContext
<1>1. Control /\ Contexts => CallbacksHaveContext
  <2> SUFFICES ASSUME Control, Contexts, pc \in InDriver, Holding
               PROVE  Current(stack[thr]) = Own
    BY DEF CallbacksHaveContext
  <2>1. thr \in Threads
    BY DEF Control, InDriver, InParse
  <2>2. foreign[thr] \in Seq(Foreign \cup {Own})
    BY <2>1, SeqMonotonic DEF Contexts
  <2>3. stack[thr] = Append(foreign[thr], Own)
    BY <2>1 DEF Contexts, StackNeutral
  <2>4. QED
    BY <2>2, <2>3, PopAfterPush
<1>2. QED
  BY <1>1, ControlInvariant, ContextsInit, ContextsStep, PTL DEF Spec

-----------------------------------------------------------------------------
(* The CUDA objects.                                                       *)

Handles ==
  /\ ctx \in {"none", "live", "destroyed"}
  /\ parser \in {"none", "live", "destroyed"}
  /\ decoder \in Nat /\ formats \in Nat /\ decoder <= formats
  /\ home \in Foreign \cup {Own, NoContext}
  /\ sessions = {decoder} \ {0}
  /\ mapped = IF pc \in Mapped THEN {decoder} ELSE {}
  /\ pc \in Mapped => decoder # 0
  /\ SessionInOwnContext
  /\ pc = "absent" => ctx = "none" /\ parser = "none" /\ decoder = 0
  /\ pc = "create_parser" => ctx = "live" /\ parser = "none" /\ decoder = 0
  /\ pc \in InParse \cup {"idle", "bound", "parsed"}
       => ctx = "live" /\ parser = "live"
  /\ pc = "unbind" /\ op # "drop" => ctx = "live" /\ parser = "live"
  /\ pc = "drop_decoder" => ctx = "live" /\ parser = "destroyed"
  /\ pc = "drop_ctx" \/ (pc = "unbind" /\ op = "drop")
       => ctx = "live" /\ parser = "destroyed" /\ decoder = 0
  /\ pc = "gone" => ctx # "live" /\ parser # "live" /\ decoder = 0

LEMMA HandlesInit == Init => Handles
BY DEF Init, Handles, SessionInOwnContext, Mapped, InParse

LEMMA HandlesStep ==
  Control /\ Contexts /\ CallbacksHaveContext /\ Handles /\ [Next]_vars => Handles'
<1> SUFFICES ASSUME Control, Contexts, CallbacksHaveContext, Handles, [Next]_vars
             PROVE  Handles'
  OBVIOUS
<1> USE DEF Handles, SessionInOwnContext, Mapped, InParse
<1>1. CASE SeqCallback
  <2>1. thr \in Threads
    BY <1>1 DEF Control, SeqCallback
  <2>2. Current(stack[thr]) \in Foreign \cup {Own, NoContext}
    BY <2>1, CurrentType DEF Contexts
  <2>3. ~unbound => Current(stack[thr]) = Own
    BY <1>1 DEF Control, SeqCallback, CallbacksHaveContext, Holding, InDriver,
                Bound
  <2>4. QED
    BY <1>1, <2>2, <2>3 DEF SeqCallback, OtherSessions, callVars, historyVars
<1>2. CASE MakeRefused \/ MakeParserFails \/ MakeParser
  <2>1. CASE MakeRefused
    BY <2>1 DEF MakeRefused, stateVars, callVars, driverVars, parserVars,
                sharedVars, historyVars
  <2>2. CASE MakeParserFails
    BY <2>2 DEF MakeParserFails, parserVars, sharedVars, historyVars
  <2>3. CASE MakeParser
    BY <2>3 DEF MakeParser, Control, parserVars, sharedVars, historyVars
  <2>4. QED
    BY <1>2, <2>1, <2>2, <2>3
<1>3. ASSUME NEW t \in Threads, MakeContext(t) PROVE Handles'
  BY <1>3 DEF MakeContext, Control, parserVars, sharedVars, historyVars
<1>4. ASSUME NEW t \in Threads, NEW m \in {"send", "flush", "drop"}, Call(t, m)
      PROVE  Handles'
  BY <1>4 DEF Call, Control, driverVars, parserVars, sharedVars
<1>5. CASE ReceiveFrame
  BY <1>5 DEF ReceiveFrame, driverVars, parserVars, callVars
<1>6. CASE \/ SendRefused \/ SendParse \/ FlushParse \/ SendErr \/ SendOk
           \/ FlushDone
  BY <1>6 DEF SendRefused, SendParse, FlushParse, SendErr, SendOk, FlushDone,
              Return, PullFrames, stateVars, driverVars, parserVars, sharedVars,
              callVars, historyVars
<1>7. CASE DropParser
  BY <1>7 DEF DropParser, driverVars, parserVars, sharedVars, callVars,
              historyVars
<1>8. CASE DropDecoder
  BY <1>8 DEF DropDecoder, Control, driverVars, parserVars, callVars, historyVars
<1>9. CASE DropContext
  BY <1>9 DEF DropContext, parserVars, sharedVars, historyVars
<1>10. CASE Unbind
  BY <1>10 DEF Unbind, driverVars, parserVars, sharedVars, historyVars
<1>11. CASE ParseOk \/ ParseFails \/ DecodeCallback
  BY <1>11 DEF Parsed, ParseOk, ParseFails, DecodeCallback, FlushGoesOn, Return,
               Control, stateVars, driverVars, parserVars, sharedVars, callVars,
               historyVars
<1>12. ASSUME NEW p \in Pictures, DisplayDropped(p) \/ MapFails(p) \/ Map(p)
       PROVE  Handles'
  BY <1>12 DEF DisplayDropped, MapFails, Map, driverVars, sharedVars, callVars,
               historyVars
<1>13. CASE SyncFails \/ CopyFails
  BY <1>13 DEF SyncFails, CopyFails, GiveUp, Unmap, historyVars
<1>14. CASE Copy
  BY <1>14 DEF Copy, stateVars, driverVars, parserVars, sharedVars, callVars,
               historyVars
<1>15. CASE PushFrame
  BY <1>15 DEF PushFrame, Unmap, parserVars, historyVars
<1>16. CASE Environment \/ UNCHANGED vars
  BY <1>16 DEF Environment, ForeignPush, ForeignPop, vars, stateVars,
               driverVars, parserVars, sharedVars, callVars, historyVars
<1>17. QED
  BY <1>1, <1>2, <1>3, <1>4, <1>5, <1>6, <1>7, <1>8, <1>9, <1>10, <1>11, <1>12,
     <1>13, <1>14, <1>15, <1>16
     DEF Next, Running, MakeStep, MethodStep, ParserStep, DisplayCallback,
         Client

LEMMA HandlesInvariant == Spec => []Handles
<1>1. Spec => []Contexts
  BY ControlInvariant, ContextsInit, ContextsStep, PTL DEF Spec
<1>2. QED
  BY <1>1, ControlInvariant, DriverCallsBound, HandlesInit, HandlesStep, PTL
     DEF Spec

\* The CUvideodecoder lives in the decoder's own context unless a push failed.
THEOREM SessionsAtHome == Spec => []SessionInOwnContext
<1>1. Handles => SessionInOwnContext
  BY DEF Handles
<1>2. QED
  BY <1>1, HandlesInvariant, PTL

\* No CUvideodecoder leaks, none is used after it was destroyed, and parser and
\* CUvideodecoder go before the context, whatever the driver refuses.
THEOREM HandlesAreSound == Spec => []HandlesSound
<1>1. Control /\ Handles => HandlesSound
  BY DEF Control, Handles, HandlesSound, Steps, InParse
<1>2. QED
  BY <1>1, ControlInvariant, HandlesInvariant, PTL

\* Every path out of display_callback has released the surface it mapped.
THEOREM SurfacesAreReleased == Spec => []SurfaceReleased
<1>1. Handles => SurfaceReleased
  BY DEF Handles, SurfaceReleased, Mapped
<1>2. QED
  BY <1>1, HandlesInvariant, PTL

-----------------------------------------------------------------------------
(* The codec configuration.                                                *)

Config ==
  /\ prologue \in {"empty", "held", "taken"}
  /\ sent \in Nat
  /\ configs = IF prologue = "taken" THEN 1 ELSE 0
  /\ prologue = "held" => sent = 0

LEMMA ConfigInit == Init => Config
BY DEF Init, Config

LEMMA ConfigStep == Config /\ [Next]_vars => Config'
<1> SUFFICES ASSUME Config, [Next]_vars PROVE Config'
  OBVIOUS
<1>1. CASE SendParse
  BY <1>1 DEF SendParse, PrologueTaken, Config
<1>2. ASSUME UNCHANGED <<prologue, sent, configs>> PROVE Config'
  BY <1>2 DEF Config
<1>3. CASE MakeStep \/ Client
  <2>1. UNCHANGED <<prologue, sent, configs>>
    BY <1>3 DEF MakeStep, MakeParserFails, MakeParser, Client, MakeRefused,
                MakeContext, Call, ReceiveFrame, stateVars, structVars,
                historyVars
  <2>2. QED
    BY <1>2, <2>1
<1>4. CASE MethodStep /\ ~SendParse
  <2>1. UNCHANGED <<prologue, sent, configs>>
    BY <1>4 DEF MethodStep, SendRefused, FlushParse, SendErr, SendOk, FlushDone,
                DropParser, DropDecoder, DropContext, Unbind, stateVars,
                structVars, historyVars
  <2>2. QED
    BY <1>2, <2>1
<1>5. CASE ParserStep \/ Environment \/ UNCHANGED vars
  <2>1. UNCHANGED <<prologue, sent, configs>>
    BY <1>5 DEF ParserStep, DisplayCallback, Parsed, ParseOk, ParseFails, SeqCallback,
                DecodeCallback, DisplayDropped, MapFails, Map, SyncFails, Copy,
                CopyFails, PushFrame, GiveUp, Environment, ForeignPush,
                ForeignPop, vars, stateVars, structVars, historyVars
  <2>2. QED
    BY <1>2, <2>1
<1>6. QED
  BY <1>1, <1>3, <1>4, <1>5 DEF Next, Running

\* The codec configuration reaches the parser once, with the first packet.
THEOREM ConfigurationFirst == Spec => []ConfigFirst
<1>1. Config => ConfigFirst
  BY DEF Config, ConfigFirst
<1>2. QED
  BY <1>1, ConfigInit, ConfigStep, PTL DEF Spec

-----------------------------------------------------------------------------
(* Errors.                                                                 *)

Dropped == \/ pc \in {"drop_ctx", "gone"}
           \/ pc = "unbind" /\ op = "drop"

Faulted ==
  /\ error \in Errors /\ rejected \in BOOLEAN /\ formats \in Nat
  /\ pending # {} => formats # 0
  /\ rejected = FALSE \/ error # NoError
  /\ formats # 0 /\ decoder = 0 /\ ~Dropped => error # NoError
  /\ op = "send" /\ result = "ok" => rejected = FALSE /\ error = NoError

LEMMA FaultedInit == Init => Faulted
<1> SUFFICES ASSUME Init PROVE Faulted
  OBVIOUS
<1>1. error \in Errors /\ formats \in Nat
  BY DEF Init, Errors, NoError
<1>2. rejected \in BOOLEAN /\ rejected = FALSE
  BY DEF Init
<1>3. pending = {} /\ formats = 0 /\ result = "none"
  BY DEF Init
<1>4. QED
  BY <1>1, <1>2, <1>3 DEF Faulted

LEMMA FaultedStep == Control /\ Handles /\ Faulted /\ [Next]_vars => Faulted'
<1> SUFFICES ASSUME Control, Handles, Faulted, [Next]_vars PROVE Faulted'
  OBVIOUS
<1> USE DEF Faulted, Errors, NoError, Dropped
<1>1. CASE SeqCallback
  <2>1. error' \in Errors /\ formats' \in Nat
    BY <1>1 DEF SeqCallback, Fail
  <2>2. rejected' \in BOOLEAN /\ (rejected' = FALSE \/ error' # NoError)
    BY <1>1 DEF SeqCallback, Fail
  <2>3. pending' # {} => formats' # 0
    BY <1>1 DEF SeqCallback
  <2>4. formats' # 0 /\ decoder' = 0 => error' # NoError
    BY <1>1 DEF SeqCallback, Fail, Control, InParse
  <2>5. result' = "none"
    BY <1>1 DEF SeqCallback, Control, InParse, Bound
  <2>6. QED
    BY <2>1, <2>2, <2>3, <2>4, <2>5
<1>2. CASE DecodeCallback
  <2>1. error' \in Errors /\ formats' \in Nat
    BY <1>2 DEF DecodeCallback, Fail
  <2>2. rejected' \in BOOLEAN /\ (rejected' = FALSE \/ error' # NoError)
    BY <1>2 DEF DecodeCallback, Fail
  <2>3. pending' # {} => formats' # 0
    BY <1>2 DEF DecodeCallback
  <2>4. formats' # 0 /\ decoder' = 0 => error' # NoError
    BY <1>2 DEF DecodeCallback, Fail, Control, InParse
  <2>5. result' = "none"
    BY <1>2 DEF DecodeCallback, Control, InParse, Bound
  <2>6. QED
    BY <2>1, <2>2, <2>3, <2>4, <2>5
<1>3. ASSUME NEW p \in Pictures, DisplayDropped(p) PROVE Faulted'
  BY <1>3 DEF DisplayDropped, Control, InParse, Bound, sharedVars, callVars
<1>4. ASSUME NEW p \in Pictures, MapFails(p) \/ Map(p) PROVE Faulted'
  BY <1>4 DEF MapFails, Map, Fail, Control, InParse, Bound, sharedVars, callVars
<1>5. CASE SyncFails \/ CopyFails
  BY <1>5 DEF SyncFails, CopyFails, Fail, GiveUp, Control, InParse, Bound
<1>6. CASE Copy \/ PushFrame
  BY <1>6 DEF Copy, PushFrame, stateVars, parserVars, sharedVars, callVars
<1>7. CASE ParseOk
  BY <1>7 DEF Parsed, ParseOk, stateVars, parserVars, sharedVars, callVars
<1>8. CASE ParseFails
  BY <1>8 DEF Parsed, ParseFails, Return, FlushGoesOn, Control, stateVars, parserVars,
              sharedVars, callVars
<1>9. CASE SendRefused \/ SendErr
  BY <1>9 DEF SendRefused, SendErr, Return, stateVars, parserVars, sharedVars,
              callVars
<1>10. CASE SendParse \/ FlushParse
  BY <1>10 DEF SendParse, FlushParse, sharedVars, callVars
<1>11. CASE SendOk
  BY <1>11 DEF SendOk, Return, NoCallbackError, parserVars, callVars
<1>12. CASE FlushDone
  BY <1>12 DEF FlushDone, Return, parserVars, callVars
<1>13. CASE ReceiveFrame
  BY <1>13 DEF ReceiveFrame, parserVars, callVars
<1>14. CASE DropParser \/ DropDecoder \/ DropContext
  BY <1>14 DEF DropParser, DropDecoder, DropContext, Control, parserVars,
               sharedVars, callVars
<1>15. CASE Unbind
  BY <1>15 DEF Unbind, parserVars, sharedVars
<1>16. ASSUME NEW t \in Threads, NEW m \in {"send", "flush", "drop"}, Call(t, m)
       PROVE  Faulted'
  BY <1>16 DEF Call, parserVars, sharedVars
<1>17. CASE MakeRefused
  BY <1>17 DEF MakeRefused, stateVars, parserVars, sharedVars, callVars
<1>18. CASE MakeParserFails \/ MakeParser
  BY <1>18 DEF MakeParserFails, MakeParser, Control, parserVars, sharedVars
<1>19. ASSUME NEW t \in Threads, MakeContext(t) PROVE Faulted'
  BY <1>19 DEF MakeContext, parserVars, sharedVars
<1>20. CASE Environment \/ UNCHANGED vars
  BY <1>20 DEF Environment, ForeignPush, ForeignPop, vars, stateVars, parserVars,
               sharedVars, callVars
<1>21. QED
  BY <1>1, <1>2, <1>3, <1>4, <1>5, <1>6, <1>7, <1>8, <1>9, <1>10, <1>11, <1>12,
     <1>13, <1>14, <1>15, <1>16, <1>17, <1>18, <1>19, <1>20
     DEF Next, Running, MakeStep, MethodStep, ParserStep, DisplayCallback,
         Client

LEMMA FaultedInvariant == Spec => []Faulted
<1>1. QED
  BY ControlInvariant, HandlesInvariant, FaultedInit, FaultedStep, PTL DEF Spec

\* An Ok from send_packet means that no callback of that parse answered 0.
THEOREM OkIsClean == Spec => []OkMeansClean
<1>1. Faulted => OkMeansClean
  BY DEF Faulted, OkMeansClean
<1>2. QED
  BY <1>1, FaultedInvariant, PTL

-----------------------------------------------------------------------------
(* The pictures.                                                           *)

LEMMA RangeOfAppend ==
  ASSUME NEW S, NEW s \in Seq(S), NEW e \in S
  PROVE  Range(Append(s, e)) = Range(s) \cup {e}
BY AppendProperties, LenProperties DEF Range

LEMMA RangeOfHeadTail ==
  ASSUME NEW S, NEW s \in Seq(S), s # <<>>
  PROVE  Range(s) = {Head(s)} \cup Range(Tail(s))
<1> DEFINE t == Tail(s)
<1>1. /\ t \in Seq(S) /\ Len(t) = Len(s) - 1
      /\ \A i \in 1..Len(t) : t[i] = s[i + 1]
  BY HeadTailProperties
<1>2. Len(s) \in Nat /\ Len(s) # 0 /\ DOMAIN s = 1..Len(s)
  BY LenProperties, EmptySeq
<1>3. DOMAIN t = 1..Len(t) /\ Len(t) \in Nat
  BY <1>1, LenProperties
<1>4. Head(s) = s[1]
  BY <1>2
<1>5. ASSUME NEW e \in Range(s) PROVE e \in {Head(s)} \cup Range(t)
  <2>1. PICK i \in 1..Len(s) : e = s[i]
    BY <1>2, <1>5 DEF Range
  <2>2. CASE i = 1
    BY <1>4, <2>1, <2>2
  <2>3. CASE i # 1
    <3>1. i - 1 \in 1..Len(t) /\ t[i - 1] = s[i]
      BY <1>1, <1>2, <2>1, <2>3
    <3>2. QED
      BY <1>3, <2>1, <3>1 DEF Range
  <2>4. QED
    BY <2>2, <2>3
<1>6. ASSUME NEW e \in Range(t) PROVE e \in Range(s)
  <2>1. PICK i \in 1..Len(t) : e = t[i]
    BY <1>3, <1>6 DEF Range
  <2>2. i + 1 \in 1..Len(s) /\ t[i] = s[i + 1]
    BY <1>1, <1>2, <2>1
  <2>3. QED
    BY <1>2, <2>1, <2>2 DEF Range
<1>7. Head(s) \in Range(s)
  BY <1>2, <1>4 DEF Range
<1>8. QED
  BY <1>5, <1>6, <1>7

\* The pictures that have left the display callback.
Out == Range(delivered) \cup Range(output_queue) \cup Range(frames)

Frames ==
  /\ picture \in 0..MaxPictures
  /\ frames \in Seq(Pictures) /\ output_queue \in Seq(Pictures)
  /\ delivered \in Seq(Pictures) /\ flushed \in BOOLEAN
  /\ shown \in Pictures \cup {0}
  /\ shown # 0 <=> pc \in Mapped
  /\ pending \cup Out \cup decoded \subseteq 1..picture
  /\ shown \in 0..picture
  /\ pending \cap (Out \cup {shown}) = {} /\ shown \notin Out
  /\ error = NoError => decoded \subseteq pending \cup Out \cup {shown}
  /\ EofMeansDrained

LEMMA FramesInit == Init => Frames
<1> SUFFICES ASSUME Init PROVE Frames
  OBVIOUS
<1>1. Out = {}
  BY EmptySeq DEF Init, Out, Range
<1>2. <<>> \in Seq(Pictures)
  OBVIOUS
<1>3. QED
  <2>1. /\ picture = 0 /\ shown = 0 /\ pending = {} /\ decoded = {}
        /\ pc = "absent" /\ result = "none"
    BY DEF Init
  <2>2. frames = <<>> /\ output_queue = <<>> /\ delivered = <<>>
    BY DEF Init
  <2>3. EofMeansDrained
    BY <2>1 DEF EofMeansDrained
  <2>4. 0 \in 0..MaxPictures
    BY DecoderAssumption
  <2>5. flushed \in BOOLEAN
    BY DEF Init
  <2>6. QED
    BY <1>1, <1>2, <2>1, <2>2, <2>3, <2>4, <2>5 DEF Frames, Mapped

\* Moving frames from the callbacks' queue to the output queue loses none.
LEMMA PullFramesKeeps ==
  ASSUME Frames, PullFrames, UNCHANGED delivered
  PROVE  /\ Out' = Out
         /\ output_queue' \in Seq(Pictures) /\ frames' \in Seq(Pictures)
<1>1. Range(output_queue \o frames) = Range(output_queue) \cup Range(frames)
  BY RangeConcatenation DEF Frames
<1>2. Range(<<>>) = {}
  BY DEF Range
<1>3. output_queue \o frames \in Seq(Pictures)
  BY ConcatProperties DEF Frames
<1>4. QED
  BY <1>1, <1>2, <1>3 DEF PullFrames, Out

LEMMA ReceiveFrameKeeps ==
  ASSUME Frames, ReceiveFrame
  PROVE  /\ Out' = Out
         /\ output_queue' \in Seq(Pictures) /\ frames' \in Seq(Pictures)
         /\ delivered' \in Seq(Pictures)
         /\ EofMeansDrained'
<1> DEFINE queue == output_queue \o frames
<1>1. Range(queue) = Range(output_queue) \cup Range(frames)
  BY RangeConcatenation DEF Frames
<1>2. Range(<<>>) = {}
  BY DEF Range
<1>3. queue \in Seq(Pictures)
  BY ConcatProperties DEF Frames
<1>4. frames' = <<>>
  BY DEF ReceiveFrame
<1>5. CASE queue # <<>>
  <2>1. /\ output_queue' = Tail(queue)
        /\ delivered' = Append(delivered, Head(queue))
        /\ result' = "frame"
    BY <1>5 DEF ReceiveFrame, HasFrame
  <2>2. Head(queue) \in Pictures /\ Tail(queue) \in Seq(Pictures)
    BY <1>3, <1>5, HeadTailProperties
  <2>3. Range(delivered') = Range(delivered) \cup {Head(queue)}
    BY <2>1, <2>2, RangeOfAppend DEF Frames
  <2>4. Range(queue) = {Head(queue)} \cup Range(Tail(queue))
    BY <1>3, <1>5, RangeOfHeadTail
  <2>5. Append(delivered, Head(queue)) \in Seq(Pictures)
    BY <2>2, AppendProperties DEF Frames
  <2>6. QED
    <3>1. Out' = Range(delivered) \cup {Head(queue)} \cup Range(Tail(queue))
      BY <1>2, <1>4, <2>1, <2>3 DEF Out
    <3>2. Out = Range(delivered) \cup Range(queue)
      BY <1>1 DEF Out
    <3>3. EofMeansDrained'
      BY <2>1 DEF EofMeansDrained
    <3>4. QED
      BY <1>4, <2>1, <2>2, <2>4, <2>5, <3>1, <3>2, <3>3
<1>6. CASE queue = <<>>
  <2>1. output_queue' = queue /\ delivered' = delivered
    BY <1>6 DEF ReceiveFrame, HasFrame
  <2>2. result' = "eof" => flushed'
    BY <1>6 DEF ReceiveFrame, HasFrame
  <2>3. QED
    BY <1>1, <1>2, <1>3, <1>4, <1>6, <2>1, <2>2 DEF Out, EofMeansDrained, Frames
<1>7. QED
  BY <1>5, <1>6

LEMMA FramesKept ==
  ASSUME Frames,
         UNCHANGED <<picture, pending, shown, decoded, frames, output_queue,
                     delivered, error>>,
         flushed' \in BOOLEAN,
         pc' \in Mapped <=> pc \in Mapped,
         \/ result' # "eof"
         \/ result' = result /\ flushed' = flushed
  PROVE  Frames'
BY DEF Frames, Out, EofMeansDrained

LEMMA FramesStep ==
  Control /\ Handles /\ Faulted /\ Frames /\ [Next]_vars => Frames'
<1> SUFFICES ASSUME Control, Handles, Faulted, Frames, [Next]_vars PROVE Frames'
  OBVIOUS
<1> DEFINE Rest == <<frames, output_queue, delivered, flushed>>
<1>1. ASSUME UNCHANGED Rest, result' # "eof"
      PROVE  /\ Out' = Out /\ EofMeansDrained'
             /\ frames' \in Seq(Pictures) /\ output_queue' \in Seq(Pictures)
             /\ delivered' \in Seq(Pictures) /\ flushed' \in BOOLEAN
  BY <1>1 DEF Out, EofMeansDrained, Frames
<1>2. pc \in InParse \cup {"parsed"} => result = "none"
  BY DEF Control, Bound
<1>3. CASE SeqCallback
  <2>1. UNCHANGED <<picture, shown, pending, decoded, pc, result>> /\ UNCHANGED Rest
    BY <1>3 DEF SeqCallback, structVars, callVars, historyVars
  <2>2. error' = NoError => error = NoError
    BY <1>3 DEF SeqCallback, Fail, NoError
  <2>3. result' # "eof"
    BY <1>2, <1>3, <2>1 DEF SeqCallback, InParse
  <2>4. QED
    BY <1>1, <2>1, <2>2, <2>3 DEF Frames
<1>4. CASE DecodeCallback
  <2>1. UNCHANGED <<shown, pc, result>> /\ UNCHANGED Rest
    BY <1>4 DEF DecodeCallback, structVars, callVars
  <2>2. picture' = picture + 1 /\ picture' \in 0..MaxPictures
    BY <1>4, DecoderAssumption DEF DecodeCallback, Frames
  <2>3. result' # "eof"
    BY <1>2, <1>4, <2>1 DEF DecodeCallback, InParse
  <2>4. /\ pending' \subseteq pending \cup {picture'}
        /\ decoded' \subseteq decoded \cup {picture'}
        /\ error' = NoError =>
             /\ error = NoError
             /\ decoded' = decoded \cup {picture'}
             /\ pending' = pending \cup {picture'}
    BY <1>4 DEF DecodeCallback, Fail, NoError
  <2>5. 1..picture' = 1..picture \cup {picture'} /\ picture' \notin 1..picture
        /\ 0..picture \subseteq 0..picture'
    BY <2>2 DEF Frames
  <2>6. picture' \notin Out /\ shown # picture'
    BY <2>2, <2>5 DEF Frames
  <2>7. QED
    BY <1>1, <2>1, <2>2, <2>3, <2>4, <2>5, <2>6 DEF Frames
<1>5. ASSUME NEW p \in Pictures, DisplayDropped(p) PROVE Frames'
  <2>1. UNCHANGED <<picture, shown, decoded, pc, result, error>> /\ UNCHANGED Rest
    BY <1>5 DEF DisplayDropped, sharedVars, structVars, callVars, historyVars
  <2>2. error # NoError
    BY <1>5 DEF DisplayDropped, Faulted, Dropped
  <2>3. pending' \subseteq pending
    BY <1>5 DEF DisplayDropped
  <2>4. result' # "eof"
    BY <1>2, <1>5, <2>1 DEF DisplayDropped, InParse
  <2>5. QED
    BY <1>1, <2>1, <2>2, <2>3, <2>4 DEF Frames
<1>6. ASSUME NEW p \in Pictures, MapFails(p) PROVE Frames'
  <2>1. UNCHANGED <<picture, shown, decoded, pc, result>> /\ UNCHANGED Rest
    BY <1>6 DEF MapFails, structVars, callVars, historyVars
  <2>2. error' # NoError /\ pending' \subseteq pending
    BY <1>6 DEF MapFails, Fail, NoError
  <2>3. result' # "eof"
    BY <1>2, <1>6, <2>1 DEF MapFails, InParse
  <2>4. QED
    BY <1>1, <2>1, <2>2, <2>3 DEF Frames
<1>7. ASSUME NEW p \in Pictures, Map(p) PROVE Frames'
  <2>1. UNCHANGED <<picture, decoded, result, error>> /\ UNCHANGED Rest
    BY <1>7 DEF Map, sharedVars, structVars, historyVars
  <2>2. /\ pending' = pending \ {p} /\ p \in pending
        /\ shown' = p /\ pc' = "mapped" /\ shown = 0
    BY <1>7 DEF Map, Frames, Mapped
  <2>3. result' # "eof"
    BY <1>2, <1>7, <2>1 DEF Map, InParse
  <2>4. p # 0 /\ p \in 0..picture /\ p \notin Out
    BY <2>2 DEF Frames
  <2>5. 0 \notin decoded
    BY DEF Frames
  <2>6. QED
    BY <1>1, <2>1, <2>2, <2>3, <2>4, <2>5 DEF Frames, Mapped
<1>8. CASE SyncFails \/ CopyFails
  <2>1. UNCHANGED <<picture, pending, decoded, result>> /\ UNCHANGED Rest
    BY <1>8 DEF SyncFails, CopyFails, GiveUp, structVars, historyVars
  <2>2. error' # NoError /\ shown' = 0 /\ pc' = "parse"
    BY <1>8 DEF SyncFails, CopyFails, GiveUp, Fail, NoError
  <2>3. result' # "eof"
    BY <1>2, <1>8, <2>1 DEF SyncFails, CopyFails, InParse
  <2>4. 0 \notin pending \cup Out /\ 0 \in 0..picture
    BY DEF Frames
  <2>5. QED
    BY <1>1, <2>1, <2>2, <2>3, <2>4 DEF Frames, Mapped
<1>9. CASE PushFrame
  <2>1. UNCHANGED <<picture, pending, decoded, result, error, output_queue,
                    delivered, flushed>>
    BY <1>9 DEF PushFrame, parserVars, structVars, historyVars
  <2>2. shown' = 0 /\ pc' = "parse" /\ frames' = Append(frames, shown)
    BY <1>9 DEF PushFrame
  <2>3. shown # 0 /\ shown \in Pictures
    BY <1>9 DEF PushFrame, Frames, Mapped
  <2>4. frames' \in Seq(Pictures) /\ Range(frames') = Range(frames) \cup {shown}
    BY <2>2, <2>3, AppendProperties, RangeOfAppend DEF Frames
  <2>5. Out' = Out \cup {shown}
    BY <2>1, <2>4 DEF Out
  <2>6. EofMeansDrained'
    BY <1>2, <1>9, <2>1 DEF PushFrame, InParse, EofMeansDrained
  <2>7. 0 \notin pending \cup Out /\ 0 \in 0..picture
    BY DEF Frames
  <2>8. QED
    BY <2>1, <2>2, <2>3, <2>4, <2>5, <2>6, <2>7 DEF Frames, Mapped
<1>10. CASE Copy
  BY <1>2, <1>10, FramesKept
     DEF Copy, Frames, Mapped, InParse, stateVars, parserVars, sharedVars,
         structVars, callVars, historyVars
<1>11. CASE SendOk \/ FlushDone
  <2>1. PullFrames /\ UNCHANGED <<picture, pending, shown, decoded, delivered, error>>
    BY <1>11 DEF SendOk, FlushDone, parserVars, callVars, historyVars
  <2>2. pc = "parsed" /\ pc' = "unbind" /\ result' = "ok"
    BY <1>11 DEF SendOk, FlushDone, Return
  <2>3. flushed' \in BOOLEAN
    BY <1>11 DEF SendOk, FlushDone, FlushedAlways, Frames
  <2>4. EofMeansDrained'
    BY <2>2 DEF EofMeansDrained
  <2>5. QED
    BY <2>1, <2>2, <2>3, <2>4, PullFramesKeeps DEF Frames, Mapped
<1>12. CASE ReceiveFrame
  <2>1. UNCHANGED <<picture, pending, shown, decoded, error, flushed, pc>>
    BY <1>12 DEF ReceiveFrame, parserVars, callVars
  <2>2. QED
    BY <1>12, <2>1, ReceiveFrameKeeps DEF Frames
<1>13. ASSUME NEW t \in Threads, NEW m \in {"send", "flush", "drop"}, Call(t, m)
       PROVE  Frames'
  <2>1. /\ UNCHANGED <<picture, pending, shown, decoded, frames, output_queue,
                       delivered, error>>
        /\ pc = "idle" /\ pc' = "bound" /\ result' = "none"
    BY <1>13 DEF Call, parserVars, sharedVars
  <2>2. flushed' \in BOOLEAN
    BY <1>13 DEF Call, Frames
  <2>3. QED
    BY <2>1, <2>2, FramesKept DEF Mapped
<1>14. CASE \/ SendRefused \/ SendParse \/ FlushParse \/ SendErr \/ ParseOk
            \/ ParseFails
  BY <1>2, <1>14, FramesKept
     DEF SendRefused, SendParse, FlushParse, SendErr, Parsed, ParseOk, ParseFails, Return,
         FlushGoesOn, Frames, Mapped, InParse, Control, Bound, stateVars,
         parserVars, sharedVars, structVars, callVars, historyVars
<1>15. CASE DropParser \/ DropDecoder \/ DropContext \/ Unbind
  BY <1>15, FramesKept
     DEF DropParser, DropDecoder, DropContext, Unbind, Frames, Mapped, parserVars,
         sharedVars, structVars, callVars, historyVars
<1>16. CASE MakeRefused \/ MakeParserFails \/ MakeParser
  BY <1>16, FramesKept
     DEF MakeRefused, MakeParserFails, MakeParser, Frames, Mapped, stateVars,
         parserVars, sharedVars, structVars, callVars, historyVars
<1>17. ASSUME NEW t \in Threads, MakeContext(t) PROVE Frames'
  BY <1>17, FramesKept DEF MakeContext, Frames, Mapped, parserVars, sharedVars,
                           structVars, historyVars
<1>18. CASE Environment \/ UNCHANGED vars
  BY <1>18, FramesKept
     DEF Environment, ForeignPush, ForeignPop, vars, stateVars, Frames, parserVars,
         sharedVars, structVars, callVars, historyVars
<1>19. QED
  BY <1>3, <1>4, <1>5, <1>6, <1>7, <1>8, <1>9, <1>10, <1>11, <1>12, <1>13, <1>14,
     <1>15, <1>16, <1>17, <1>18
     DEF Next, Running, MakeStep, MethodStep, ParserStep, DisplayCallback,
         Client

LEMMA FramesInvariant == Spec => []Frames
<1>1. QED
  BY ControlInvariant, HandlesInvariant, FaultedInvariant, FramesInit, FramesStep,
     PTL DEF Spec

\* end-of-stream is answered only with both queues empty.
THEOREM EofIsDrained == Spec => []EofMeansDrained
<1>1. Frames => EofMeansDrained
  BY DEF Frames
<1>2. QED
  BY <1>1, FramesInvariant, PTL

\* An end-of-stream parse that answered success left no picture behind, unless
\* a callback recorded why.
Drained ==
  /\ eos \in {"open", "drained", "failed"}
  /\ pc \in InParse => eos = "open"
  /\ eos = "drained" => pending = {} \/ error # NoError

LEMMA DrainedInit == Init => Drained
BY DEF Init, Drained

LEMMA DrainedStep == Control /\ Faulted /\ Drained /\ [Next]_vars => Drained'
<1> SUFFICES ASSUME Control, Faulted, Drained, [Next]_vars PROVE Drained'
  OBVIOUS
<1>1. ASSUME UNCHANGED <<eos, pending, error>>, pc' \in InParse => pc \in InParse
      PROVE  Drained'
  BY <1>1 DEF Drained
<1>2. ASSUME eos' = "open" PROVE Drained'
  BY <1>2 DEF Drained
<1>3. CASE ParseOk
  <2>1. op = "flush" => pending = {} \/ error # NoError
    BY <1>3 DEF ParseOk, Faulted
  <2>2. pc' = "parsed" /\ UNCHANGED <<pending, error>>
    BY <1>3 DEF ParseOk, Parsed, parserVars, sharedVars
  <2>3. eos' = IF op = "flush" THEN "drained" ELSE "open"
    BY <1>3 DEF ParseOk, Parsed
  <2>4. QED
    BY <2>1, <2>2, <2>3 DEF Drained, InParse
<1>4. CASE ParseFails
  <2>1. pc' \in {"unbind", "parsed"}
    BY <1>4 DEF ParseFails, Return, FlushGoesOn
  <2>2. eos' \in {"open", "failed"}
    BY <1>4 DEF ParseFails, Parsed
  <2>3. QED
    BY <2>1, <2>2 DEF Drained, InParse
<1>5. CASE SendParse \/ FlushParse
  BY <1>2, <1>5 DEF SendParse, FlushParse
<1>6. CASE SeqCallback \/ DecodeCallback
  <2>1. eos = "open" /\ UNCHANGED eos
    BY <1>6 DEF SeqCallback, DecodeCallback, Drained, InParse, historyVars
  <2>2. QED
    BY <1>2, <2>1
<1>7. ASSUME NEW p \in Pictures, DisplayDropped(p) \/ MapFails(p) \/ Map(p)
      PROVE  Drained'
  <2>1. eos = "open" /\ UNCHANGED eos
    BY <1>7 DEF DisplayDropped, MapFails, Map, Drained, InParse, historyVars
  <2>2. QED
    BY <1>2, <2>1
<1>8. CASE SyncFails \/ Copy \/ CopyFails \/ PushFrame
  <2>1. eos = "open" /\ UNCHANGED eos
    BY <1>8 DEF SyncFails, Copy, CopyFails, PushFrame, GiveUp, Drained, InParse,
                stateVars, historyVars
  <2>2. QED
    BY <1>2, <2>1
<1>9. CASE \/ SendRefused \/ SendErr \/ SendOk \/ FlushDone \/ Unbind
           \/ DropParser \/ DropDecoder \/ DropContext
  <2>1. UNCHANGED <<eos, pending, error>>
    BY <1>9 DEF SendRefused, SendErr, SendOk, FlushDone, Unbind, DropParser,
                DropDecoder, DropContext, stateVars, parserVars, sharedVars,
                historyVars
  <2>2. pc' \in {"unbind", "idle", "drop_decoder", "drop_ctx", "gone"}
    BY <1>9 DEF SendRefused, SendErr, SendOk, FlushDone, Unbind, DropParser,
                DropDecoder, DropContext, Return
  <2>3. QED
    BY <1>1, <2>1, <2>2 DEF InParse
<1>10. CASE MakeStep \/ Client
  <2>1. UNCHANGED <<eos, pending, error>>
    BY <1>10 DEF MakeStep, MakeParserFails, MakeParser, Client, MakeRefused,
                 MakeContext, Call, ReceiveFrame, stateVars, parserVars,
                 sharedVars, historyVars
  <2>2. pc' \notin InParse
    BY <1>10 DEF MakeStep, MakeParserFails, MakeParser, Client, MakeRefused,
                 MakeContext, Call, ReceiveFrame, InParse
  <2>3. QED
    BY <1>1, <2>1, <2>2
<1>11. CASE Environment \/ UNCHANGED vars
  BY <1>1, <1>11 DEF Environment, ForeignPush, ForeignPop, vars, stateVars,
                     parserVars, sharedVars, historyVars
<1>12. QED
  BY <1>3, <1>4, <1>5, <1>6, <1>7, <1>8, <1>9, <1>10, <1>11
     DEF Next, Running, MethodStep, ParserStep, DisplayCallback

LEMMA DrainedInvariant == Spec => []Drained
<1>1. QED
  BY ControlInvariant, FaultedInvariant, DrainedInit, DrainedStep, PTL DEF Spec

\* While the decoder lives, a decoded picture is delivered, queued or being
\* copied, or with a parser that is not drained yet, for streams of every
\* length; else a callback recorded an error, or flush ignored one of the parser.
THEOREM NoPictureLost == Spec => []NoSilentLoss
<1>1. Frames /\ Drained => NoSilentLoss
  <2> SUFFICES ASSUME Frames, Drained, NEW p \in decoded, error = NoError,
                      ~LeftBehind(p), p # shown, ~(p \in pending /\ eos = "open")
               PROVE  \E i \in DOMAIN Queued : Queued[i] = p
    BY DEF NoSilentLoss, Arrives
  <2>1. p \in Out
    BY DEF Frames, Drained, LeftBehind
  <2>2. output_queue \in Seq(Pictures) /\ frames \in Seq(Pictures)
        /\ delivered \in Seq(Pictures)
    BY DEF Frames
  <2>3. delivered \o output_queue \in Seq(Pictures)
    BY <2>2, ConcatProperties
  <2>4. Range(Queued) = Out
    <3>1. Range(delivered \o output_queue) = Range(delivered) \cup Range(output_queue)
      BY <2>2, RangeConcatenation
    <3> DEFINE head == delivered \o output_queue
    <3> HIDE DEF head
    <3>2. Range(head \o frames) = Range(head) \cup Range(frames)
      <4>1. head \in Seq(Pictures)
        BY <2>3 DEF head
      <4>2. QED
        BY <2>2, <4>1, RangeConcatenation
    <3>3. QED
      BY <3>1, <3>2 DEF Queued, Out, head
  <2>5. QED
    BY <2>1, <2>4 DEF Range
<1>2. QED
  BY <1>1, FramesInvariant, DrainedInvariant, PTL

\* Every variable keeps its type.
THEOREM TypeCorrect == Spec => []TypeOK
<1>1. Control /\ Contexts /\ Handles /\ Config /\ Faulted /\ Frames /\ Drained => TypeOK
  <2> SUFFICES ASSUME Control, Contexts, Handles, Config, Faulted, Frames, Drained
               PROVE  TypeOK
    OBVIOUS
  <2>1. /\ foreign \in [Threads -> Seq(Foreign)]
        /\ stack \in [Threads -> Seq(Foreign \cup {Own})]
    BY DEF Contexts
  <2>2. /\ ctx \in {"none", "live", "destroyed"}
        /\ parser \in {"none", "live", "destroyed"}
        /\ decoder \in Nat /\ home \in Foreign \cup {Own, NoContext}
    BY DEF Handles
  <2>3. sessions \subseteq Nat \ {0} /\ mapped \subseteq Nat \ {0}
    BY DEF Handles, SurfaceReleased
  <2>4. picture \in 0..MaxPictures /\ pending \cup decoded \subseteq 1..picture
    BY DEF Frames
  <2>5. pending \subseteq Pictures /\ decoded \subseteq Pictures
    BY <2>4, DecoderAssumption DEF Pictures
  <2>6. /\ frames \in Seq(Pictures) /\ output_queue \in Seq(Pictures)
        /\ delivered \in Seq(Pictures) /\ flushed \in BOOLEAN
        /\ shown \in Pictures \cup {0}
    BY DEF Frames
  <2>7. formats \in Nat /\ rejected \in BOOLEAN /\ error \in Errors
    BY DEF Faulted
  <2>8. /\ pc \in Steps /\ op \in Methods /\ thr \in Threads \cup {NoThread}
        /\ pushed \in BOOLEAN /\ unbound \in BOOLEAN /\ result \in Answers
    BY DEF Control
  <2>9. /\ prologue \in {"empty", "held", "taken"} /\ sent \in Nat
        /\ configs \in 0..1
    BY DEF Config
  <2>10. eos \in {"open", "drained", "failed"}
    BY DEF Drained
  <2>11. QED
    BY <2>1, <2>2, <2>3, <2>4, <2>5, <2>6, <2>7, <2>8, <2>9, <2>10 DEF TypeOK
<1>2. QED
  BY <1>1, ControlInvariant, ContextsInit, ContextsStep, HandlesInvariant,
     ConfigInit, ConfigStep, FaultedInvariant, FramesInvariant, DrainedInvariant,
     PTL DEF Spec

-----------------------------------------------------------------------------
(* Refinement: the decoder implements FramePipe.                           *)

LEMMA PipeInit == Init => Pipe!Init
BY EmptySeq DEF Init, Pipe!Init

\* The pictures in the abstract pipe are those that left the callback.
LEMMA InPipeIsOut ==
  ASSUME Frames PROVE Pipe!InPipe = Out
<1>1. Range(output_queue \o frames) = Range(output_queue) \cup Range(frames)
  BY RangeConcatenation DEF Frames
<1>2. QED
  BY <1>1 DEF Pipe!InPipe, Out, Range

\* Steps the pipe does not see.
LEMMA PipeStutters ==
  ASSUME UNCHANGED <<output_queue, frames, delivered, flushed>>,
         result' = result \/ (result' # "eof" /\ result # "eof")
  PROVE  UNCHANGED Pipe!pipeVars
BY DEF Pipe!pipeVars

LEMMA PipeStep ==
  Control /\ Frames /\ [Next]_vars => [Pipe!Next]_(Pipe!pipeVars)
<1> SUFFICES ASSUME Control, Frames, [Next]_vars
             PROVE  Pipe!Next \/ UNCHANGED Pipe!pipeVars
  OBVIOUS
<1>1. output_queue \in Seq(Pictures) /\ frames \in Seq(Pictures)
      /\ output_queue \o frames \in Seq(Pictures)
  BY ConcatProperties DEF Frames
<1>2. \A s \in Seq(Pictures) : s \o <<>> = s
  BY ConcatEmptySeq
<1>3. CASE PushFrame
  <2>1. UNCHANGED <<output_queue, delivered, flushed, result>>
        /\ frames' = Append(frames, shown)
    BY <1>3 DEF PushFrame, structVars, historyVars
  <2>2. shown \in Pictures /\ shown \notin Pipe!InPipe
    BY <1>3, InPipeIsOut DEF PushFrame, Frames, Mapped
  <2>3. output_queue' \o frames' = Append(output_queue \o frames, shown)
    BY <1>1, <2>1, <2>2
  <2>4. Pipe!Produce(shown)
    BY <2>1, <2>2, <2>3 DEF Pipe!Produce
  <2>5. QED
    BY <2>2, <2>4 DEF Pipe!Next
<1>4. CASE SendOk
  <2>1. output_queue' \o frames' = output_queue \o frames
    BY <1>1, <1>2, <1>4 DEF SendOk, PullFrames
  <2>2. UNCHANGED <<delivered, flushed>> /\ result' # "eof" /\ result # "eof"
    BY <1>4 DEF SendOk, Return, Control, historyVars
  <2>3. QED
    BY <2>1, <2>2 DEF Pipe!pipeVars
<1>5. CASE FlushDone
  <2>1. output_queue' \o frames' = output_queue \o frames
    BY <1>1, <1>2, <1>5 DEF FlushDone, PullFrames
  <2>2. /\ UNCHANGED delivered /\ result' # "eof" /\ result # "eof"
        /\ flushed' = TRUE
    BY <1>5 DEF FlushDone, FlushedAlways, Return, Control, historyVars
  <2>3. QED
    BY <2>1, <2>2 DEF Pipe!Next, Pipe!Close
<1>6. CASE ReceiveFrame
  <2> DEFINE queue == output_queue \o frames
  <2>1. frames' = <<>> /\ UNCHANGED flushed
    BY <1>6 DEF ReceiveFrame
  <2>2. CASE queue # <<>>
    <3>1. /\ output_queue' = Tail(queue)
          /\ delivered' = Append(delivered, Head(queue))
          /\ result' = "frame"
      BY <1>6, <2>2 DEF ReceiveFrame, HasFrame
    <3>2. Tail(queue) \in Seq(Pictures)
      BY <1>1, <2>2, HeadTailProperties
    <3>3. output_queue' \o frames' = Tail(queue)
      BY <1>2, <2>1, <3>1, <3>2
    <3>4. Pipe!Deliver
      BY <2>1, <2>2, <3>1, <3>3 DEF Pipe!Deliver
    <3>5. QED
      BY <3>4 DEF Pipe!Next
  <2>3. CASE queue = <<>>
    <3>1. /\ output_queue' = queue /\ delivered' = delivered
          /\ result' = IF flushed THEN "eof" ELSE "need_more"
      BY <1>6, <2>3 DEF ReceiveFrame, HasFrame
    <3>2. output_queue' \o frames' = queue
      BY <1>1, <1>2, <2>1, <3>1
    <3>3. (result' = "eof") = flushed
      BY <3>1 DEF Frames
    <3>4. Pipe!Empty
      BY <2>1, <2>3, <3>1, <3>2, <3>3 DEF Pipe!Empty
    <3>5. QED
      BY <3>4 DEF Pipe!Next
  <2>4. QED
    BY <2>2, <2>3
<1>7. ASSUME NEW t \in Threads, NEW m \in {"send", "flush", "drop"}, Call(t, m)
      PROVE  Pipe!Next
  <2>1. UNCHANGED <<output_queue, frames, delivered>> /\ result' # "eof"
        /\ flushed' \in {flushed, FALSE}
    BY <1>7 DEF Call, sharedVars
  <2>2. QED
    BY <2>1 DEF Pipe!Next, Pipe!Begin
<1>8. CASE \/ SendRefused \/ SendParse \/ FlushParse \/ SendErr \/ ParseOk
           \/ ParseFails \/ SeqCallback \/ DecodeCallback \/ SyncFails \/ Copy
           \/ CopyFails \/ DropParser \/ DropDecoder \/ DropContext \/ Unbind
  <2>1. UNCHANGED <<output_queue, frames, delivered, flushed>>
    BY <1>8 DEF SendRefused, SendParse, FlushParse, SendErr, Parsed, ParseOk, ParseFails,
                SeqCallback, DecodeCallback, SyncFails, Copy, CopyFails, GiveUp,
                DropParser, DropDecoder, DropContext, Unbind, stateVars,
                sharedVars, structVars, historyVars
  <2>2. result' = result \/ (result' # "eof" /\ result # "eof")
    BY <1>8 DEF SendRefused, SendParse, FlushParse, SendErr, Parsed, ParseOk, ParseFails,
                SeqCallback, DecodeCallback, SyncFails, Copy, CopyFails, GiveUp,
                DropParser, DropDecoder, DropContext, Unbind, Return, Control
  <2>3. QED
    BY <2>1, <2>2, PipeStutters
<1>9. ASSUME NEW p \in Pictures, DisplayDropped(p) \/ MapFails(p) \/ Map(p)
      PROVE  UNCHANGED Pipe!pipeVars
  BY <1>9, PipeStutters DEF DisplayDropped, MapFails, Map, sharedVars,
                            structVars, historyVars
<1>10. CASE MakeRefused \/ MakeParserFails \/ MakeParser
  BY <1>10, PipeStutters
     DEF MakeRefused, MakeParserFails, MakeParser, Control, stateVars, sharedVars,
         structVars, historyVars
<1>11. ASSUME NEW t \in Threads, MakeContext(t) PROVE UNCHANGED Pipe!pipeVars
  BY <1>11, PipeStutters DEF MakeContext, sharedVars, structVars, historyVars
<1>12. CASE Environment \/ UNCHANGED vars
  BY <1>12, PipeStutters DEF Environment, ForeignPush, ForeignPop, vars, stateVars,
                             sharedVars, structVars, historyVars
<1>13. QED
  BY <1>3, <1>4, <1>5, <1>6, <1>7, <1>8, <1>9, <1>10, <1>11, <1>12
     DEF Next, Running, MakeStep, MethodStep, ParserStep, DisplayCallback,
         Client

\* The output queue, the callback queue behind its mutex, the parser callbacks
\* and the client methods together implement the FIFO pipe: no picture twice,
\* none out of order, no end-of-stream before the pipe is empty.
THEOREM PipeRefinement == Spec => ImplementsPipe
<1>1. QED
  BY PipeInit, PipeStep, ControlInvariant, FramesInvariant, PTL
     DEF Spec, ImplementsPipe, Pipe!Spec
-----------------------------------------------------------------------------
(***************************************************************************)
(* What CallReturns rests on. That a method takes its next step is the     *)
(* fairness of synchronous code and stays with TLC; that it cannot take    *)
(* steps for ever, whatever the driver refuses, is proved here: each step  *)
(* lowers a rank, and nothing another thread does raises it. What the rank *)
(* counts is the stream: pictures and formats still to come, and pictures  *)
(* decoded but not shown.                                                  *)
(***************************************************************************)

\* The steps to the end of the method, were there nothing more in the stream.
StepsLeft ==
  CASE pc \in {"absent", "idle", "gone"}     -> 0
    [] pc = "drop_ctx"                       -> 1
    [] pc = "unbind"                         -> 2
    [] pc \in {"parsed", "drop_decoder"}     -> 3
    [] pc = "parse"                          -> 4
    [] pc \in {"bound", "create_parser"}     -> 5
    [] pc \in {"copied", "copy_failed"}      -> 6
    [] pc = "mapped"                         -> 7

\* What the callbacks of the rest of the stream can add to that.
StreamLeft ==
  (MaxFormats - formats) + 5 * (MaxPictures - picture) + 4 * Cardinality(pending)

Rank == StepsLeft + StreamLeft
InMethod == pc \notin {"absent", "idle", "gone"}

\* Every step of a running method uses up some of its rank, and nothing that
\* other code does on other threads gives any back.
MethodsAreFinite ==
  [][InMethod => /\ Rank' <= Rank
                 /\ Running => Rank' < Rank]_vars

\* The sequence callbacks keep within the stream's formats.
FormatsBounded == formats \in 0..MaxFormats

LEMMA FormatsInit == Init => FormatsBounded
BY DecoderAssumption DEF Init, FormatsBounded

\* Only the sequence callback counts formats, and it stops at the bound.
LEMMA FormatsStep == FormatsBounded /\ [Next]_vars => FormatsBounded'
<1> SUFFICES ASSUME FormatsBounded, [Next]_vars PROVE FormatsBounded'
  OBVIOUS
<1> USE DecoderAssumption DEF FormatsBounded
<1>1. CASE SeqCallback
  BY <1>1 DEF SeqCallback
<1>2. CASE ~SeqCallback
  BY <1>2 DEF Next, Running, Client, Environment, MakeStep, MethodStep, ParserStep,
       DisplayCallback, MakeRefused, MakeContext, Call, ReceiveFrame,
       MakeParserFails, MakeParser, SendRefused, SendParse, FlushParse, SendErr,
       SendOk, FlushDone, DropParser, DropDecoder, DropContext, Unbind,
       DecodeCallback, DisplayDropped, MapFails, Map, SyncFails, Copy, CopyFails,
       PushFrame, Parsed, ParseOk, ParseFails, GiveUp, ForeignPop, ForeignPush, parserVars,
       stateVars, vars
<1>3. QED
  BY <1>1, <1>2

\* The parser holds finitely many pictures.
LEMMA PendingFinite ==
  Frames => IsFiniteSet(pending) /\ Cardinality(pending) \in Nat
<1> SUFFICES ASSUME Frames PROVE IsFiniteSet(pending) /\ Cardinality(pending) \in Nat
  OBVIOUS
<1>1. picture \in Int /\ pending \in SUBSET (1..picture)
  BY DecoderAssumption DEF Frames
<1>2. IsFiniteSet(1..picture)
  BY <1>1, FS_Interval
<1>3. IsFiniteSet(pending)
  BY <1>1, <1>2, FS_Subset
<1>4. QED
  BY <1>3, FS_CardinalityType

Bounds == Control /\ Frames /\ FormatsBounded
RankIsNat == StepsLeft \in Nat /\ StreamLeft \in Nat

\* The rank is a natural number.
LEMMA RankType == Bounds => RankIsNat
<1> SUFFICES ASSUME Control, Frames, FormatsBounded
             PROVE  StepsLeft \in Nat /\ StreamLeft \in Nat
  BY DEF Bounds, RankIsNat
<1>1. StepsLeft \in Nat
  BY DEF Control, StepsLeft, Steps, InParse
<1>2. Cardinality(pending) \in Nat
  BY PendingFinite
<1>3. (MaxFormats - formats) \in Nat /\ (MaxPictures - picture) \in Nat
  BY DecoderAssumption DEF Frames, FormatsBounded
<1>4. QED
  BY <1>1, <1>2, <1>3 DEF StreamLeft

\* So it is after a step.
LEMMA RankTypeNext == Bounds' => RankIsNat'
BY RankType, PTL

\* Steps that leave the stream alone come nearer to the end of the method.
LEMMA PlainSteps ==
  ASSUME Control,
         \/ MakeParserFails \/ MakeParser
         \/ SendRefused \/ SendParse \/ FlushParse \/ SendErr \/ SendOk \/ FlushDone
         \/ DropParser \/ DropDecoder \/ DropContext \/ Unbind
         \/ ParseOk \/ ParseFails \/ SyncFails \/ Copy \/ CopyFails \/ PushFrame
  PROVE  UNCHANGED <<formats, picture, pending>> /\ StepsLeft' < StepsLeft
<1>1. CASE MakeParserFails \/ MakeParser
  BY <1>1 DEF MakeParserFails, MakeParser, parserVars, StepsLeft
<1>2. CASE SendRefused \/ SendParse \/ FlushParse
  BY <1>2 DEF SendRefused, SendParse, FlushParse, Return, stateVars, parserVars,
              StepsLeft
<1>3. CASE SendErr \/ SendOk \/ FlushDone
  BY <1>3 DEF SendErr, SendOk, FlushDone, Return, stateVars, parserVars, StepsLeft
<1>4. CASE DropParser \/ DropDecoder \/ DropContext \/ Unbind
  BY <1>4 DEF DropParser, DropDecoder, DropContext, Unbind, parserVars, StepsLeft
<1>5. CASE ParseOk \/ ParseFails
  BY <1>5 DEF Parsed, ParseOk, ParseFails, FlushGoesOn, Return, stateVars, parserVars,
              StepsLeft
<1>6. CASE SyncFails \/ Copy \/ CopyFails \/ PushFrame
  BY <1>6 DEF SyncFails, Copy, CopyFails, PushFrame, GiveUp, stateVars, parserVars,
              StepsLeft
<1>7. QED
  BY <1>1, <1>2, <1>3, <1>4, <1>5, <1>6

\* A callback uses up some of the stream, and display_callback more of it than
\* the steps it takes to copy and release a surface.
LEMMA StreamSteps ==
  ASSUME Frames, FormatsBounded,
         \/ SeqCallback \/ DecodeCallback
         \/ \E p \in Pictures : DisplayDropped(p) \/ MapFails(p) \/ Map(p)
  PROVE  StepsLeft' + StreamLeft' < StepsLeft + StreamLeft
<1> DEFINE n == Cardinality(pending)
           m == Cardinality(pending')
<1>1. /\ formats \in Int /\ picture \in Int /\ MaxFormats \in Int
      /\ MaxPictures \in Int /\ n \in Nat /\ IsFiniteSet(pending)
  BY PendingFinite, DecoderAssumption DEF Frames, FormatsBounded
<1>2. StreamLeft = (MaxFormats - formats) + 5 * (MaxPictures - picture) + 4 * n
  BY DEF StreamLeft
<1>3. StreamLeft' = (MaxFormats - formats') + 5 * (MaxPictures - picture') + 4 * m
  BY DEF StreamLeft
<1>4. CASE SeqCallback
  <2>1. pc = "parse" /\ pc' = "parse" /\ formats' = formats + 1
        /\ picture' = picture /\ m = n
    BY <1>4 DEF SeqCallback
  <2>2. StepsLeft' = 4 /\ StepsLeft = 4
    BY <2>1 DEF StepsLeft
  <2>3. QED
    BY <1>1, <1>2, <1>3, <2>1, <2>2
<1>5. CASE DecodeCallback
  <2>1. pc = "parse" /\ pc' = "parse" /\ formats' = formats
        /\ picture' = picture + 1
        /\ pending' \in {pending, pending \cup {picture + 1}}
    BY <1>5 DEF DecodeCallback
  <2>2. m = n \/ m = n + 1
    BY <1>1, <2>1, FS_AddElement
  <2>3. StepsLeft' = 4 /\ StepsLeft = 4
    BY <2>1 DEF StepsLeft
  <2>4. QED
    BY <1>1, <1>2, <1>3, <2>1, <2>2, <2>3
<1>6. ASSUME NEW p \in Pictures, DisplayDropped(p) \/ MapFails(p) \/ Map(p)
      PROVE  StepsLeft' + StreamLeft' < StepsLeft + StreamLeft
  <2>1. /\ pc = "parse" /\ pc' \in {"parse", "mapped"} /\ formats' = formats
        /\ picture' = picture /\ p \in pending /\ pending' = pending \ {p}
    BY <1>6 DEF DisplayDropped, MapFails, Map
  <2>2. m = n - 1
    BY <1>1, <2>1, FS_RemoveElement
  <2>3. StepsLeft' \in {4, 7} /\ StepsLeft = 4
    BY <2>1 DEF StepsLeft
  <2>4. QED
    BY <1>1, <1>2, <1>3, <2>1, <2>2, <2>3
<1>7. QED
  BY <1>4, <1>5, <1>6

\* No method of the decoder can go on for ever: every step it takes, in the
\* parser or out of it, lowers a natural number that nothing else raises.
THEOREM MethodsTerminate == Spec => MethodsAreFinite
<1>1. ASSUME Bounds, Bounds', Running PROVE Rank' < Rank
  <2>1. StepsLeft \in Nat /\ StreamLeft \in Nat
    BY <1>1, RankType DEF RankIsNat
  <2>2. StepsLeft' \in Nat /\ StreamLeft' \in Nat
    BY <1>1, RankTypeNext DEF RankIsNat
  <2>3. ASSUME UNCHANGED <<formats, picture, pending>>, StepsLeft' < StepsLeft
        PROVE  Rank' < Rank
    <3>1. StreamLeft' <= StreamLeft
      <4>1. StreamLeft' = StreamLeft
        BY <2>3 DEF StreamLeft
      <4>2. QED
        BY <2>1, <4>1
    <3>2. StepsLeft' < StepsLeft
      BY <2>3
    <3>3. \A a, b, c, d \in Nat : a < b /\ c <= d => a + c < b + d
      OBVIOUS
    <3>4. StepsLeft' + StreamLeft' < StepsLeft + StreamLeft
      BY <2>1, <2>2, <3>1, <3>2, <3>3
    <3>5. QED
      BY <3>4 DEF Rank
  <2>4. ASSUME StepsLeft' + StreamLeft' < StepsLeft + StreamLeft PROVE Rank' < Rank
    BY <2>4 DEF Rank
  <2>5. QED
    BY <1>1, <2>3, <2>4, PlainSteps, StreamSteps
       DEF Bounds, Running, MakeStep, MethodStep, ParserStep, DisplayCallback
<1>2. ASSUME Bounds, Bounds', [Next]_vars, InMethod PROVE Rank' <= Rank
  <2>1. Rank \in Nat /\ Rank' \in Nat
    BY <1>2, RankType, RankTypeNext DEF RankIsNat, Rank
  <2>2. CASE Running
    BY <1>1, <1>2, <2>1, <2>2
  <2>3. CASE Client
    BY <1>2, <2>3 DEF Client, InMethod, MakeRefused, MakeContext, Call, ReceiveFrame
  <2>4. CASE Environment \/ UNCHANGED vars
    <3>1. UNCHANGED <<pc, formats, picture, pending>>
      BY <2>4 DEF Environment, ForeignPop, ForeignPush, parserVars, stateVars, vars
    <3>2. StepsLeft' = StepsLeft /\ StreamLeft' = StreamLeft
      BY <3>1 DEF StepsLeft, StreamLeft
    <3>3. Rank' = Rank
      BY <3>2 DEF Rank
    <3>4. QED
      BY <2>1, <3>3
  <2>5. QED
    BY <1>2, <2>2, <2>3, <2>4 DEF Next
<1>3. Bounds /\ Bounds' /\ [Next]_vars =>
        [InMethod => /\ Rank' <= Rank
                     /\ Running => Rank' < Rank]_vars
  BY <1>1, <1>2
<1>4. Spec => []Bounds
  <2>1. Spec => []FormatsBounded
    BY FormatsInit, FormatsStep, PTL DEF Spec
  <2>2. QED
    BY <2>1, ControlInvariant, FramesInvariant, PTL DEF Bounds
<1>5. QED
  BY <1>3, <1>4, PTL DEF Spec, MethodsAreFinite
=============================================================================
