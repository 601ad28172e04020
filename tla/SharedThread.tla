---------------------------- MODULE SharedThread ----------------------------
(***************************************************************************)
(* Decoders, encoders and the engine probe on the same client threads. All *)
(* of them make, push, pop and destroy contexts on the stack of the thread *)
(* they happen to run on, and NVDEC's capability query, which names no     *)
(* context, answers for whatever is on top. An object may be made, used    *)
(* and dropped on different threads, by one thread at a time (`&mut self', *)
(* `Send'). What an object does inside a step is in NvDecoder, NvEncoder   *)
(* and DriverInit; here a step is what it does to contexts.                *)
(***************************************************************************)
EXTENDS EngineProbe

CONSTANTS
  Decoders,         \* the other Objects are encoders
  Prechecked        \* decoders for VP9 and MPEG-2, whose factories ask first

Encoders == Objects \ Decoders

ASSUME ObjectAssumption ==
  Decoders \subseteq Objects /\ Prechecked \subseteq Decoders

VARIABLES
  phase,            \* of each object: "none", "ready", "refused", "gone"
  bound,            \* ContextGuard.pushed, of the method a thread runs
  left              \* history: contexts that encoder factories left current

objectVars == <<phase, bound, left>>
vars == <<driverVars, faults, pc, obj, probeVars, objectVars>>

Init ==
  /\ ProbeInit
  /\ phase = [o \in Objects |-> "none"]
  /\ bound = [t \in Threads |-> FALSE]
  /\ left = [t \in Threads |-> <<>>]

Become(t, state) == phase' = [phase EXCEPT ![obj[t]] = state]

\* The factory answers an error; its locals go.
Refuse(t) ==
  /\ Return(t) /\ Become(t, "refused")
  /\ device' = [device EXCEPT ![obj[t]] = 0]

\* Nobody else works for the object: calls take `&mut self'.
Free(o) == \A u \in Threads : pc[u] = "idle" \/ obj[u] # o

-----------------------------------------------------------------------------
(* The factories. i is params.device_index, and may be out of range.       *)

Make(t, o, i) ==
  /\ pc[t] = "idle" /\ phase[o] = "none" /\ Free(o)
  /\ device' = [device EXCEPT ![o] = i]
  /\ Enter(t, o, IF o \in Prechecked THEN "precheck" ELSE "select")
  /\ UNCHANGED <<stack, live, sessions, faults, probeVars, objectVars>>

\* The pre-check runs before the factory has a context of its own; a failing
\* query is as good as a positive one.
Precheck(t) ==
  /\ pc[t] = "precheck"
  /\ CapsYes(t, Decodes) \/ CapsError(t)
  /\ Goto(t, "select")
  /\ UNCHANGED <<driverVars, probeVars, objectVars>>

PrecheckRefuses(t) ==
  /\ pc[t] = "precheck"
  /\ CapsNo(t, Decodes)
  /\ Refuse(t)
  /\ UNCHANGED <<stack, live, sessions, probeVars, bound, left>>

\* init, device_count, the range test, device or create_context_for refuses.
SelectRefuses(t) ==
  /\ pc[t] = "select" /\ Refuse(t)
  /\ IF device[obj[t]] >= Count THEN UNCHANGED faults ELSE Fail
  /\ UNCHANGED <<stack, live, sessions, probeVars, bound, left>>

Select(t) ==
  /\ pc[t] = "select" /\ device[obj[t]] < Count
  /\ CreateContext(t, obj[t], device[obj[t]])
  /\ Goto(t, IF obj[t] \in Decoders THEN "parser" ELSE "session")
  /\ UNCHANGED <<faults, probeVars, objectVars>>

\* create_parser, or a stage of the encoder's factory, fails: `?' drops ctx.
MakeFails(t) ==
  /\ pc[t] \in {"parser", "session"} /\ Fail
  /\ DestroyContext(t, obj[t]) /\ Refuse(t)
  /\ UNCHANGED <<probeVars, bound, left>>

MakeParser(t) ==
  /\ pc[t] = "parser" /\ Goto(t, "pop")
  /\ UNCHANGED <<driverVars, faults, probeVars, objectVars>>

\* ContextGuard::pop_creation; the decoder is handed out.
PopCreation(t) ==
  /\ pc[t] = "pop" /\ Return(t) /\ Become(t, "ready")
  /\ stack' = PopFrom(stack, t)
  /\ UNCHANGED <<live, device, sessions, faults, probeVars, bound, left>>

\* The encoder's factory has no pop: its context stays current.
MakeEncoder(t) ==
  /\ pc[t] = "session" /\ Return(t) /\ Become(t, "ready")
  /\ left' = [left EXCEPT ![t] = Append(@, obj[t])]
  /\ UNCHANGED <<driverVars, faults, probeVars, bound>>

-----------------------------------------------------------------------------
(* A decoder's methods and its drop.                                       *)

\* bind_context at the start of send_packet, flush ("work") and Drop::drop
\* ("destroy"); a failed push is not reported.
Bind(t, d, step) ==
  /\ pc[t] = "idle" /\ phase[d] = "ready" /\ Free(d)
  /\ Enter(t, d, step)
  /\ \/ /\ stack' = PushOn(stack, t, d) /\ UNCHANGED faults
        /\ bound' = [bound EXCEPT ![t] = TRUE]
     \/ Fail /\ UNCHANGED <<stack, bound>>
  /\ UNCHANGED <<live, device, sessions, probeVars, phase, left>>

\* A change that would break StackKept: pop whether or not the push worked.
PopAlways(t) == TRUE
PopNeeded(t) == bound[t]

Unbind(t) ==
  /\ pc[t] \in {"work", "destroy"}
  /\ IF pc[t] = "work" THEN Return(t) ELSE Goto(t, "drop_ctx")
  /\ stack' = IF PopNeeded(t) THEN PopFrom(stack, t) ELSE stack
  /\ bound' = [bound EXCEPT ![t] = FALSE]
  /\ UNCHANGED <<live, device, sessions, faults, probeVars, phase, left>>

\* The field _ctx is dropped after Drop::drop has returned.
DropDecoder(t) ==
  /\ pc[t] = "drop_ctx" /\ Return(t) /\ Become(t, "gone")
  /\ DestroyContext(t, obj[t])
  /\ UNCHANGED <<faults, probeVars, bound, left>>

\* An encoder pushes nothing: its session knows its context. Dropping it pops
\* the context only where, and if, it is on top.
DropEncoder(t, e) ==
  /\ pc[t] = "idle" /\ phase[e] = "ready" /\ Free(e)
  /\ DestroyContext(t, e)
  /\ phase' = [phase EXCEPT ![e] = "gone"]
  /\ left' = DestroyOn(left, t, e)
  /\ UNCHANGED <<faults, pc, obj, probeVars, bound>>

-----------------------------------------------------------------------------
ObjectStep(t) ==
  \/ Precheck(t) \/ PrecheckRefuses(t) \/ SelectRefuses(t) \/ Select(t)
  \/ MakeFails(t) \/ MakeParser(t) \/ PopCreation(t) \/ MakeEncoder(t)
  \/ Unbind(t) \/ DropDecoder(t)

Running(t) == ObjectStep(t) \/ (ProbeStep(t) /\ UNCHANGED objectVars)

Client(t) ==
  \/ (EngineInfo(t) \/ EngineInfoFails(t)) /\ UNCHANGED objectVars
  \/ \E o \in Objects, i \in 0..Count : Make(t, o, i)
  \/ \E d \in Decoders, step \in {"work", "destroy"} : Bind(t, d, step)
  \/ \E e \in Encoders : DropEncoder(t, e)

Next == \E t \in Threads : Running(t) \/ Client(t)

Spec == Init /\ [][Next]_vars

-----------------------------------------------------------------------------
(* Properties                                                              *)

SessionSteps == {"guids", "caps", "close"}
ProbeHolds == {"decode8", "decode10", "open", "drop"} \cup SessionSteps
MakeHolds == {"parser", "pop", "session"}
Guarded == {"work", "destroy"}
Steps == {"idle", "device", "precheck", "select", "drop_ctx"}
           \cup ProbeHolds \cup MakeHolds \cup Guarded

TypeOK ==
  /\ stack \in [Threads -> Seq(Contexts)] /\ left \in [Threads -> Seq(Encoders)]
  /\ live \subseteq Contexts /\ sessions \subseteq Threads
  /\ device \in [Contexts -> 0..Count]
  /\ faults \in 0..MaxFaults
  /\ pc \in [Threads -> Steps] /\ obj \in [Threads -> Contexts]
  /\ index \in [Threads -> 0..Count] /\ row \in [Threads -> Rows]
  /\ rows \in [Threads -> Seq(Rows)]
  /\ phase \in [Objects -> {"none", "ready", "refused", "gone"}]
  /\ bound \in [Threads -> BOOLEAN]

\* The steps at which a call has its own context on the thread's stack.
Holds(t) == pc[t] \in ProbeHolds \cup MakeHolds \/ (pc[t] \in Guarded /\ bound[t])

\* Whatever mixture of calls a thread has run, its stack is what the encoder
\* factories left there (less what dropping encoders could take off), and on
\* top of that, only inside a call, the context of the call: the decoder and
\* the probe leave every thread as they found it (decoder.rs: "don't leave it
\* on the constructing thread's stack"; its struct comment, at 443-444 and 456,
\* still has the context current for the whole lifetime, which the code does not
\* do).
StackKept ==
  \A t \in Threads :
    stack[t] = IF Holds(t) THEN Append(left[t], obj[t]) ELSE left[t]

\* The driver work of a call - the probe's queries, the parser, the callbacks
\* inside a method whose push worked - finds its own context current, and that
\* context exists, although other threads make and destroy theirs meanwhile.
OwnContext ==
  \A t \in Threads :
    Holds(t) => Current(stack[t]) = obj[t] /\ obj[t] \in live

\* Nothing is left behind: a probe context, and the NVENC session on it, exist
\* only while the probe is at that device; an object's context exists only
\* while the object does; and a destroyed context that is still on a stack can
\* only be an encoder's.
NothingLeft ==
  /\ \A t \in Threads :
       /\ t \in live <=> pc[t] \in ProbeHolds
       /\ DestroySlot => (t \in sessions <=> pc[t] \in SessionSteps)
       /\ \A i \in DOMAIN stack[t] : stack[t][i] \in live \cup Encoders
  /\ \A o \in Objects :
       o \in live <=> \/ phase[o] = "ready"
                      \/ \E t \in Threads : obj[t] = o /\ pc[t] \in MakeHolds

\* What a row says of a codec is true of the device the row is about, rows are
\* in the order of the ordinals, and if no driver call has failed every device
\* has its row, at its ordinal, and nothing it can do is missing.
Complete(r) ==
  /\ r.decode = (r.device \in Decodes) /\ r.encode = (r.device \in Encodes)
  /\ r.ten = \/ r.device \in Decodes \cap Decodes10
             \/ r.device \in Encodes \cap Encodes10
RowsTruthful ==
  \A t \in Threads :
    /\ \A k \in DOMAIN rows[t] :
         LET r == rows[t][k] IN
           /\ r.decode => r.device \in Decodes
           /\ r.encode => r.device \in Encodes
           /\ r.ten => r.device \in Decodes10 \cup Encodes10
           /\ faults = 0 => r.device = k - 1 /\ Complete(r)
    /\ \A j, k \in DOMAIN rows[t] :
         j < k => rows[t][j].device < rows[t][k].device
    /\ faults = 0 => Len(rows[t]) = index[t]

\* decoder.rs has it that device_index "matches the index in the engine_info
\* result": row k would be about ordinal k, counting from 0.
RowIsOrdinal ==
  \A t \in Threads : \A k \in DOMAIN rows[t] : rows[t][k].device = k - 1

\* By its comment the VP9 factory "surfaces Error::Unsupported if VP9 isn't
\* decodable on the selected device".
PrecheckedDevice ==
  \A d \in Prechecked : phase[d] = "ready" => device[d] \in Decodes
=============================================================================
