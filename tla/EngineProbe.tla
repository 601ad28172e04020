----------------------------- MODULE EngineProbe -----------------------------
(***************************************************************************)
(* The engine probe (src/src/engine.rs): engine_info walks the devices,    *)
(* makes a context on each, asks NVDEC and NVENC what they can do for a    *)
(* codec, and gathers one row per device. It runs on a client's thread,    *)
(* whose context stack it shares with everything else that runs there, and *)
(* several threads may probe at once.                                      *)
(* One codec of the tables stands for all: the queries of different codecs *)
(* do not meet. Of its limits the row has "10 bits deep"; width and height *)
(* are widened in the same way. Names, memory and versions are left out.   *)
(* The context that thread t makes for a device is called t.               *)
(***************************************************************************)
EXTENDS Naturals, Sequences, CudaContexts

CONSTANTS
  Threads,
  Objects,          \* decoders and encoders, each named like its context
  Count,            \* what cuDeviceGetCount answers
  Decodes, Decodes10,   \* ordinals whose NVDEC takes the codec at 8, at 10 bits
  Encodes, Encodes10,   \* the same for NVENC
  DestroySlot,      \* nvEncDestroyEncoder is in the function table
  MaxFaults         \* bound: driver calls that fail though they could succeed

Ordinals == 0..(Count - 1)
Contexts == Threads \cup Objects

ASSUME ProbeAssumption ==
  /\ Count \in Nat /\ MaxFaults \in Nat /\ DestroySlot \in BOOLEAN
  /\ Decodes \cup Decodes10 \cup Encodes \cup Encodes10 \subseteq Ordinals
  /\ NoContext \notin Contexts /\ Threads \cap Objects = {}

VARIABLES
  stack,            \* [Threads -> sequence of contexts]
  live,             \* contexts that exist
  device,           \* the ordinal a context was made for
  sessions,         \* probe contexts with an open NVENC session
  faults,           \* calls that failed so far
  pc, obj,          \* of each thread: its step, and the owner it works for
  index, row, rows  \* i, the row being filled, and `out' of engine_info

driverVars == <<stack, live, device, sessions>>
probeVars == <<index, row, rows>>

Goto(t, step) == pc' = [pc EXCEPT ![t] = step] /\ UNCHANGED obj
Enter(t, o, step) ==
  pc' = [pc EXCEPT ![t] = step] /\ obj' = [obj EXCEPT ![t] = o]
Return(t) == Enter(t, t, "idle")
Fail == faults < MaxFaults /\ faults' = faults + 1

Blank(i) == [device |-> i, decode |-> FALSE, encode |-> FALSE, ten |-> FALSE]
Rows == [device : Nat, decode : BOOLEAN, encode : BOOLEAN, ten : BOOLEAN]

ProbeInit ==
  /\ stack = [t \in Threads |-> <<>>] /\ live = {} /\ sessions = {}
  /\ device = [c \in Contexts |-> 0]
  /\ faults = 0
  /\ pc = [t \in Threads |-> "idle"] /\ obj = [t \in Threads |-> t]
  /\ index = [t \in Threads |-> 0] /\ row = [t \in Threads |-> Blank(0)]
  /\ rows = [t \in Threads |-> <<>>]

-----------------------------------------------------------------------------
(* Contexts.                                                               *)

\* A change that would break OwnContext: make the context without the push.
CreateUnbound(t, c, i) ==
  /\ live' = live \cup {c} /\ device' = [device EXCEPT ![c] = i]
  /\ UNCHANGED <<stack, sessions>>
CreateContext(t, c, i) ==
  /\ live' = live \cup {c} /\ device' = [device EXCEPT ![c] = i]
  /\ stack' = PushOn(stack, t, c)
  /\ UNCHANGED sessions

DestroyContext(t, c) ==
  /\ live' = live \ {c} /\ device' = [device EXCEPT ![c] = 0]
  /\ stack' = DestroyOn(stack, t, c)
  /\ UNCHANGED sessions

\* nvdec_caps names no context: cuvidGetDecoderCaps answers for the one that
\* is current on the thread, and is an error when there is none.
Answers(t) == Current(stack[t]) \in live
Asked(t) == device[Current(stack[t])]
CapsYes(t, able) == Answers(t) /\ Asked(t) \in able /\ UNCHANGED faults
CapsNo(t, able) == Answers(t) /\ Asked(t) \notin able /\ UNCHANGED faults
CapsError(t) == IF Answers(t) THEN Fail ELSE UNCHANGED faults

-----------------------------------------------------------------------------
(* engine_info.                                                            *)

EngineInfo(t) ==
  /\ pc[t] = "idle" /\ Enter(t, t, "device")
  /\ UNCHANGED <<driverVars, faults, probeVars>>

\* Cuda::init or device_count answers an error: no rows.
EngineInfoFails(t) ==
  /\ pc[t] = "idle" /\ Fail
  /\ UNCHANGED <<driverVars, pc, obj, probeVars>>

\* cuda.device, device.name or create_context_for fails: the device is left
\* out, and nothing says so.
SkipDevice(t) ==
  /\ pc[t] = "device" /\ index[t] < Count /\ Fail
  /\ index' = [index EXCEPT ![t] = @ + 1]
  /\ UNCHANGED <<driverVars, pc, obj, row, rows>>

\* A change that would break TypeOK: count from 0 up to and including Count.
OneMore(t) == index[t] <= Count
MoreDevices(t) == index[t] < Count

ProbeDevice(t) ==
  /\ pc[t] = "device" /\ MoreDevices(t) /\ Goto(t, "decode8")
  /\ CreateContext(t, t, index[t])
  /\ row' = [row EXCEPT ![t] = Blank(index[t])]
  /\ UNCHANGED <<faults, index, rows>>

\* The caller takes the rows; the locals go.
EngineInfoDone(t) ==
  /\ pc[t] = "device" /\ index[t] = Count /\ Return(t)
  /\ index' = [index EXCEPT ![t] = 0] /\ rows' = [rows EXCEPT ![t] = <<>>]
  /\ UNCHANGED <<driverVars, faults, row>>

-----------------------------------------------------------------------------
(* probe_decode: 8 bits, and 10 bits only if 8 are supported.              *)

ProbeDecode(t) ==
  /\ pc[t] = "decode8"
  /\ \/ /\ CapsYes(t, Decodes)
        /\ row' = [row EXCEPT ![t].decode = TRUE] /\ Goto(t, "decode10")
     \/ /\ CapsNo(t, Decodes) \/ CapsError(t)
        /\ Goto(t, "open") /\ UNCHANGED row
  /\ UNCHANGED <<driverVars, index, rows>>

ProbeDecode10(t) ==
  /\ pc[t] = "decode10" /\ Goto(t, "open")
  /\ \/ CapsYes(t, Decodes10) /\ row' = [row EXCEPT ![t].ten = TRUE]
     \/ (CapsNo(t, Decodes10) \/ CapsError(t)) /\ UNCHANGED row
  /\ UNCHANGED <<driverVars, index, rows>>

-----------------------------------------------------------------------------
(* annotate_encode: a throwaway session on the probe's own context, closed *)
(* by SessionGuard on every way out.                                       *)

\* The function table, its open slot, or the session itself is refused.
OpenFails(t) ==
  /\ pc[t] = "open" /\ Fail /\ Goto(t, "drop")
  /\ UNCHANGED <<driverVars, probeVars>>

OpenSession(t) ==
  /\ pc[t] = "open" /\ Goto(t, "guids")
  /\ sessions' = sessions \cup {t}
  /\ UNCHANGED <<stack, live, device, faults, probeVars>>

\* A change that would break NothingLeft: return the error without the guard.
LeaveOpen(t) == Goto(t, "drop")
CloseNext(t) == Goto(t, "close")

\* The enumeration fails, or nvEncGetEncodeCaps is not in the table.
GuidsFail(t) ==
  /\ pc[t] = "guids" /\ Fail /\ CloseNext(t)
  /\ UNCHANGED <<driverVars, probeVars>>

EnumerateGuids(t) ==
  /\ pc[t] = "guids"
  /\ IF device[t] \in Encodes
       THEN row' = [row EXCEPT ![t].encode = TRUE] /\ Goto(t, "caps")
       ELSE CloseNext(t) /\ UNCHANGED row
  /\ UNCHANGED <<driverVars, faults, index, rows>>

\* A change that would break RowsTruthful: overwrite what NVDEC answered.
Overwrite(t) == [row EXCEPT ![t].ten = (device[t] \in Encodes10)]
\* "Only widen, never narrow".
Widen(t) == [row EXCEPT ![t].ten = @ \/ device[t] \in Encodes10]

GetCaps(t) ==
  /\ pc[t] = "caps" /\ Goto(t, "close")
  /\ \/ row' = Widen(t) /\ UNCHANGED faults
     \/ Fail /\ UNCHANGED row
  /\ UNCHANGED <<driverVars, index, rows>>

CloseSession(t) ==
  /\ pc[t] = "close" /\ Goto(t, "drop")
  /\ sessions' = IF DestroySlot THEN sessions \ {t} ELSE sessions
  /\ UNCHANGED <<stack, live, device, faults, probeVars>>

\* The end of probe_device: the context is dropped, then the row is pushed.
ProbeDeviceDone(t) ==
  /\ pc[t] = "drop" /\ Goto(t, "device")
  /\ DestroyContext(t, t)
  /\ rows' = [rows EXCEPT ![t] = Append(@, row[t])]
  /\ index' = [index EXCEPT ![t] = @ + 1]
  /\ UNCHANGED <<faults, row>>

ProbeStep(t) ==
  \/ SkipDevice(t) \/ ProbeDevice(t) \/ EngineInfoDone(t)
  \/ ProbeDecode(t) \/ ProbeDecode10(t)
  \/ OpenFails(t) \/ OpenSession(t) \/ GuidsFail(t) \/ EnumerateGuids(t)
  \/ GetCaps(t) \/ CloseSession(t) \/ ProbeDeviceDone(t)
=============================================================================
