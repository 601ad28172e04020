------------------------------- MODULE Errors -------------------------------
(***************************************************************************)
(* The two classifications of driver errors (src/src/device.rs): NvError   *)
(* looks at its code and its message, CudaErrorKind only at the code; and  *)
(* what the factories make of them. A CUresult is an integer; of a message *)
(* it matters only whether it contains one of the phrases that NvError     *)
(* looks for ("dlopen", "dlsym", "not available", "no CUDA"). All          *)
(* definitions are functions of their arguments, and TLAPS proves what is  *)
(* said of them for every code.                                            *)
(***************************************************************************)
EXTENDS Integers, TLAPS

NvError(code, phrase) == [code |-> code, phrase |-> phrase]
NvErrors == [code : Int, phrase : BOOLEAN]

\* from_str: the libraries or symbols are missing, or the device count is
\* negative; the loader's own messages name dlopen or dlsym.
from_str(phrase) == NvError(-1, phrase)

is_unavailable(e) == e.code \in {100, -1} \/ e.phrase

Kind(name) == [kind |-> name]
Other(code) == [kind |-> "Other", code |-> code]

\* The arms of the match.
Arms ==
  {<<0, "Success">>, <<-1, "FrameworkLoad">>, <<1, "InvalidValue">>,
   <<2, "OutOfMemory">>, <<3, "NotInitialized">>, <<4, "Deinitialized">>,
   <<100, "NoDevice">>, <<101, "InvalidDevice">>, <<201, "InvalidContext">>,
   <<800, "NotPermitted">>, <<801, "NotSupported">>, <<999, "Unknown">>}
Named(code) == \E arm \in Arms : arm[1] = code
Arm(code) == CHOOSE arm \in Arms : arm[1] = code
from_cu(code) == IF Named(code) THEN Kind(Arm(code)[2]) ELSE Other(code)

Codes ==
  [Success |-> 0, FrameworkLoad |-> -1, InvalidValue |-> 1, OutOfMemory |-> 2,
   NotInitialized |-> 3, Deinitialized |-> 4, NoDevice |-> 100,
   InvalidDevice |-> 101, InvalidContext |-> 201, NotPermitted |-> 800,
   NotSupported |-> 801, Unknown |-> 999]
as_code(k) == IF k.kind = "Other" THEN k.code ELSE Codes[k.kind]

kind_is_unavailable(k) == k.kind \in {"FrameworkLoad", "NoDevice", "NotInitialized"}

\* map_unsupported of decoder.rs and of encoder.rs: the error a factory
\* answers when init, device_count, device or create_context_for fails.
decoder_map_unsupported(e) == "unsupported"
encoder_map_unsupported(e) == IF is_unavailable(e) THEN "unsupported" ELSE "other"

-----------------------------------------------------------------------------
(* Facts                                                                   *)

\* No code is lost, and no two codes share a kind: the typed view of a code
\* gives the code back, whatever number a driver answers (device.rs, as_code:
\* "Round-trip back to the raw CUresult").
RoundTrips == \A code \in Int : as_code(from_cu(code)) = code

THEOREM RoundTrip == RoundTrips
<1> SUFFICES ASSUME NEW code \in Int PROVE as_code(from_cu(code)) = code
  BY DEF RoundTrips
<1>1. CASE Named(code)
  <2>1. Arm(code) \in Arms /\ Arm(code)[1] = code
    BY <1>1 DEF Named, Arm
  <2>2. \A arm \in Arms : arm[2] # "Other" /\ Codes[arm[2]] = arm[1]
    BY DEF Arms, Codes
  <2>3. QED
    BY <1>1, <2>1, <2>2 DEF as_code, from_cu, Kind
<1>2. CASE ~Named(code)
  BY <1>2 DEF as_code, from_cu, Other
<1>3. QED
  BY <1>1, <1>2

\* The two predicates that share the name is_unavailable agree on an error
\* exactly if it is not NotInitialized (only the typed one counts it, unless
\* the message does) and no message alone makes it unavailable.
AnaloguesAgree ==
  \A e \in NvErrors :
    (is_unavailable(e) <=> kind_is_unavailable(from_cu(e.code)))
      <=> IF e.code = 3 THEN e.phrase ELSE e.phrase => e.code \in {100, -1}

THEOREM Analogues == AnaloguesAgree
<1> SUFFICES ASSUME NEW e \in NvErrors
             PROVE  (is_unavailable(e) <=> kind_is_unavailable(from_cu(e.code)))
                      <=> IF e.code = 3 THEN e.phrase
                          ELSE e.phrase => e.code \in {100, -1}
  BY DEF AnaloguesAgree
<1>1. e.code \in Int /\ e.phrase \in BOOLEAN
  BY DEF NvErrors
<1>2. kind_is_unavailable(from_cu(e.code)) <=> e.code \in {-1, 3, 100}
  <2>1. CASE Named(e.code)
    <3>1. Arm(e.code) \in Arms /\ Arm(e.code)[1] = e.code
      BY <2>1 DEF Named, Arm
    <3>2. \A arm \in Arms :
            arm[2] \in {"FrameworkLoad", "NoDevice", "NotInitialized"}
              <=> arm[1] \in {-1, 3, 100}
      BY DEF Arms
    <3>3. QED
      BY <2>1, <3>1, <3>2 DEF kind_is_unavailable, from_cu, Kind
  <2>2. CASE ~Named(e.code)
    <3>1. e.code \notin {-1, 3, 100}
      BY <2>2 DEF Named, Arms
    <3>2. QED
      BY <3>1, <2>2 DEF kind_is_unavailable, from_cu, Other
  <2>3. QED
    BY <2>1, <2>2
<1>3. is_unavailable(e) <=> (e.code \in {100, -1} \/ e.phrase)
  BY DEF is_unavailable
<1>4. QED
  BY <1>1, <1>2, <1>3

\* A missing library or symbol makes either factory answer "unsupported", the
\* answer on which the registry falls back; for the other failures of the
\* driver, a device that is gone for one, only the decoder's does.
FallBacks ==
  /\ \A phrase \in BOOLEAN :
       encoder_map_unsupported(from_str(phrase))
         = decoder_map_unsupported(from_str(phrase))
  /\ encoder_map_unsupported(NvError(101, FALSE))
       # decoder_map_unsupported(NvError(101, FALSE))

THEOREM FallBack == FallBacks
  BY DEF FallBacks, encoder_map_unsupported, decoder_map_unsupported,
         from_str, NvError, is_unavailable
=============================================================================
