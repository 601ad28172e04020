-------------------------- MODULE SharedThreadProofs --------------------------
(***************************************************************************)
(* Proofs about SharedThread for any number of threads, decoders, encoders *)
(* and devices, any devices' abilities and any number of failing calls.    *)
(* The inductive invariant has one part per concern:                       *)
(*   Owners    whom a thread works for at which step;                      *)
(*   Alone     no two threads work for the same object;                    *)
(*   StackKept the context stacks (inductive with the two above);          *)
(*   Exist     which contexts and sessions exist;                          *)
(*   RowSound  what the row in hand and the finished rows say.             *)
(***************************************************************************)
EXTENDS SharedThread, SequenceTheorems, TLAPS

ProbeSteps == {"idle", "device"} \cup ProbeHolds
MakeSteps == {"precheck", "select"} \cup MakeHolds

OwnerOf(t) ==
  /\ pc[t] \in ProbeSteps => obj[t] = t
  /\ pc[t] \in MakeSteps => obj[t] \in Objects /\ phase[obj[t]] = "none"
  /\ pc[t] \in {"parser", "pop"} => obj[t] \in Decoders
  /\ pc[t] = "session" => obj[t] \in Encoders
  /\ pc[t] \in Guarded \cup {"drop_ctx"} =>
       obj[t] \in Decoders /\ phase[obj[t]] = "ready"
  /\ bound[t] => pc[t] \in Guarded
  /\ pc[t] \in ProbeHolds => index[t] < Count
Owners == \A t \in Threads : OwnerOf(t)

Alone ==
  \A t, u \in Threads :
    t # u /\ pc[t] # "idle" /\ pc[u] # "idle" => obj[t] # obj[u]

-----------------------------------------------------------------------------
(* The context stacks.                                                     *)

\* Popping what was just pushed gives the sequence back, and what was just
\* pushed is current: the facts every push and pop here rests on.
LEMMA PopPushed ==
  ASSUME NEW S, NEW s \in Seq(S), NEW c \in S
  PROVE  /\ Append(s, c) \in Seq(S)
         /\ Current(Append(s, c)) = c
         /\ SubSeq(Append(s, c), 1, Len(Append(s, c)) - 1) = s
<1>1. /\ Append(s, c) \in Seq(S) /\ Append(s, c) # <<>>
      /\ Len(Append(s, c)) = Len(s) + 1 /\ Append(s, c)[Len(s) + 1] = c
  BY AppendProperties
<1>2. SubSeq(Append(s, c), 1, Len(s)) = s
  BY HeadTailAppend, AppendProperties, LenProperties
<1>3. QED
  BY <1>1, <1>2, LenProperties DEF Current

\* The driver's operations keep stacks typed.
LEMMA StackTypes ==
  ASSUME NEW S, NEW s \in [Threads -> Seq(S)], NEW t \in Threads, NEW c
  PROVE  /\ c \in S => PushOn(s, t, c) \in [Threads -> Seq(S)]
         /\ PopFrom(s, t) \in [Threads -> Seq(S)]
         /\ DestroyOn(s, t, c) \in [Threads -> Seq(S)]
<1>1. s[t] \in Seq(S)
  OBVIOUS
<1>2. SubSeq(s[t], 1, Len(s[t]) - 1) \in Seq(S)
  BY <1>1, SubSeqProperties, LenProperties, EmptySeq
<1>3. c \in S => Append(s[t], c) \in Seq(S)
  BY <1>1, AppendProperties
<1>4. PopFrom(s, t) \in [Threads -> Seq(S)]
  BY <1>2 DEF PopFrom
<1>5. QED
  BY <1>3, <1>4 DEF PushOn, DestroyOn

\* What is current on a stack.
LEMMA CurrentType ==
  ASSUME NEW S, NEW s \in Seq(S)
  PROVE  Current(s) \in S \cup {NoContext}
BY ElementOfSeq, LenProperties, EmptySeq DEF Current

\* Filling in a row keeps it one.
LEMMA RowTypes ==
  ASSUME NEW r \in [Threads -> Rows], NEW t \in Threads, NEW b \in BOOLEAN
  PROVE  /\ [r EXCEPT ![t].decode = TRUE] \in [Threads -> Rows]
         /\ [r EXCEPT ![t].encode = TRUE] \in [Threads -> Rows]
         /\ [r EXCEPT ![t].ten = TRUE] \in [Threads -> Rows]
         /\ [r EXCEPT ![t].ten = @ \/ b] \in [Threads -> Rows]
BY DEF Rows

-----------------------------------------------------------------------------
(* Types, and whom a thread works for.                                     *)

LEMMA TypeInit == Init => TypeOK
BY ProbeAssumption, EmptySeq
   DEF Init, ProbeInit, TypeOK, Contexts, Blank, Rows, Steps

LEMMA TypeStep == TypeOK /\ Owners /\ [Next]_vars => TypeOK'
<1> SUFFICES ASSUME TypeOK, Owners, [Next]_vars PROVE TypeOK'
  OBVIOUS
<1> USE ProbeAssumption, ObjectAssumption
<1> USE DEF TypeOK, Steps, ProbeHolds, SessionSteps, MakeHolds, Guarded, Contexts,
            driverVars, probeVars, objectVars
<1>1. ASSUME NEW t \in Threads, EngineInfo(t), UNCHANGED objectVars PROVE TypeOK'
  BY <1>1 DEF EngineInfo, Enter
<1>2. ASSUME NEW t \in Threads, EngineInfoFails(t), UNCHANGED objectVars PROVE TypeOK'
  BY <1>2 DEF EngineInfoFails, Fail
<1>3. ASSUME NEW t \in Threads, SkipDevice(t), UNCHANGED objectVars PROVE TypeOK'
  BY <1>3, SMTT(30) DEF SkipDevice, Fail
<1>4. ASSUME NEW t \in Threads, ProbeDevice(t), UNCHANGED objectVars PROVE TypeOK'
  <2>1. stack' \in [Threads -> Seq(Contexts)]
    BY <1>4, StackTypes DEF ProbeDevice, CreateContext
  <2>2. row' \in [Threads -> Rows]
    BY <1>4 DEF ProbeDevice, Blank, Rows
  <2>3. device' \in [Contexts -> 0..Count]
    BY <1>4 DEF ProbeDevice, MoreDevices, CreateContext
  <2>4. QED
    BY <1>4, <2>1, <2>2, <2>3 DEF ProbeDevice, Goto, CreateContext,
         MoreDevices
<1>5. ASSUME NEW t \in Threads, EngineInfoDone(t), UNCHANGED objectVars PROVE TypeOK'
  BY <1>5, EmptySeq DEF EngineInfoDone, Return, Enter
<1>6. ASSUME NEW t \in Threads, ProbeDecode(t), UNCHANGED objectVars PROVE TypeOK'
  <2>1. faults' \in 0..MaxFaults
    BY <1>6 DEF ProbeDecode, CapsYes, CapsNo, CapsError, Fail
  <2>2. row' \in [Threads -> Rows]
    <3>1. [row EXCEPT ![t].decode = TRUE] \in [Threads -> Rows]
      BY RowTypes
    <3>2. row' = row \/ row' = [row EXCEPT ![t].decode = TRUE]
      BY <1>6 DEF ProbeDecode
    <3>3. QED
      BY <3>1, <3>2
  <2>3. QED
    BY <1>6, <2>1, <2>2 DEF ProbeDecode, Goto
<1>7. ASSUME NEW t \in Threads, ProbeDecode10(t), UNCHANGED objectVars PROVE TypeOK'
  <2>1. faults' \in 0..MaxFaults
    BY <1>7 DEF ProbeDecode10, CapsYes, CapsNo, CapsError, Fail
  <2>2. row' \in [Threads -> Rows]
    <3>1. [row EXCEPT ![t].ten = TRUE] \in [Threads -> Rows]
      BY RowTypes
    <3>2. row' = row \/ row' = [row EXCEPT ![t].ten = TRUE]
      BY <1>7 DEF ProbeDecode10
    <3>3. QED
      BY <3>1, <3>2
  <2>3. QED
    BY <1>7, <2>1, <2>2 DEF ProbeDecode10, Goto
<1>8. ASSUME NEW t \in Threads, OpenFails(t), UNCHANGED objectVars PROVE TypeOK'
  BY <1>8, SMTT(30) DEF OpenFails, Fail, Goto
<1>9. ASSUME NEW t \in Threads, OpenSession(t), UNCHANGED objectVars PROVE TypeOK'
  BY <1>9 DEF OpenSession, Goto
<1>10. ASSUME NEW t \in Threads, GuidsFail(t), UNCHANGED objectVars PROVE TypeOK'
  BY <1>10, SMTT(30) DEF GuidsFail, CloseNext, Fail, Goto
<1>11. ASSUME NEW t \in Threads, EnumerateGuids(t), UNCHANGED objectVars PROVE TypeOK'
  <2>1. row' \in [Threads -> Rows]
    <3>1. [row EXCEPT ![t].encode = TRUE] \in [Threads -> Rows]
      BY RowTypes
    <3>2. row' = row \/ row' = [row EXCEPT ![t].encode = TRUE]
      BY <1>11 DEF EnumerateGuids
    <3>3. QED
      BY <3>1, <3>2
  <2>2. QED
    BY <1>11, <2>1, ZenonT(40) DEF EnumerateGuids, CloseNext, Goto
<1>12. ASSUME NEW t \in Threads, GetCaps(t), UNCHANGED objectVars PROVE TypeOK'
  <2>1. row' \in [Threads -> Rows]
    <3>1. [row EXCEPT ![t].ten = @ \/ device[t] \in Encodes10] \in [Threads -> Rows]
      BY RowTypes
    <3>2. row' = row \/ row' = [row EXCEPT ![t].ten = @ \/ device[t] \in Encodes10]
      BY <1>12 DEF GetCaps, Widen
    <3>3. QED
      BY <3>1, <3>2
  <2>2. faults' \in 0..MaxFaults
    BY <1>12 DEF GetCaps, Fail
  <2>3. QED
    BY <1>12, <2>1, <2>2 DEF GetCaps, Goto
<1>13. ASSUME NEW t \in Threads, CloseSession(t), UNCHANGED objectVars PROVE TypeOK'
  BY <1>13 DEF CloseSession, Goto
<1>14. ASSUME NEW t \in Threads, ProbeDeviceDone(t), UNCHANGED objectVars PROVE TypeOK'
  <2>1. stack' \in [Threads -> Seq(Contexts)]
    BY <1>14, StackTypes DEF ProbeDeviceDone, DestroyContext
  <2>2. rows' \in [Threads -> Seq(Rows)]
    BY <1>14, AppendProperties DEF ProbeDeviceDone
  <2>3. device' \in [Contexts -> 0..Count]
    BY <1>14 DEF ProbeDeviceDone, DestroyContext
  <2>4. index' \in [Threads -> 0..Count]
    BY <1>14 DEF ProbeDeviceDone, Owners, OwnerOf
  <2>5. QED
    BY <1>14, <2>1, <2>2, <2>3, <2>4 DEF ProbeDeviceDone, DestroyContext, Goto
<1>15. ASSUME NEW t \in Threads, Precheck(t) PROVE TypeOK'
  <2>1. faults' \in 0..MaxFaults
    BY <1>15 DEF Precheck, CapsYes, CapsError, Fail
  <2>2. QED
    BY <1>15, <2>1 DEF Precheck, Goto
<1>16. ASSUME NEW t \in Threads, PrecheckRefuses(t) PROVE TypeOK'
  <2>1. faults' \in 0..MaxFaults
    BY <1>16 DEF PrecheckRefuses, CapsNo
  <2>2. device' \in [Contexts -> 0..Count]
    BY <1>16 DEF PrecheckRefuses, Refuse
  <2>3. QED
    BY <1>16, <2>1, <2>2 DEF PrecheckRefuses, Refuse, Return, Enter, Become
<1>17. ASSUME NEW t \in Threads, SelectRefuses(t) PROVE TypeOK'
  <2>1. faults' \in 0..MaxFaults
    BY <1>17 DEF SelectRefuses, Fail
  <2>2. device' \in [Contexts -> 0..Count]
    BY <1>17 DEF SelectRefuses, Refuse
  <2>3. QED
    BY <1>17, <2>1, <2>2 DEF SelectRefuses, Refuse, Return, Enter, Become
<1>18. ASSUME NEW t \in Threads, Select(t) PROVE TypeOK'
  <2>1. obj[t] \in Contexts
    OBVIOUS
  <2>2. PushOn(stack, t, obj[t]) \in [Threads -> Seq(Contexts)]
    BY <2>1, StackTypes
  <2>3. /\ stack' \in [Threads -> Seq(Contexts)] /\ live' \subseteq Contexts
        /\ device' \in [Contexts -> 0..Count]
    BY <1>18, <2>1, <2>2 DEF Select, CreateContext
  <2>4. pc' \in [Threads -> Steps]
    BY <1>18 DEF Select, Goto
  <2>5. QED
    BY <1>18, <2>3, <2>4 DEF Select, CreateContext, Goto
<1>19. ASSUME NEW t \in Threads, MakeFails(t) PROVE TypeOK'
  <2>1. stack' \in [Threads -> Seq(Contexts)]
    BY <1>19, StackTypes DEF MakeFails, DestroyContext
  <2>2. device' \in [Contexts -> 0..Count]
    BY <1>19 DEF MakeFails, DestroyContext
  <2>3. faults' \in 0..MaxFaults
    BY <1>19 DEF MakeFails, Fail
  <2>4. QED
    BY <1>19, <2>1, <2>2, <2>3 DEF MakeFails, DestroyContext, Refuse, Return,
         Enter, Become
<1>20. ASSUME NEW t \in Threads, MakeParser(t) PROVE TypeOK'
  BY <1>20 DEF MakeParser, Goto
<1>21. ASSUME NEW t \in Threads, PopCreation(t) PROVE TypeOK'
  <2>1. stack' \in [Threads -> Seq(Contexts)]
    BY <1>21, StackTypes DEF PopCreation
  <2>2. QED
    BY <1>21, <2>1 DEF PopCreation, Return, Enter, Become
<1>22. ASSUME NEW t \in Threads, MakeEncoder(t) PROVE TypeOK'
  <2>1. left' \in [Threads -> Seq(Encoders)]
    BY <1>22, AppendProperties DEF MakeEncoder, Owners, OwnerOf
  <2>2. QED
    BY <1>22, <2>1 DEF MakeEncoder, Return, Enter, Become
<1>23. ASSUME NEW t \in Threads, Unbind(t) PROVE TypeOK'
  <2>1. stack' \in [Threads -> Seq(Contexts)]
    BY <1>23, StackTypes DEF Unbind
  <2>2. CASE pc[t] = "work"
    <3>1. pc' = [pc EXCEPT ![t] = "idle"] /\ obj' = [obj EXCEPT ![t] = t]
      BY <1>23, <2>2 DEF Unbind, Return, Enter
    <3>2. QED
      BY <1>23, <2>1, <3>1 DEF Unbind
  <2>3. CASE pc[t] = "destroy"
    BY <1>23, <2>1, <2>3, ZenonT(40) DEF Unbind, Goto
  <2>4. QED
    BY <1>23, <2>2, <2>3 DEF Unbind
<1>24. ASSUME NEW t \in Threads, DropDecoder(t) PROVE TypeOK'
  <2>1. stack' \in [Threads -> Seq(Contexts)]
    BY <1>24, StackTypes DEF DropDecoder, DestroyContext
  <2>2. device' \in [Contexts -> 0..Count]
    BY <1>24 DEF DropDecoder, DestroyContext
  <2>3. QED
    BY <1>24, <2>1, <2>2 DEF DropDecoder, Return, Enter, Become,
         DestroyContext
<1>25. ASSUME NEW t \in Threads, NEW o \in Objects, NEW i \in 0..Count, Make(t, o, i)
      PROVE  TypeOK'
  BY <1>25 DEF Make, Enter
<1>26. ASSUME NEW t \in Threads, NEW d \in Decoders, NEW step \in Guarded, Bind(t, d, step)
      PROVE  TypeOK'
  <2>1. stack' \in [Threads -> Seq(Contexts)]
    <3>1. PushOn(stack, t, d) \in [Threads -> Seq(Contexts)]
      BY StackTypes
    <3>2. QED
      BY <1>26, <3>1 DEF Bind
  <2>2. faults' \in 0..MaxFaults
    BY <1>26 DEF Bind, Fail
  <2>3. QED
    BY <1>26, <2>1, <2>2 DEF Bind, Enter
<1>27. ASSUME NEW t \in Threads, NEW e \in Encoders, DropEncoder(t, e) PROVE TypeOK'
  <2>1. stack' \in [Threads -> Seq(Contexts)]
    BY <1>27, StackTypes DEF DropEncoder, DestroyContext
  <2>2. left' \in [Threads -> Seq(Encoders)]
    BY <1>27, StackTypes DEF DropEncoder
  <2>3. device' \in [Contexts -> 0..Count]
    BY <1>27 DEF DropEncoder, DestroyContext, Encoders
  <2>4. QED
    BY <1>27, <2>1, <2>2, <2>3 DEF DropEncoder, DestroyContext
<1>28. CASE UNCHANGED vars
  BY <1>28 DEF vars
<1> HIDE DEF TypeOK, Steps, ProbeHolds, SessionSteps, MakeHolds, Guarded, Contexts,
            driverVars, probeVars, objectVars
<1>29. QED
  BY <1>1, <1>2, <1>3, <1>4, <1>5, <1>6, <1>7, <1>8, <1>9, <1>10, <1>11,
     <1>12, <1>13, <1>14, <1>15, <1>16, <1>17, <1>18, <1>19, <1>20, <1>21,
     <1>22, <1>23, <1>24, <1>25, <1>26, <1>27, <1>28
     DEF Next, Client, Running, ObjectStep, ProbeStep, Guarded

LEMMA OwnersInit == Init => Owners
BY DEF Init, ProbeInit, Owners, OwnerOf, ProbeSteps, MakeSteps, ProbeHolds, MakeHolds,
       SessionSteps, Guarded

LEMMA OwnersStep == TypeOK /\ Owners /\ Alone /\ [Next]_vars => Owners'
<1> SUFFICES ASSUME TypeOK, Owners, Alone, [Next]_vars, NEW u \in Threads
             PROVE  OwnerOf(u)'
  BY DEF Owners
<1>0. /\ pc \in [Threads -> Steps] /\ obj \in [Threads -> Contexts]
      /\ index \in [Threads -> 0..Count] /\ bound \in [Threads -> BOOLEAN]
      /\ phase \in [Objects -> {"none", "ready", "refused", "gone"}]
  BY DEF TypeOK
<1>a. OwnerOf(u) /\ (\A t \in Threads : OwnerOf(t))
  BY DEF Owners
<1>b. \A t \in Threads :
        t # u /\ pc[t] # "idle" /\ pc[u] # "idle" => obj[t] # obj[u]
  BY DEF Alone
<1> USE <1>0, <1>a, <1>b, ProbeAssumption, ObjectAssumption
<1> USE DEF OwnerOf, Owners, Steps, ProbeSteps, MakeSteps, ProbeHolds, MakeHolds,
            SessionSteps, Guarded, Encoders, driverVars, probeVars, objectVars
<1>1. ASSUME NEW t \in Threads, EngineInfo(t), UNCHANGED objectVars PROVE OwnerOf(u)'
  BY <1>1 DEF EngineInfo, Enter
<1>2. ASSUME NEW t \in Threads, EngineInfoFails(t), UNCHANGED objectVars PROVE OwnerOf(u)'
  BY <1>2 DEF EngineInfoFails
<1>3. ASSUME NEW t \in Threads, SkipDevice(t), UNCHANGED objectVars PROVE OwnerOf(u)'
  BY <1>3 DEF SkipDevice
<1>4. ASSUME NEW t \in Threads, ProbeDevice(t), UNCHANGED objectVars PROVE OwnerOf(u)'
  BY <1>4 DEF ProbeDevice, MoreDevices, Goto
<1>5. ASSUME NEW t \in Threads, EngineInfoDone(t), UNCHANGED objectVars PROVE OwnerOf(u)'
  BY <1>5 DEF EngineInfoDone, Return, Enter
<1>6. ASSUME NEW t \in Threads, ProbeDecode(t), UNCHANGED objectVars PROVE OwnerOf(u)'
  BY <1>6 DEF ProbeDecode, Goto
<1>7. ASSUME NEW t \in Threads, ProbeDecode10(t), UNCHANGED objectVars PROVE OwnerOf(u)'
  BY <1>7 DEF ProbeDecode10, Goto
<1>8. ASSUME NEW t \in Threads, OpenFails(t), UNCHANGED objectVars PROVE OwnerOf(u)'
  BY <1>8 DEF OpenFails, Goto
<1>9. ASSUME NEW t \in Threads, OpenSession(t), UNCHANGED objectVars PROVE OwnerOf(u)'
  BY <1>9 DEF OpenSession, Goto
<1>10. ASSUME NEW t \in Threads, GuidsFail(t), UNCHANGED objectVars PROVE OwnerOf(u)'
  BY <1>10 DEF GuidsFail, CloseNext, Goto
<1>11. ASSUME NEW t \in Threads, EnumerateGuids(t), UNCHANGED objectVars PROVE OwnerOf(u)'
  BY <1>11 DEF EnumerateGuids, CloseNext, Goto
<1>12. ASSUME NEW t \in Threads, GetCaps(t), UNCHANGED objectVars PROVE OwnerOf(u)'
  BY <1>12 DEF GetCaps, Goto
<1>13. ASSUME NEW t \in Threads, CloseSession(t), UNCHANGED objectVars PROVE OwnerOf(u)'
  BY <1>13 DEF CloseSession, Goto
<1>14. ASSUME NEW t \in Threads, ProbeDeviceDone(t), UNCHANGED objectVars PROVE OwnerOf(u)'
  BY <1>14 DEF ProbeDeviceDone, Goto, MoreDevices
<1>15. ASSUME NEW t \in Threads, Precheck(t) PROVE OwnerOf(u)'
  BY <1>15 DEF Precheck, Goto
<1>16. ASSUME NEW t \in Threads, PrecheckRefuses(t) PROVE OwnerOf(u)'
  BY <1>16 DEF PrecheckRefuses, Refuse, Return, Enter, Become
<1>17. ASSUME NEW t \in Threads, SelectRefuses(t) PROVE OwnerOf(u)'
  BY <1>17 DEF SelectRefuses, Refuse, Return, Enter, Become
<1>18. ASSUME NEW t \in Threads, Select(t) PROVE OwnerOf(u)'
  BY <1>18 DEF Select, Goto
<1>19. ASSUME NEW t \in Threads, MakeFails(t) PROVE OwnerOf(u)'
  BY <1>19 DEF MakeFails, Refuse, Return, Enter, Become
<1>20. ASSUME NEW t \in Threads, MakeParser(t) PROVE OwnerOf(u)'
  BY <1>20 DEF MakeParser, Goto
<1>21. ASSUME NEW t \in Threads, PopCreation(t) PROVE OwnerOf(u)'
  BY <1>21 DEF PopCreation, Return, Enter, Become
<1>22. ASSUME NEW t \in Threads, MakeEncoder(t) PROVE OwnerOf(u)'
  BY <1>22 DEF MakeEncoder, Return, Enter, Become
<1>23. ASSUME NEW t \in Threads, Unbind(t) PROVE OwnerOf(u)'
  BY <1>23 DEF Unbind, Return, Enter, Goto
<1>24. ASSUME NEW t \in Threads, DropDecoder(t) PROVE OwnerOf(u)'
  BY <1>24 DEF DropDecoder, Return, Enter, Become
<1>25. ASSUME NEW t \in Threads, NEW o \in Objects, NEW i \in 0..Count, Make(t, o, i)
      PROVE  OwnerOf(u)'
  BY <1>25 DEF Make, Enter, Free
<1>26. ASSUME NEW t \in Threads, NEW d \in Decoders, NEW step \in Guarded, Bind(t, d, step)
      PROVE  OwnerOf(u)'
  BY <1>26 DEF Bind, Enter, Free
<1>27. ASSUME NEW t \in Threads, NEW e \in Encoders, DropEncoder(t, e) PROVE OwnerOf(u)'
  BY <1>27 DEF DropEncoder, Free
<1>28. CASE UNCHANGED vars
  BY <1>28 DEF vars
<1> HIDE DEF OwnerOf, Owners, Steps, ProbeSteps, MakeSteps, ProbeHolds, MakeHolds,
            SessionSteps, Guarded, Encoders, driverVars, probeVars, objectVars
<1>29. QED
  BY <1>1, <1>2, <1>3, <1>4, <1>5, <1>6, <1>7, <1>8, <1>9, <1>10, <1>11,
     <1>12, <1>13, <1>14, <1>15, <1>16, <1>17, <1>18, <1>19, <1>20, <1>21,
     <1>22, <1>23, <1>24, <1>25, <1>26, <1>27, <1>28
     DEF Next, Client, Running, ObjectStep, ProbeStep, Guarded

LEMMA AloneInit == Init => Alone
BY DEF Init, ProbeInit, Alone

LEMMA AloneStep == TypeOK /\ Owners /\ Alone /\ [Next]_vars => Alone'
<1> SUFFICES ASSUME TypeOK, Owners, Alone, [Next]_vars,
                    NEW u \in Threads, NEW v \in Threads, u # v
             PROVE  (pc[u] # "idle" /\ pc[v] # "idle" => obj[u] # obj[v])'
  BY DEF Alone
<1>0. pc \in [Threads -> Steps] /\ obj \in [Threads -> Contexts]
  BY DEF TypeOK
<1>a. \A t \in Threads : obj[t] = t \/ obj[t] \in Objects
  BY ObjectAssumption
     DEF TypeOK, Owners, OwnerOf, Steps, ProbeSteps, MakeSteps, ProbeHolds,
         MakeHolds, SessionSteps, Guarded
<1>b. pc[u] # "idle" /\ pc[v] # "idle" => obj[u] # obj[v]
  BY DEF Alone
<1> USE <1>0, <1>a, <1>b, ProbeAssumption, ObjectAssumption
<1> USE DEF driverVars, probeVars, objectVars
<1>1. ASSUME NEW t \in Threads, EngineInfo(t), UNCHANGED objectVars PROVE (pc[u] # "idle" /\ pc[v] # "idle" => obj[u] # obj[v])'
  BY <1>1 DEF EngineInfo, Enter
<1>2. ASSUME NEW t \in Threads, EngineInfoFails(t), UNCHANGED objectVars PROVE (pc[u] # "idle" /\ pc[v] # "idle" => obj[u] # obj[v])'
  BY <1>2 DEF EngineInfoFails
<1>3. ASSUME NEW t \in Threads, SkipDevice(t), UNCHANGED objectVars PROVE (pc[u] # "idle" /\ pc[v] # "idle" => obj[u] # obj[v])'
  BY <1>3 DEF SkipDevice
<1>4. ASSUME NEW t \in Threads, ProbeDevice(t), UNCHANGED objectVars PROVE (pc[u] # "idle" /\ pc[v] # "idle" => obj[u] # obj[v])'
  BY <1>4 DEF ProbeDevice, MoreDevices, Goto
<1>5. ASSUME NEW t \in Threads, EngineInfoDone(t), UNCHANGED objectVars PROVE (pc[u] # "idle" /\ pc[v] # "idle" => obj[u] # obj[v])'
  BY <1>5 DEF EngineInfoDone, Return, Enter
<1>6. ASSUME NEW t \in Threads, ProbeDecode(t), UNCHANGED objectVars PROVE (pc[u] # "idle" /\ pc[v] # "idle" => obj[u] # obj[v])'
  BY <1>6 DEF ProbeDecode, Goto
<1>7. ASSUME NEW t \in Threads, ProbeDecode10(t), UNCHANGED objectVars PROVE (pc[u] # "idle" /\ pc[v] # "idle" => obj[u] # obj[v])'
  BY <1>7 DEF ProbeDecode10, Goto
<1>8. ASSUME NEW t \in Threads, OpenFails(t), UNCHANGED objectVars PROVE (pc[u] # "idle" /\ pc[v] # "idle" => obj[u] # obj[v])'
  BY <1>8 DEF OpenFails, Goto
<1>9. ASSUME NEW t \in Threads, OpenSession(t), UNCHANGED objectVars PROVE (pc[u] # "idle" /\ pc[v] # "idle" => obj[u] # obj[v])'
  BY <1>9 DEF OpenSession, Goto
<1>10. ASSUME NEW t \in Threads, GuidsFail(t), UNCHANGED objectVars PROVE (pc[u] # "idle" /\ pc[v] # "idle" => obj[u] # obj[v])'
  BY <1>10 DEF GuidsFail, CloseNext, Goto
<1>11. ASSUME NEW t \in Threads, EnumerateGuids(t), UNCHANGED objectVars PROVE (pc[u] # "idle" /\ pc[v] # "idle" => obj[u] # obj[v])'
  BY <1>11 DEF EnumerateGuids, CloseNext, Goto
<1>12. ASSUME NEW t \in Threads, GetCaps(t), UNCHANGED objectVars PROVE (pc[u] # "idle" /\ pc[v] # "idle" => obj[u] # obj[v])'
  BY <1>12 DEF GetCaps, Goto
<1>13. ASSUME NEW t \in Threads, CloseSession(t), UNCHANGED objectVars PROVE (pc[u] # "idle" /\ pc[v] # "idle" => obj[u] # obj[v])'
  BY <1>13 DEF CloseSession, Goto
<1>14. ASSUME NEW t \in Threads, ProbeDeviceDone(t), UNCHANGED objectVars PROVE (pc[u] # "idle" /\ pc[v] # "idle" => obj[u] # obj[v])'
  BY <1>14 DEF ProbeDeviceDone, Goto, MoreDevices
<1>15. ASSUME NEW t \in Threads, Precheck(t) PROVE (pc[u] # "idle" /\ pc[v] # "idle" => obj[u] # obj[v])'
  BY <1>15 DEF Precheck, Goto
<1>16. ASSUME NEW t \in Threads, PrecheckRefuses(t) PROVE (pc[u] # "idle" /\ pc[v] # "idle" => obj[u] # obj[v])'
  BY <1>16 DEF PrecheckRefuses, Refuse, Return, Enter, Become
<1>17. ASSUME NEW t \in Threads, SelectRefuses(t) PROVE (pc[u] # "idle" /\ pc[v] # "idle" => obj[u] # obj[v])'
  BY <1>17 DEF SelectRefuses, Refuse, Return, Enter, Become
<1>18. ASSUME NEW t \in Threads, Select(t) PROVE (pc[u] # "idle" /\ pc[v] # "idle" => obj[u] # obj[v])'
  BY <1>18 DEF Select, Goto
<1>19. ASSUME NEW t \in Threads, MakeFails(t) PROVE (pc[u] # "idle" /\ pc[v] # "idle" => obj[u] # obj[v])'
  BY <1>19 DEF MakeFails, Refuse, Return, Enter, Become
<1>20. ASSUME NEW t \in Threads, MakeParser(t) PROVE (pc[u] # "idle" /\ pc[v] # "idle" => obj[u] # obj[v])'
  BY <1>20 DEF MakeParser, Goto
<1>21. ASSUME NEW t \in Threads, PopCreation(t) PROVE (pc[u] # "idle" /\ pc[v] # "idle" => obj[u] # obj[v])'
  BY <1>21 DEF PopCreation, Return, Enter, Become
<1>22. ASSUME NEW t \in Threads, MakeEncoder(t) PROVE (pc[u] # "idle" /\ pc[v] # "idle" => obj[u] # obj[v])'
  BY <1>22 DEF MakeEncoder, Return, Enter, Become
<1>23. ASSUME NEW t \in Threads, Unbind(t) PROVE (pc[u] # "idle" /\ pc[v] # "idle" => obj[u] # obj[v])'
  BY <1>23 DEF Unbind, Return, Enter, Goto
<1>24. ASSUME NEW t \in Threads, DropDecoder(t) PROVE (pc[u] # "idle" /\ pc[v] # "idle" => obj[u] # obj[v])'
  BY <1>24 DEF DropDecoder, Return, Enter, Become
<1>25. ASSUME NEW t \in Threads, NEW o \in Objects, NEW i \in 0..Count, Make(t, o, i)
      PROVE  (pc[u] # "idle" /\ pc[v] # "idle" => obj[u] # obj[v])'
  BY <1>25 DEF Make, Enter, Free
<1>26. ASSUME NEW t \in Threads, NEW d \in Decoders, NEW step \in Guarded, Bind(t, d, step)
      PROVE  (pc[u] # "idle" /\ pc[v] # "idle" => obj[u] # obj[v])'
  BY <1>26 DEF Bind, Enter, Free
<1>27. ASSUME NEW t \in Threads, NEW e \in Encoders, DropEncoder(t, e) PROVE (pc[u] # "idle" /\ pc[v] # "idle" => obj[u] # obj[v])'
  BY <1>27 DEF DropEncoder, Free
<1>28. CASE UNCHANGED vars
  BY <1>28 DEF vars
<1> HIDE DEF driverVars, probeVars, objectVars
<1>29. QED
  BY <1>1, <1>2, <1>3, <1>4, <1>5, <1>6, <1>7, <1>8, <1>9, <1>10, <1>11,
     <1>12, <1>13, <1>14, <1>15, <1>16, <1>17, <1>18, <1>19, <1>20, <1>21,
     <1>22, <1>23, <1>24, <1>25, <1>26, <1>27, <1>28
     DEF Next, Client, Running, ObjectStep, ProbeStep, Guarded

\* Taking the call's own context off restores what was left on the stack.
LEMMA TakenOff ==
  ASSUME TypeOK, StackKept, NEW t \in Threads, Holds(t)
  PROVE  /\ PopFrom(stack, t) = [stack EXCEPT ![t] = left[t]]
         /\ DestroyOn(stack, t, obj[t]) = [stack EXCEPT ![t] = left[t]]
         /\ Current(stack[t]) = obj[t]
<1>1. left[t] \in Seq(Contexts) /\ obj[t] \in Contexts
  <2>1. left[t] \in Seq(Encoders) /\ obj[t] \in Contexts /\ Encoders \subseteq Contexts
    BY DEF TypeOK, Encoders, Contexts
  <2>2. QED
    BY <2>1, SeqMonotonic
<1>2. stack[t] = Append(left[t], obj[t])
  BY DEF StackKept
<1>3. Current(stack[t]) = obj[t] /\ SubSeq(stack[t], 1, Len(stack[t]) - 1) = left[t]
  BY <1>1, <1>2, PopPushed
<1>4. QED
  BY <1>3 DEF PopFrom, DestroyOn

LEMMA StackInit == Init => StackKept
BY DEF Init, ProbeInit, StackKept, Holds, ProbeHolds, MakeHolds, SessionSteps, Guarded

LEMMA StackStep == TypeOK /\ Owners /\ StackKept /\ [Next]_vars => StackKept'
<1> DEFINE Kept(u) == stack[u] = IF Holds(u) THEN Append(left[u], obj[u]) ELSE left[u]
<1> SUFFICES ASSUME TypeOK, Owners, StackKept, [Next]_vars, NEW u \in Threads
             PROVE  Kept(u)'
  BY DEF StackKept
<1>0. /\ pc \in [Threads -> Steps] /\ obj \in [Threads -> Contexts]
      /\ bound \in [Threads -> BOOLEAN]
      /\ DOMAIN stack = Threads /\ DOMAIN left = Threads
  BY DEF TypeOK
<1>a. \A t \in Threads : /\ pc[t] \in ProbeSteps => obj[t] = t
                         /\ bound[t] => pc[t] \in Guarded
  BY DEF Owners, OwnerOf
<1>b. /\ stack = [t \in Threads |-> stack[t]] /\ left = [t \in Threads |-> left[t]]
      /\ Kept(u)
  BY DEF StackKept, TypeOK
<1>c. \A t \in Threads :
        Holds(t) => /\ PopFrom(stack, t) = [stack EXCEPT ![t] = left[t]]
                    /\ DestroyOn(stack, t, obj[t]) = [stack EXCEPT ![t] = left[t]]
  BY TakenOff
<1>d. \A t \in Threads :
        ~Holds(t) => \A c : PushOn(stack, t, c) = [stack EXCEPT ![t] = Append(left[t], c)]
  BY DEF StackKept, PushOn
<1>e. \A t \in Threads : pc[t] = "idle" => stack[t] = left[t]
  BY <1>a DEF StackKept, Holds, ProbeHolds, MakeHolds, SessionSteps, Guarded
<1> USE <1>0, <1>a, <1>b, <1>c, <1>d, <1>e
<1> USE DEF driverVars, probeVars, objectVars, Steps, ProbeSteps, MakeSteps,
            ProbeHolds, MakeHolds, SessionSteps, Guarded, Holds
<1>1. ASSUME NEW t \in Threads, EngineInfo(t), UNCHANGED objectVars PROVE Kept(u)'
  BY <1>1 DEF EngineInfo, Enter
<1>2. ASSUME NEW t \in Threads, EngineInfoFails(t), UNCHANGED objectVars PROVE Kept(u)'
  BY <1>2 DEF EngineInfoFails
<1>3. ASSUME NEW t \in Threads, SkipDevice(t), UNCHANGED objectVars PROVE Kept(u)'
  BY <1>3 DEF SkipDevice
<1>4. ASSUME NEW t \in Threads, ProbeDevice(t), UNCHANGED objectVars PROVE Kept(u)'
  <2>1. ~Holds(t) /\ obj[t] = t
    BY <1>4 DEF ProbeDevice
  <2>2. stack' = [stack EXCEPT ![t] = Append(left[t], t)]
    BY <1>4, <2>1 DEF ProbeDevice, CreateContext
  <2>3. QED
    BY <1>4, <2>1, <2>2 DEF ProbeDevice, Goto
<1>5. ASSUME NEW t \in Threads, EngineInfoDone(t), UNCHANGED objectVars PROVE Kept(u)'
  BY <1>5 DEF EngineInfoDone, Return, Enter
<1>6. ASSUME NEW t \in Threads, ProbeDecode(t), UNCHANGED objectVars PROVE Kept(u)'
  BY <1>6 DEF ProbeDecode, Goto
<1>7. ASSUME NEW t \in Threads, ProbeDecode10(t), UNCHANGED objectVars PROVE Kept(u)'
  BY <1>7 DEF ProbeDecode10, Goto
<1>8. ASSUME NEW t \in Threads, OpenFails(t), UNCHANGED objectVars PROVE Kept(u)'
  BY <1>8 DEF OpenFails, Goto
<1>9. ASSUME NEW t \in Threads, OpenSession(t), UNCHANGED objectVars PROVE Kept(u)'
  BY <1>9 DEF OpenSession, Goto
<1>10. ASSUME NEW t \in Threads, GuidsFail(t), UNCHANGED objectVars PROVE Kept(u)'
  BY <1>10 DEF GuidsFail, CloseNext, Goto
<1>11. ASSUME NEW t \in Threads, EnumerateGuids(t), UNCHANGED objectVars PROVE Kept(u)'
  BY <1>11 DEF EnumerateGuids, CloseNext, Goto
<1>12. ASSUME NEW t \in Threads, GetCaps(t), UNCHANGED objectVars PROVE Kept(u)'
  BY <1>12 DEF GetCaps, Goto
<1>13. ASSUME NEW t \in Threads, CloseSession(t), UNCHANGED objectVars PROVE Kept(u)'
  BY <1>13 DEF CloseSession, Goto
<1>14. ASSUME NEW t \in Threads, ProbeDeviceDone(t), UNCHANGED objectVars PROVE Kept(u)'
  <2>1. Holds(t) /\ obj[t] = t
    BY <1>14 DEF ProbeDeviceDone
  <2>2. stack' = [stack EXCEPT ![t] = left[t]]
    BY <1>14, <2>1 DEF ProbeDeviceDone, DestroyContext
  <2>3. QED
    BY <1>14, <2>2 DEF ProbeDeviceDone, Goto
<1>15. ASSUME NEW t \in Threads, Precheck(t) PROVE Kept(u)'
  BY <1>15 DEF Precheck, Goto
<1>16. ASSUME NEW t \in Threads, PrecheckRefuses(t) PROVE Kept(u)'
  BY <1>16 DEF PrecheckRefuses, Refuse, Return, Enter
<1>17. ASSUME NEW t \in Threads, SelectRefuses(t) PROVE Kept(u)'
  BY <1>17 DEF SelectRefuses, Refuse, Return, Enter
<1>18. ASSUME NEW t \in Threads, Select(t) PROVE Kept(u)'
  <2>1. ~Holds(t)
    BY <1>18 DEF Select
  <2>2. stack' = [stack EXCEPT ![t] = Append(left[t], obj[t])]
    BY <1>18, <2>1 DEF Select, CreateContext
  <2>3. QED
    BY <1>18, <2>1, <2>2 DEF Select, Goto
<1>19. ASSUME NEW t \in Threads, MakeFails(t) PROVE Kept(u)'
  <2>1. Holds(t)
    BY <1>19 DEF MakeFails
  <2>2. stack' = [stack EXCEPT ![t] = left[t]]
    BY <1>19, <2>1 DEF MakeFails, DestroyContext
  <2>3. QED
    BY <1>19, <2>2 DEF MakeFails, Refuse, Return, Enter
<1>20. ASSUME NEW t \in Threads, MakeParser(t) PROVE Kept(u)'
  BY <1>20 DEF MakeParser, Goto
<1>21. ASSUME NEW t \in Threads, PopCreation(t) PROVE Kept(u)'
  <2>1. Holds(t)
    BY <1>21 DEF PopCreation
  <2>2. stack' = [stack EXCEPT ![t] = left[t]]
    BY <1>21, <2>1 DEF PopCreation
  <2>3. QED
    BY <1>21, <2>2 DEF PopCreation, Return, Enter
<1>22. ASSUME NEW t \in Threads, MakeEncoder(t) PROVE Kept(u)'
  BY <1>22 DEF MakeEncoder, Return, Enter
<1>23. ASSUME NEW t \in Threads, Unbind(t) PROVE Kept(u)'
  <2>1. stack' = [stack EXCEPT ![t] = left[t]]
    <3>1. CASE bound[t]
      BY <1>23, <3>1 DEF Unbind, PopNeeded
    <3>2. CASE ~bound[t]
      <4>1. stack[t] = left[t]
        BY <1>23, <3>2 DEF Unbind, StackKept
      <4>2. QED
        BY <1>23, <3>2, <4>1 DEF Unbind, PopNeeded
    <3>3. QED
      BY <3>1, <3>2
  <2>2. pc'[t] \in {"idle", "drop_ctx"} /\ UNCHANGED left
    BY <1>23 DEF Unbind, Return, Enter, Goto
  <2>3. \A v \in Threads \ {t} :
          pc'[v] = pc[v] /\ obj'[v] = obj[v] /\ bound'[v] = bound[v]
    BY <1>23 DEF Unbind, Return, Enter, Goto
  <2>4. QED
    BY <2>1, <2>2, <2>3
<1>24. ASSUME NEW t \in Threads, DropDecoder(t) PROVE Kept(u)'
  <2>1. ~Holds(t) /\ stack[t] = left[t]
    BY <1>24 DEF DropDecoder, StackKept
  <2>2. stack' = stack
    <3>1. Current(left[t]) \in Encoders \cup {NoContext}
      BY CurrentType DEF TypeOK
    <3>2. obj[t] \in Decoders
      BY <1>24 DEF DropDecoder, Owners, OwnerOf
    <3>3. obj[t] \notin Encoders \cup {NoContext}
      BY <3>2, ProbeAssumption, ObjectAssumption DEF Encoders, Contexts
    <3>4. QED
      BY <1>24, <2>1, <3>1, <3>3 DEF DropDecoder, DestroyContext, DestroyOn
  <2>3. QED
    BY <1>24, <2>1, <2>2 DEF DropDecoder, Return, Enter
<1>25. ASSUME NEW t \in Threads, NEW o \in Objects, NEW i \in 0..Count, Make(t, o, i)
      PROVE  Kept(u)'
  BY <1>25 DEF Make, Enter
<1>26. ASSUME NEW t \in Threads, NEW d \in Decoders, NEW step \in Guarded, Bind(t, d, step)
      PROVE  Kept(u)'
  <2>1. ~Holds(t) /\ ~bound[t] /\ t \in DOMAIN bound
    BY <1>26 DEF Bind
  <2>2. CASE bound'[t]
    <3>1. stack' = PushOn(stack, t, d)
      BY <1>26, <2>1, <2>2 DEF Bind
    <3>2. stack' = [stack EXCEPT ![t] = Append(left[t], d)]
      BY <2>1, <3>1
    <3>3. QED
      BY <1>26, <2>2, <3>2, ZenonT(40) DEF Bind, Enter
  <2>3. CASE ~bound'[t]
    BY <1>26, <2>1, <2>3, ZenonT(40) DEF Bind, Enter
  <2>4. QED
    BY <2>2, <2>3
<1>27. ASSUME NEW t \in Threads, NEW e \in Encoders, DropEncoder(t, e) PROVE Kept(u)'
  BY <1>27 DEF DropEncoder, DestroyContext, Current, DestroyOn, PopFrom
<1>28. CASE UNCHANGED vars
  BY <1>28 DEF vars
<1> HIDE DEF driverVars, probeVars, objectVars, Steps, ProbeSteps, MakeSteps,
            ProbeHolds, MakeHolds, SessionSteps, Guarded, Holds
<1>29. QED
  BY <1>1, <1>2, <1>3, <1>4, <1>5, <1>6, <1>7, <1>8, <1>9, <1>10, <1>11,
     <1>12, <1>13, <1>14, <1>15, <1>16, <1>17, <1>18, <1>19, <1>20, <1>21,
     <1>22, <1>23, <1>24, <1>25, <1>26, <1>27, <1>28
     DEF Next, Client, Running, ObjectStep, ProbeStep, Guarded

-----------------------------------------------------------------------------
(* Which contexts and sessions exist.                                      *)

ThreadExists(t) ==
  /\ t \in live <=> pc[t] \in ProbeHolds
  /\ DestroySlot => (t \in sessions <=> pc[t] \in SessionSteps)
Making(o) == \E t \in Threads : obj[t] = o /\ pc[t] \in MakeHolds
ObjectExists(o) == o \in live <=> phase[o] = "ready" \/ Making(o)

Exist ==
  /\ \A t \in Threads : ThreadExists(t)
  /\ \A o \in Objects : ObjectExists(o)

LEMMA ExistInit == Init => Exist
BY DEF Init, ProbeInit, Exist, ThreadExists, ObjectExists, Making, ProbeHolds,
       MakeHolds, SessionSteps

LEMMA ThreadsExistStep ==
  ASSUME TypeOK, Owners, Exist, [Next]_vars, NEW u \in Threads
  PROVE  ThreadExists(u)'
<1>0. pc \in [Threads -> Steps] /\ obj \in [Threads -> Contexts]
  BY DEF TypeOK
<1>a. /\ ThreadExists(u) /\ u \notin Objects
      /\ \A t \in Threads : OwnerOf(t)
  BY ProbeAssumption DEF Exist, Owners
<1> USE <1>0, <1>a, ObjectAssumption
<1> USE DEF ThreadExists, OwnerOf, driverVars, probeVars, objectVars, Steps, ProbeSteps, MakeSteps,
            ProbeHolds, MakeHolds, SessionSteps, Guarded, Contexts, Encoders
<1>1. ASSUME NEW t \in Threads, EngineInfo(t), UNCHANGED objectVars PROVE ThreadExists(u)'
  BY <1>1 DEF EngineInfo, Enter
<1>2. ASSUME NEW t \in Threads, EngineInfoFails(t), UNCHANGED objectVars PROVE ThreadExists(u)'
  BY <1>2 DEF EngineInfoFails
<1>3. ASSUME NEW t \in Threads, SkipDevice(t), UNCHANGED objectVars PROVE ThreadExists(u)'
  BY <1>3 DEF SkipDevice
<1>4. ASSUME NEW t \in Threads, ProbeDevice(t), UNCHANGED objectVars PROVE ThreadExists(u)'
  BY <1>4 DEF ProbeDevice, Goto, CreateContext
<1>5. ASSUME NEW t \in Threads, EngineInfoDone(t), UNCHANGED objectVars PROVE ThreadExists(u)'
  BY <1>5 DEF EngineInfoDone, Return, Enter
<1>6. ASSUME NEW t \in Threads, ProbeDecode(t), UNCHANGED objectVars PROVE ThreadExists(u)'
  BY <1>6 DEF ProbeDecode, Goto
<1>7. ASSUME NEW t \in Threads, ProbeDecode10(t), UNCHANGED objectVars PROVE ThreadExists(u)'
  BY <1>7 DEF ProbeDecode10, Goto
<1>8. ASSUME NEW t \in Threads, OpenFails(t), UNCHANGED objectVars PROVE ThreadExists(u)'
  BY <1>8 DEF OpenFails, Goto
<1>9. ASSUME NEW t \in Threads, OpenSession(t), UNCHANGED objectVars PROVE ThreadExists(u)'
  BY <1>9 DEF OpenSession, Goto
<1>10. ASSUME NEW t \in Threads, GuidsFail(t), UNCHANGED objectVars PROVE ThreadExists(u)'
  BY <1>10 DEF GuidsFail, CloseNext, Goto
<1>11. ASSUME NEW t \in Threads, EnumerateGuids(t), UNCHANGED objectVars PROVE ThreadExists(u)'
  BY <1>11 DEF EnumerateGuids, CloseNext, Goto
<1>12. ASSUME NEW t \in Threads, GetCaps(t), UNCHANGED objectVars PROVE ThreadExists(u)'
  BY <1>12 DEF GetCaps, Goto
<1>13. ASSUME NEW t \in Threads, CloseSession(t), UNCHANGED objectVars PROVE ThreadExists(u)'
  BY <1>13 DEF CloseSession, Goto
<1>14. ASSUME NEW t \in Threads, ProbeDeviceDone(t), UNCHANGED objectVars PROVE ThreadExists(u)'
  BY <1>14 DEF ProbeDeviceDone, DestroyContext, Goto
<1>15. ASSUME NEW t \in Threads, Precheck(t) PROVE ThreadExists(u)'
  BY <1>15 DEF Precheck, Goto
<1>16. ASSUME NEW t \in Threads, PrecheckRefuses(t) PROVE ThreadExists(u)'
  BY <1>16 DEF PrecheckRefuses, Refuse, Return, Enter, Become
<1>17. ASSUME NEW t \in Threads, SelectRefuses(t) PROVE ThreadExists(u)'
  BY <1>17 DEF SelectRefuses, Refuse, Return, Enter, Become
<1>18. ASSUME NEW t \in Threads, Select(t) PROVE ThreadExists(u)'
  BY <1>18 DEF Select, CreateContext, Goto
<1>19. ASSUME NEW t \in Threads, MakeFails(t) PROVE ThreadExists(u)'
  BY <1>19 DEF MakeFails, DestroyContext, Refuse, Return, Enter, Become
<1>20. ASSUME NEW t \in Threads, MakeParser(t) PROVE ThreadExists(u)'
  BY <1>20 DEF MakeParser, Goto
<1>21. ASSUME NEW t \in Threads, PopCreation(t) PROVE ThreadExists(u)'
  BY <1>21 DEF PopCreation, Return, Enter, Become
<1>22. ASSUME NEW t \in Threads, MakeEncoder(t) PROVE ThreadExists(u)'
  BY <1>22 DEF MakeEncoder, Return, Enter, Become
<1>23. ASSUME NEW t \in Threads, Unbind(t) PROVE ThreadExists(u)'
  BY <1>23 DEF Unbind, Return, Enter, Goto
<1>24. ASSUME NEW t \in Threads, DropDecoder(t) PROVE ThreadExists(u)'
  BY <1>24 DEF DropDecoder, Return, Enter, Become, DestroyContext
<1>25. ASSUME NEW t \in Threads, NEW o \in Objects, NEW i \in 0..Count, Make(t, o, i)
      PROVE  ThreadExists(u)'
  BY <1>25 DEF Make, Enter, Free
<1>26. ASSUME NEW t \in Threads, NEW d \in Decoders, NEW step \in Guarded, Bind(t, d, step)
      PROVE  ThreadExists(u)'
  BY <1>26 DEF Bind, Enter, Free
<1>27. ASSUME NEW t \in Threads, NEW e \in Encoders, DropEncoder(t, e) PROVE ThreadExists(u)'
  BY <1>27 DEF DropEncoder, DestroyContext, Free
<1>28. CASE UNCHANGED vars
  BY <1>28 DEF vars
<1> HIDE DEF ThreadExists, OwnerOf, driverVars, probeVars, objectVars, Steps, ProbeSteps, MakeSteps,
            ProbeHolds, MakeHolds, SessionSteps, Guarded, Contexts, Encoders
<1>29. QED
  BY <1>1, <1>2, <1>3, <1>4, <1>5, <1>6, <1>7, <1>8, <1>9, <1>10, <1>11,
     <1>12, <1>13, <1>14, <1>15, <1>16, <1>17, <1>18, <1>19, <1>20, <1>21,
     <1>22, <1>23, <1>24, <1>25, <1>26, <1>27, <1>28
     DEF Next, Client, Running, ObjectStep, ProbeStep, Guarded

LEMMA ObjectsExistStep ==
  ASSUME TypeOK, Owners, Alone, Exist, [Next]_vars, NEW p \in Objects
  PROVE  ObjectExists(p)'
<1>0. /\ pc \in [Threads -> Steps] /\ obj \in [Threads -> Contexts]
      /\ DOMAIN phase = Objects
  BY DEF TypeOK
<1>a. ObjectExists(p) /\ p \notin Threads /\ (\A t \in Threads : OwnerOf(t))
  BY ProbeAssumption DEF Exist, Owners
<1>b. \A t, v \in Threads :
        t # v /\ pc[t] # "idle" /\ pc[v] # "idle" => obj[t] # obj[v]
  BY DEF Alone
<1> USE <1>0, <1>a, <1>b, ObjectAssumption
<1> USE DEF ObjectExists, Making, OwnerOf, driverVars, probeVars, objectVars, Steps, ProbeSteps, MakeSteps,
            ProbeHolds, MakeHolds, SessionSteps, Guarded, Contexts, Encoders
<1>1. ASSUME NEW t \in Threads, EngineInfo(t), UNCHANGED objectVars PROVE ObjectExists(p)'
  BY <1>1 DEF EngineInfo, Enter
<1>2. ASSUME NEW t \in Threads, EngineInfoFails(t), UNCHANGED objectVars PROVE ObjectExists(p)'
  BY <1>2 DEF EngineInfoFails
<1>3. ASSUME NEW t \in Threads, SkipDevice(t), UNCHANGED objectVars PROVE ObjectExists(p)'
  BY <1>3 DEF SkipDevice
<1>4. ASSUME NEW t \in Threads, ProbeDevice(t), UNCHANGED objectVars PROVE ObjectExists(p)'
  BY <1>4 DEF ProbeDevice, Goto, CreateContext
<1>5. ASSUME NEW t \in Threads, EngineInfoDone(t), UNCHANGED objectVars PROVE ObjectExists(p)'
  BY <1>5 DEF EngineInfoDone, Return, Enter
<1>6. ASSUME NEW t \in Threads, ProbeDecode(t), UNCHANGED objectVars PROVE ObjectExists(p)'
  BY <1>6 DEF ProbeDecode, Goto
<1>7. ASSUME NEW t \in Threads, ProbeDecode10(t), UNCHANGED objectVars PROVE ObjectExists(p)'
  BY <1>7 DEF ProbeDecode10, Goto
<1>8. ASSUME NEW t \in Threads, OpenFails(t), UNCHANGED objectVars PROVE ObjectExists(p)'
  BY <1>8 DEF OpenFails, Goto
<1>9. ASSUME NEW t \in Threads, OpenSession(t), UNCHANGED objectVars PROVE ObjectExists(p)'
  BY <1>9 DEF OpenSession, Goto
<1>10. ASSUME NEW t \in Threads, GuidsFail(t), UNCHANGED objectVars PROVE ObjectExists(p)'
  BY <1>10 DEF GuidsFail, CloseNext, Goto
<1>11. ASSUME NEW t \in Threads, EnumerateGuids(t), UNCHANGED objectVars PROVE ObjectExists(p)'
  BY <1>11 DEF EnumerateGuids, CloseNext, Goto
<1>12. ASSUME NEW t \in Threads, GetCaps(t), UNCHANGED objectVars PROVE ObjectExists(p)'
  BY <1>12 DEF GetCaps, Goto
<1>13. ASSUME NEW t \in Threads, CloseSession(t), UNCHANGED objectVars PROVE ObjectExists(p)'
  BY <1>13 DEF CloseSession, Goto
<1>14. ASSUME NEW t \in Threads, ProbeDeviceDone(t), UNCHANGED objectVars PROVE ObjectExists(p)'
  BY <1>14 DEF ProbeDeviceDone, DestroyContext, Goto
<1>15. ASSUME NEW t \in Threads, Precheck(t) PROVE ObjectExists(p)'
  BY <1>15 DEF Precheck, Goto
<1>16. ASSUME NEW t \in Threads, PrecheckRefuses(t) PROVE ObjectExists(p)'
  BY <1>16 DEF PrecheckRefuses, Refuse, Return, Enter, Become
<1>17. ASSUME NEW t \in Threads, SelectRefuses(t) PROVE ObjectExists(p)'
  BY <1>17 DEF SelectRefuses, Refuse, Return, Enter, Become
<1>18. ASSUME NEW t \in Threads, Select(t) PROVE ObjectExists(p)'
  BY <1>18 DEF Select, CreateContext, Goto
<1>19. ASSUME NEW t \in Threads, MakeFails(t) PROVE ObjectExists(p)'
  BY <1>19 DEF MakeFails, DestroyContext, Refuse, Return, Enter, Become
<1>20. ASSUME NEW t \in Threads, MakeParser(t) PROVE ObjectExists(p)'
  BY <1>20 DEF MakeParser, Goto
<1>21. ASSUME NEW t \in Threads, PopCreation(t) PROVE ObjectExists(p)'
  BY <1>21 DEF PopCreation, Return, Enter, Become
<1>22. ASSUME NEW t \in Threads, MakeEncoder(t) PROVE ObjectExists(p)'
  BY <1>22 DEF MakeEncoder, Return, Enter, Become
<1>23. ASSUME NEW t \in Threads, Unbind(t) PROVE ObjectExists(p)'
  BY <1>23 DEF Unbind, Return, Enter, Goto
<1>24. ASSUME NEW t \in Threads, DropDecoder(t) PROVE ObjectExists(p)'
  BY <1>24 DEF DropDecoder, Return, Enter, Become, DestroyContext
<1>25. ASSUME NEW t \in Threads, NEW o \in Objects, NEW i \in 0..Count, Make(t, o, i)
      PROVE  ObjectExists(p)'
  BY <1>25 DEF Make, Enter, Free
<1>26. ASSUME NEW t \in Threads, NEW d \in Decoders, NEW step \in Guarded, Bind(t, d, step)
      PROVE  ObjectExists(p)'
  BY <1>26 DEF Bind, Enter, Free
<1>27. ASSUME NEW t \in Threads, NEW e \in Encoders, DropEncoder(t, e) PROVE ObjectExists(p)'
  BY <1>27 DEF DropEncoder, DestroyContext, Free
<1>28. CASE UNCHANGED vars
  BY <1>28 DEF vars
<1> HIDE DEF ObjectExists, Making, OwnerOf, driverVars, probeVars, objectVars, Steps, ProbeSteps, MakeSteps,
            ProbeHolds, MakeHolds, SessionSteps, Guarded, Contexts, Encoders
<1>29. QED
  BY <1>1, <1>2, <1>3, <1>4, <1>5, <1>6, <1>7, <1>8, <1>9, <1>10, <1>11,
     <1>12, <1>13, <1>14, <1>15, <1>16, <1>17, <1>18, <1>19, <1>20, <1>21,
     <1>22, <1>23, <1>24, <1>25, <1>26, <1>27, <1>28
     DEF Next, Client, Running, ObjectStep, ProbeStep, Guarded

-----------------------------------------------------------------------------
(* The rows of the probe.                                                  *)

Backed(r) ==
  /\ r.decode => r.device \in Decodes
  /\ r.encode => r.device \in Encodes
  /\ r.ten => r.device \in Decodes10 \cup Encodes10

\* What is in a row at a step, if no call has failed.
SoFar(r, step) ==
  /\ step = "decode8" => ~r.decode /\ ~r.encode /\ ~r.ten
  /\ step = "decode10" => r.decode /\ ~r.encode /\ ~r.ten
  /\ step \in {"open", "guids", "caps"} =>
       /\ r.decode <=> r.device \in Decodes
       /\ r.encode <=> step = "caps"
       /\ r.ten <=> r.device \in Decodes \cap Decodes10
  /\ step \in {"close", "drop"} => Complete(r)

RowOf(t) ==
  pc[t] \in ProbeHolds =>
    /\ device[t] = index[t] /\ row[t].device = index[t]
    /\ Backed(row[t])
    /\ faults = 0 => SoFar(row[t], pc[t])

Finished(t) ==
  /\ \A k \in DOMAIN rows[t] :
       /\ Backed(rows[t][k]) /\ rows[t][k].device < index[t]
       /\ faults = 0 => rows[t][k].device = k - 1 /\ Complete(rows[t][k])
  /\ \A j, k \in DOMAIN rows[t] :
       j < k => rows[t][j].device < rows[t][k].device
  /\ faults = 0 => Len(rows[t]) = index[t]

RowSound == \A t \in Threads : RowOf(t) /\ Finished(t)

LEMMA CompleteIff ==
  ASSUME NEW r \in Rows
  PROVE  Complete(r) <=>
           /\ r.decode <=> r.device \in Decodes
           /\ r.encode <=> r.device \in Encodes
           /\ r.ten <=> \/ r.device \in Decodes \cap Decodes10
                       \/ r.device \in Encodes \cap Encodes10
<1>1. r.decode \in BOOLEAN /\ r.encode \in BOOLEAN /\ r.ten \in BOOLEAN
  BY DEF Rows
<1>2. (r.decode = (r.device \in Decodes)) <=> (r.decode <=> r.device \in Decodes)
  BY <1>1, SMT
<1>3. (r.encode = (r.device \in Encodes)) <=> (r.encode <=> r.device \in Encodes)
  BY <1>1, SMT
<1>4. (r.ten = (\/ r.device \in Decodes \cap Decodes10
                \/ r.device \in Encodes \cap Encodes10))
        <=> (r.ten <=> \/ r.device \in Decodes \cap Decodes10
                       \/ r.device \in Encodes \cap Encodes10)
  BY <1>1, Zenon
<1>5. QED
  BY <1>2, <1>3, <1>4, Zenon DEF Complete

\* The device that answers the probe is the one the row is about.
LEMMA ProbeAsksItsDevice ==
  ASSUME TypeOK, Owners, StackKept, Exist, NEW t \in Threads, pc[t] \in ProbeHolds
  PROVE  Answers(t) /\ Asked(t) = device[t]
<1>1. Holds(t) /\ obj[t] = t
  BY DEF Holds, Owners, OwnerOf, ProbeSteps
<1>2. Current(stack[t]) = t
  BY <1>1, TakenOff
<1>3. t \in live
  BY DEF Exist, ThreadExists
<1>4. QED
  BY <1>2, <1>3 DEF Answers, Asked

LEMMA ProbeAnswers ==
  ASSUME TypeOK, Owners, StackKept, Exist, NEW t \in Threads, NEW able,
         pc[t] \in ProbeHolds
  PROVE  /\ CapsYes(t, able) => device[t] \in able
         /\ (CapsNo(t, able) \/ CapsError(t)) /\ faults' = 0 => device[t] \notin able
<1>1. Answers(t) /\ Asked(t) = device[t] /\ faults \in Nat
  BY ProbeAsksItsDevice, ProbeAssumption DEF TypeOK
<1>2. QED
  BY <1>1 DEF CapsYes, CapsNo, CapsError, Fail

\* Failures are counted, and never forgotten.
LEMMA FaultsGrow == TypeOK /\ [Next]_vars => faults' \in {faults, faults + 1}
<1> SUFFICES ASSUME TypeOK, [Next]_vars PROVE faults' \in {faults, faults + 1}
  OBVIOUS
<1> USE DEF Fail, objectVars, probeVars
<1>1. ASSUME NEW t \in Threads, EngineInfo(t), UNCHANGED objectVars PROVE faults' \in {faults, faults + 1}
  BY <1>1 DEF EngineInfo
<1>2. ASSUME NEW t \in Threads, EngineInfoFails(t), UNCHANGED objectVars PROVE faults' \in {faults, faults + 1}
  BY <1>2 DEF EngineInfoFails
<1>3. ASSUME NEW t \in Threads, SkipDevice(t), UNCHANGED objectVars PROVE faults' \in {faults, faults + 1}
  BY <1>3 DEF SkipDevice
<1>4. ASSUME NEW t \in Threads, ProbeDevice(t), UNCHANGED objectVars PROVE faults' \in {faults, faults + 1}
  BY <1>4 DEF ProbeDevice
<1>5. ASSUME NEW t \in Threads, EngineInfoDone(t), UNCHANGED objectVars PROVE faults' \in {faults, faults + 1}
  BY <1>5 DEF EngineInfoDone
<1>6. ASSUME NEW t \in Threads, ProbeDecode(t), UNCHANGED objectVars PROVE faults' \in {faults, faults + 1}
  BY <1>6 DEF ProbeDecode, CapsYes, CapsNo, CapsError
<1>7. ASSUME NEW t \in Threads, ProbeDecode10(t), UNCHANGED objectVars PROVE faults' \in {faults, faults + 1}
  BY <1>7 DEF ProbeDecode10, CapsYes, CapsNo, CapsError
<1>8. ASSUME NEW t \in Threads, OpenFails(t), UNCHANGED objectVars PROVE faults' \in {faults, faults + 1}
  BY <1>8 DEF OpenFails
<1>9. ASSUME NEW t \in Threads, OpenSession(t), UNCHANGED objectVars PROVE faults' \in {faults, faults + 1}
  BY <1>9 DEF OpenSession
<1>10. ASSUME NEW t \in Threads, GuidsFail(t), UNCHANGED objectVars PROVE faults' \in {faults, faults + 1}
  BY <1>10 DEF GuidsFail
<1>11. ASSUME NEW t \in Threads, EnumerateGuids(t), UNCHANGED objectVars PROVE faults' \in {faults, faults + 1}
  BY <1>11 DEF EnumerateGuids
<1>12. ASSUME NEW t \in Threads, GetCaps(t), UNCHANGED objectVars PROVE faults' \in {faults, faults + 1}
  BY <1>12 DEF GetCaps
<1>13. ASSUME NEW t \in Threads, CloseSession(t), UNCHANGED objectVars PROVE faults' \in {faults, faults + 1}
  BY <1>13 DEF CloseSession
<1>14. ASSUME NEW t \in Threads, ProbeDeviceDone(t), UNCHANGED objectVars PROVE faults' \in {faults, faults + 1}
  BY <1>14 DEF ProbeDeviceDone
<1>15. ASSUME NEW t \in Threads, Precheck(t) PROVE faults' \in {faults, faults + 1}
  BY <1>15 DEF Precheck, CapsYes, CapsNo, CapsError
<1>16. ASSUME NEW t \in Threads, PrecheckRefuses(t) PROVE faults' \in {faults, faults + 1}
  BY <1>16 DEF PrecheckRefuses, CapsYes, CapsNo, CapsError
<1>17. ASSUME NEW t \in Threads, SelectRefuses(t) PROVE faults' \in {faults, faults + 1}
  BY <1>17 DEF SelectRefuses
<1>18. ASSUME NEW t \in Threads, Select(t) PROVE faults' \in {faults, faults + 1}
  BY <1>18 DEF Select
<1>19. ASSUME NEW t \in Threads, MakeFails(t) PROVE faults' \in {faults, faults + 1}
  BY <1>19 DEF MakeFails
<1>20. ASSUME NEW t \in Threads, MakeParser(t) PROVE faults' \in {faults, faults + 1}
  BY <1>20 DEF MakeParser
<1>21. ASSUME NEW t \in Threads, PopCreation(t) PROVE faults' \in {faults, faults + 1}
  BY <1>21 DEF PopCreation
<1>22. ASSUME NEW t \in Threads, MakeEncoder(t) PROVE faults' \in {faults, faults + 1}
  BY <1>22 DEF MakeEncoder
<1>23. ASSUME NEW t \in Threads, Unbind(t) PROVE faults' \in {faults, faults + 1}
  BY <1>23 DEF Unbind
<1>24. ASSUME NEW t \in Threads, DropDecoder(t) PROVE faults' \in {faults, faults + 1}
  BY <1>24 DEF DropDecoder
<1>25. ASSUME NEW t \in Threads, NEW o \in Objects, NEW i \in 0..Count, Make(t, o, i)
      PROVE  faults' \in {faults, faults + 1}
  BY <1>25 DEF Make
<1>26. ASSUME NEW t \in Threads, NEW d \in Decoders, NEW step \in Guarded, Bind(t, d, step)
      PROVE  faults' \in {faults, faults + 1}
  BY <1>26 DEF Bind
<1>27. ASSUME NEW t \in Threads, NEW e \in Encoders, DropEncoder(t, e) PROVE faults' \in {faults, faults + 1}
  BY <1>27 DEF DropEncoder
<1>28. CASE UNCHANGED vars
  BY <1>28 DEF vars
<1> HIDE DEF Fail, objectVars, probeVars
<1>29. QED
  BY <1>1, <1>2, <1>3, <1>4, <1>5, <1>6, <1>7, <1>8, <1>9, <1>10, <1>11,
     <1>12, <1>13, <1>14, <1>15, <1>16, <1>17, <1>18, <1>19, <1>20, <1>21,
     <1>22, <1>23, <1>24, <1>25, <1>26, <1>27, <1>28
     DEF Next, Client, Running, ObjectStep, ProbeStep, Guarded

LEMMA RowInit == Init => RowSound
BY EmptySeq DEF Init, ProbeInit, RowSound, RowOf, Finished, ProbeHolds, SessionSteps

\* A row at rest, and one that is not in hand.
LEMMA RowUntouched ==
  ASSUME NEW u \in Threads, RowOf(u), faults \in Nat, faults' \in {faults, faults + 1}
  PROVE  /\ /\ pc'[u] = pc[u] /\ device'[u] = device[u]
            /\ index'[u] = index[u] /\ row'[u] = row[u]
            => RowOf(u)'
         /\ pc'[u] \notin ProbeHolds => RowOf(u)'
<1>1. faults' = 0 => faults = 0
  OBVIOUS
<1>2. QED
  BY <1>1 DEF RowOf, Backed, SoFar, Complete, ProbeHolds, SessionSteps

LEMMA RowOfStep ==
  ASSUME TypeOK, Owners, StackKept, Exist, RowSound, [Next]_vars, NEW u \in Threads
  PROVE  RowOf(u)'
<1>0. /\ pc \in [Threads -> Steps] /\ device \in [Contexts -> 0..Count]
      /\ index \in [Threads -> 0..Count] /\ row \in [Threads -> Rows]
      /\ obj \in [Threads -> Contexts]
  BY DEF TypeOK
<1>z. faults \in Nat /\ faults' \in {faults, faults + 1} /\ (faults' = 0 => faults = 0)
  BY FaultsGrow, ProbeAssumption DEF TypeOK
<1>a. /\ RowOf(u) /\ row[u] \in Rows /\ u \in Contexts /\ u \notin Objects
      /\ \A t \in Threads : OwnerOf(t)
  BY <1>0, ProbeAssumption DEF RowSound, Owners, Contexts
<1>b. \A t \in Threads :
        /\ pc[t] \in ProbeSteps => obj[t] = t
        /\ pc[t] \in MakeSteps \cup Guarded \cup {"drop_ctx"} => obj[t] \in Objects
  BY <1>a, ObjectAssumption DEF OwnerOf, MakeSteps
<1>c. /\ /\ pc'[u] = pc[u] /\ device'[u] = device[u]
         /\ index'[u] = index[u] /\ row'[u] = row[u]
         => RowOf(u)'
      /\ pc'[u] \notin ProbeHolds => RowOf(u)'
  BY <1>a, <1>z, RowUntouched
<1>d. \A t \in Threads : \A able :
        pc[t] \in ProbeHolds =>
          /\ CapsYes(t, able) => device[t] \in able
          /\ (CapsNo(t, able) \/ CapsError(t)) /\ faults' = 0 => device[t] \notin able
  BY ProbeAnswers
<1> USE <1>0, <1>b, <1>c
<1> USE DEF driverVars, probeVars, objectVars, ProbeSteps, MakeSteps, ProbeHolds,
            MakeHolds, SessionSteps, Guarded
<1>1. ASSUME NEW t \in Threads, EngineInfo(t), UNCHANGED objectVars PROVE RowOf(u)'
  <2>1. CASE u # t
    BY <1>1, <2>1, <1>a DEF EngineInfo, Enter
  <2>2. CASE u = t
    BY <1>1, <2>2 DEF EngineInfo, Enter
  <2>3. QED
    BY <2>1, <2>2
<1>2. ASSUME NEW t \in Threads, EngineInfoFails(t), UNCHANGED objectVars PROVE RowOf(u)'
  BY <1>2, <1>a DEF EngineInfoFails, Fail
<1>3. ASSUME NEW t \in Threads, SkipDevice(t), UNCHANGED objectVars PROVE RowOf(u)'
  <2>1. CASE u # t
    BY <1>3, <2>1, <1>a DEF SkipDevice, Fail
  <2>2. CASE u = t
    BY <1>3, <2>2 DEF SkipDevice, Fail
  <2>3. QED
    BY <2>1, <2>2
<1>4. ASSUME NEW t \in Threads, ProbeDevice(t), UNCHANGED objectVars PROVE RowOf(u)'
  <2>1. CASE u # t
    BY <1>4, <2>1, <1>a DEF ProbeDevice, Goto, CreateContext, Blank
  <2>2. CASE u = t
    <3>1. pc'[u] = "decode8" /\ row'[u] = Blank(index[u]) /\ UNCHANGED index
      BY <1>4, <2>2 DEF ProbeDevice, Goto
    <3>2. device'[u] = index[u]
      BY <1>4, <2>2, <1>a DEF ProbeDevice, CreateContext
    <3>3. QED
      BY <3>1, <3>2 DEF Blank, RowOf, Backed, SoFar, Complete
  <2>3. QED
    BY <2>1, <2>2
<1>5. ASSUME NEW t \in Threads, EngineInfoDone(t), UNCHANGED objectVars PROVE RowOf(u)'
  <2>1. CASE u # t
    BY <1>5, <2>1, <1>a DEF EngineInfoDone, Return, Enter
  <2>2. CASE u = t
    BY <1>5, <2>2 DEF EngineInfoDone, Return, Enter
  <2>3. QED
    BY <2>1, <2>2
<1>6. ASSUME NEW t \in Threads, ProbeDecode(t), UNCHANGED objectVars PROVE RowOf(u)'
  <2>1. CASE u # t
    BY <1>6, <2>1, <1>a DEF ProbeDecode, Fail, Goto
  <2>2. CASE u = t
    <3>1. UNCHANGED <<device, index>> /\ pc[u] = "decode8"
      BY <1>6, <2>2 DEF ProbeDecode
    <3>2. CASE CapsYes(u, Decodes)
               /\ row' = [row EXCEPT ![u].decode = TRUE] /\ pc'[u] = "decode10"
      <4>1. device[u] \in Decodes /\ faults' = faults
        BY <3>1, <3>2, <1>d DEF CapsYes
      <4>2. row'[u] = [row[u] EXCEPT !.decode = TRUE]
        BY <3>2
      <4>3. QED
        BY <3>1, <3>2, <4>1, <4>2, <1>a, <1>z DEF RowOf, Backed, SoFar, Complete, Rows
    <3>3. CASE (CapsNo(u, Decodes) \/ CapsError(u)) /\ row' = row /\ pc'[u] = "open"
      <4>1. faults' = 0 => device[u] \notin Decodes
        BY <3>1, <3>3, <1>d
      <4>2. QED
        BY <3>1, <3>3, <4>1, <1>a, <1>z DEF RowOf, Backed, SoFar, Complete, Rows
    <3>4. QED
      BY <1>6, <2>2, <3>2, <3>3 DEF ProbeDecode, Goto
  <2>3. QED
    BY <2>1, <2>2
<1>7. ASSUME NEW t \in Threads, ProbeDecode10(t), UNCHANGED objectVars PROVE RowOf(u)'
  <2>1. CASE u # t
    BY <1>7, <2>1, <1>a DEF ProbeDecode10, Fail, Goto
  <2>2. CASE u = t
    <3>1. UNCHANGED <<device, index>> /\ pc[u] = "decode10"
      BY <1>7, <2>2 DEF ProbeDecode10
    <3>2. CASE CapsYes(u, Decodes10)
               /\ row' = [row EXCEPT ![u].ten = TRUE] /\ pc'[u] = "open"
      <4>1. device[u] \in Decodes10 /\ faults' = faults
        BY <3>1, <3>2, <1>d DEF CapsYes
      <4>2. row'[u] = [row[u] EXCEPT !.ten = TRUE]
        BY <3>2
      <4>3. QED
        BY <3>1, <3>2, <4>1, <4>2, <1>a, <1>z DEF RowOf, Backed, SoFar, Complete, Rows
    <3>3. CASE (CapsNo(u, Decodes10) \/ CapsError(u)) /\ row' = row /\ pc'[u] = "open"
      <4>1. faults' = 0 => device[u] \notin Decodes10
        BY <3>1, <3>3, <1>d
      <4>2. QED
        BY <3>1, <3>3, <4>1, <1>a, <1>z DEF RowOf, Backed, SoFar, Complete, Rows
    <3>4. QED
      BY <1>7, <2>2, <3>2, <3>3 DEF ProbeDecode10, Goto
  <2>3. QED
    BY <2>1, <2>2
<1>8. ASSUME NEW t \in Threads, OpenFails(t), UNCHANGED objectVars PROVE RowOf(u)'
  <2>1. CASE u # t
    BY <1>8, <2>1, <1>a DEF OpenFails, Fail, Goto
  <2>2. CASE u = t
    <3>1. faults' # 0
      BY <1>8, <1>z DEF OpenFails, Fail
    <3>2. UNCHANGED <<device, index, row>> /\ pc[u] \in ProbeHolds
      BY <1>8, <2>2 DEF OpenFails
    <3>3. QED
      BY <3>1, <3>2, <1>a DEF RowOf, Backed, SoFar, Complete
  <2>3. QED
    BY <2>1, <2>2
<1>9. ASSUME NEW t \in Threads, OpenSession(t), UNCHANGED objectVars PROVE RowOf(u)'
  <2>1. CASE u # t
    BY <1>9, <2>1, <1>a DEF OpenSession, Goto
  <2>2. CASE u = t
    BY <1>9, <2>2, <1>a, <1>z DEF OpenSession, Goto, RowOf, Backed, SoFar, Complete
  <2>3. QED
    BY <2>1, <2>2
<1>10. ASSUME NEW t \in Threads, GuidsFail(t), UNCHANGED objectVars PROVE RowOf(u)'
  <2>1. CASE u # t
    BY <1>10, <2>1, <1>a DEF GuidsFail, CloseNext, Fail, Goto
  <2>2. CASE u = t
    <3>1. faults' # 0
      BY <1>10, <1>z DEF GuidsFail, Fail
    <3>2. UNCHANGED <<device, index, row>> /\ pc[u] \in ProbeHolds
      BY <1>10, <2>2 DEF GuidsFail
    <3>3. QED
      BY <3>1, <3>2, <1>a DEF RowOf, Backed, SoFar, Complete
  <2>3. QED
    BY <2>1, <2>2
<1>11. ASSUME NEW t \in Threads, EnumerateGuids(t), UNCHANGED objectVars PROVE RowOf(u)'
  <2>1. CASE u # t
    BY <1>11, <2>1, <1>a DEF EnumerateGuids, CloseNext, Goto
  <2>2. CASE u = t
    <3>1. UNCHANGED <<device, index, faults>> /\ pc[u] = "guids"
      BY <1>11, <2>2 DEF EnumerateGuids
    <3>2. CASE device[u] \in Encodes
      <4>1. row'[u] = [row[u] EXCEPT !.encode = TRUE] /\ pc'[u] = "caps"
        BY <1>11, <2>2, <3>2 DEF EnumerateGuids, Goto
      <4>2. QED
        BY <3>1, <3>2, <4>1, <1>a DEF RowOf, Backed, SoFar, Complete, Rows
    <3>3. CASE device[u] \notin Encodes
      <4>1. row'[u] = row[u] /\ pc'[u] = "close"
        BY <1>11, <2>2, <3>3 DEF EnumerateGuids, CloseNext, Goto
      <4>2. faults = 0 => Complete(row[u])
        <5> SUFFICES ASSUME faults = 0 PROVE Complete(row[u])
          OBVIOUS
        <5>1. SoFar(row[u], "guids") /\ row[u].device = device[u]
          BY <3>1, <1>a DEF RowOf
        <5>2. QED
          BY <5>1, <3>3, <1>a, CompleteIff DEF SoFar
      <4>3. QED
        BY <3>1, <4>1, <4>2, <1>a DEF RowOf, SoFar
    <3>4. QED
      BY <3>2, <3>3
  <2>3. QED
    BY <2>1, <2>2
<1>12. ASSUME NEW t \in Threads, GetCaps(t), UNCHANGED objectVars PROVE RowOf(u)'
  <2>1. CASE u # t
    BY <1>12, <2>1, <1>a DEF GetCaps, Widen, Fail, Goto
  <2>2. CASE u = t
    <3>1. UNCHANGED <<device, index>> /\ pc[u] = "caps" /\ pc'[u] = "close"
      BY <1>12, <2>2 DEF GetCaps, Goto
    <3>2. CASE row' = Widen(u) /\ faults' = faults
      <4>1. row'[u] = [row[u] EXCEPT !.ten = @ \/ device[u] \in Encodes10]
        BY <3>2 DEF Widen
      <4>2. /\ row'[u] \in Rows /\ row'[u].device = row[u].device
            /\ row'[u].decode = row[u].decode /\ row'[u].encode = row[u].encode
            /\ row'[u].ten <=> row[u].ten \/ device[u] \in Encodes10
        BY <4>1, <1>a DEF Rows
      <4>3. Backed(row'[u])
        BY <4>2, <3>1, <1>a DEF RowOf, Backed
      <4>4. faults = 0 => Complete(row'[u])
        <5> SUFFICES ASSUME faults = 0 PROVE Complete(row'[u])
          OBVIOUS
        <5>1. SoFar(row[u], "caps") /\ Backed(row[u]) /\ row[u].device = device[u]
          BY <3>1, <1>a DEF RowOf
        <5>2. QED
          BY <5>1, <4>2, CompleteIff DEF SoFar, Backed
      <4>5. QED
        BY <3>1, <3>2, <4>2, <4>3, <4>4, <1>a DEF RowOf, SoFar
    <3>3. CASE row' = row /\ faults' # 0
      BY <3>1, <3>3, <1>a DEF RowOf, Backed, SoFar, Complete
    <3>4. QED
      BY <1>12, <2>2, <3>2, <3>3, <1>z DEF GetCaps, Fail
  <2>3. QED
    BY <2>1, <2>2
<1>13. ASSUME NEW t \in Threads, CloseSession(t), UNCHANGED objectVars PROVE RowOf(u)'
  <2>1. CASE u # t
    BY <1>13, <2>1, <1>a DEF CloseSession, Goto
  <2>2. CASE u = t
    BY <1>13, <2>2, <1>a, <1>z DEF CloseSession, Goto, RowOf, Backed, SoFar, Complete
  <2>3. QED
    BY <2>1, <2>2
<1>14. ASSUME NEW t \in Threads, ProbeDeviceDone(t), UNCHANGED objectVars PROVE RowOf(u)'
  <2>1. CASE u # t
    BY <1>14, <2>1, <1>a DEF ProbeDeviceDone, DestroyContext, Goto
  <2>2. CASE u = t
    BY <1>14, <2>2 DEF ProbeDeviceDone, DestroyContext, Goto
  <2>3. QED
    BY <2>1, <2>2
<1>15. ASSUME NEW t \in Threads, Precheck(t) PROVE RowOf(u)'
  <2>1. CASE u # t
    BY <1>15, <2>1, <1>a DEF Precheck, Fail, Goto
  <2>2. CASE u = t
    BY <1>15, <2>2 DEF Precheck, Fail, Goto
  <2>3. QED
    BY <2>1, <2>2
<1>16. ASSUME NEW t \in Threads, PrecheckRefuses(t) PROVE RowOf(u)'
  <2>1. CASE u # t
    BY <1>16, <2>1, <1>a DEF PrecheckRefuses, Refuse, Return, Enter
  <2>2. CASE u = t
    BY <1>16, <2>2 DEF PrecheckRefuses, Refuse, Return, Enter
  <2>3. QED
    BY <2>1, <2>2
<1>17. ASSUME NEW t \in Threads, SelectRefuses(t) PROVE RowOf(u)'
  <2>1. CASE u # t
    BY <1>17, <2>1, <1>a DEF SelectRefuses, Refuse, Return, Enter, Fail
  <2>2. CASE u = t
    BY <1>17, <2>2 DEF SelectRefuses, Refuse, Return, Enter, Fail
  <2>3. QED
    BY <2>1, <2>2
<1>18. ASSUME NEW t \in Threads, Select(t) PROVE RowOf(u)'
  <2>1. CASE u # t
    BY <1>18, <2>1, <1>a DEF Select, CreateContext, Goto
  <2>2. CASE u = t
    BY <1>18, <2>2 DEF Select, CreateContext, Goto
  <2>3. QED
    BY <2>1, <2>2
<1>19. ASSUME NEW t \in Threads, MakeFails(t) PROVE RowOf(u)'
  <2>1. CASE u # t
    BY <1>19, <2>1, <1>a DEF MakeFails, Fail, DestroyContext, Refuse, Return,
         Enter
  <2>2. CASE u = t
    BY <1>19, <2>2 DEF MakeFails, Fail, DestroyContext, Refuse, Return, Enter
  <2>3. QED
    BY <2>1, <2>2
<1>20. ASSUME NEW t \in Threads, MakeParser(t) PROVE RowOf(u)'
  <2>1. CASE u # t
    BY <1>20, <2>1, <1>a DEF MakeParser, Goto
  <2>2. CASE u = t
    BY <1>20, <2>2 DEF MakeParser, Goto
  <2>3. QED
    BY <2>1, <2>2
<1>21. ASSUME NEW t \in Threads, PopCreation(t) PROVE RowOf(u)'
  <2>1. CASE u # t
    BY <1>21, <2>1, <1>a DEF PopCreation, Return, Enter
  <2>2. CASE u = t
    BY <1>21, <2>2 DEF PopCreation, Return, Enter
  <2>3. QED
    BY <2>1, <2>2
<1>22. ASSUME NEW t \in Threads, MakeEncoder(t) PROVE RowOf(u)'
  <2>1. CASE u # t
    BY <1>22, <2>1, <1>a DEF MakeEncoder, Return, Enter
  <2>2. CASE u = t
    BY <1>22, <2>2 DEF MakeEncoder, Return, Enter
  <2>3. QED
    BY <2>1, <2>2
<1>23. ASSUME NEW t \in Threads, Unbind(t) PROVE RowOf(u)'
  <2>1. CASE u # t
    BY <1>23, <2>1, <1>a DEF Unbind, Return, Enter, Goto
  <2>2. CASE u = t
    BY <1>23, <2>2 DEF Unbind, Return, Enter, Goto
  <2>3. QED
    BY <2>1, <2>2
<1>24. ASSUME NEW t \in Threads, DropDecoder(t) PROVE RowOf(u)'
  <2>1. CASE u # t
    BY <1>24, <2>1, <1>a DEF DropDecoder, Return, Enter, DestroyContext
  <2>2. CASE u = t
    BY <1>24, <2>2 DEF DropDecoder, Return, Enter, DestroyContext
  <2>3. QED
    BY <2>1, <2>2
<1>25. ASSUME NEW t \in Threads, NEW o \in Objects, NEW i \in 0..Count, Make(t, o, i)
      PROVE  RowOf(u)'
  <2>1. CASE u # t
    BY <1>25, <2>1, <1>a DEF Make, Enter
  <2>2. CASE u = t
    BY <1>25, <2>2 DEF Make, Enter
  <2>3. QED
    BY <2>1, <2>2
<1>26. ASSUME NEW t \in Threads, NEW d \in Decoders, NEW step \in Guarded, Bind(t, d, step)
      PROVE  RowOf(u)'
  <2>1. CASE u # t
    BY <1>26, <2>1, <1>a DEF Bind, Enter, Fail
  <2>2. CASE u = t
    BY <1>26, <2>2 DEF Bind, Enter, Fail
  <2>3. QED
    BY <2>1, <2>2
<1>27. ASSUME NEW t \in Threads, NEW e \in Encoders, DropEncoder(t, e) PROVE RowOf(u)'
  BY <1>27, ObjectAssumption, <1>a DEF DropEncoder, DestroyContext, Encoders
<1>28. CASE UNCHANGED vars
  BY <1>28 DEF vars
<1> HIDE DEF driverVars, probeVars, objectVars, ProbeSteps, MakeSteps,
            ProbeHolds, MakeHolds, SessionSteps, Guarded
<1>29. QED
  BY <1>1, <1>2, <1>3, <1>4, <1>5, <1>6, <1>7, <1>8, <1>9, <1>10, <1>11,
     <1>12, <1>13, <1>14, <1>15, <1>16, <1>17, <1>18, <1>19, <1>20, <1>21,
     <1>22, <1>23, <1>24, <1>25, <1>26, <1>27, <1>28
     DEF Next, Client, Running, ObjectStep, ProbeStep, Guarded

\* The finished rows are about devices below index.
LEMMA RowsBelow ==
  ASSUME NEW u \in Threads, rows[u] \in Seq(Rows), index[u] \in Nat, Finished(u),
         NEW k \in DOMAIN rows[u]
  PROVE  rows[u][k].device \in Nat /\ rows[u][k].device < index[u]
<1>1. rows[u][k] \in Rows
  BY ElementOfSeq, LenProperties
<1>2. rows[u][k].device \in Nat
  BY <1>1 DEF Rows
<1>3. QED
  BY <1>2 DEF Finished

\* What is finished stays so; index may move on alone when a call has failed.
LEMMA FinishedKept ==
  ASSUME NEW u \in Threads, rows[u] \in Seq(Rows), index[u] \in Nat, Finished(u),
         rows'[u] = rows[u], index'[u] \in {index[u], index[u] + 1},
         faults' = 0 => faults = 0 /\ index'[u] = index[u]
  PROVE  Finished(u)'
<1>1. ASSUME NEW k \in DOMAIN rows[u]
      PROVE  /\ Backed(rows[u][k]) /\ rows[u][k].device < index'[u]
             /\ faults' = 0 => rows[u][k].device = k - 1 /\ Complete(rows[u][k])
  <2>1. rows[u][k].device < index'[u]
    BY RowsBelow
  <2>2. QED
    BY <2>1 DEF Finished
<1>2. faults' = 0 => Len(rows[u]) = index'[u]
  BY DEF Finished
<1>3. \A j, k \in DOMAIN rows[u] : j < k => rows[u][j].device < rows[u][k].device
  BY DEF Finished
<1>4. QED
  BY <1>1, <1>2, <1>3 DEF Finished, Backed, Complete

\* A finished row goes behind the others.
LEMMA FinishedGrows ==
  ASSUME NEW u \in Threads, rows[u] \in Seq(Rows), index[u] \in Nat, row[u] \in Rows,
         faults \in Nat, Finished(u), rows'[u] = Append(rows[u], row[u]),
         index'[u] = index[u] + 1, faults' = faults,
         row[u].device = index[u], Backed(row[u]), faults = 0 => Complete(row[u])
  PROVE  Finished(u)'
<1> DEFINE n == Len(rows[u])
<1>1. n \in Nat /\ DOMAIN rows[u] = 1..n /\ DOMAIN rows'[u] = 1..(n + 1)
  BY AppendProperties, LenProperties
<1>2. /\ Len(rows'[u]) = n + 1 /\ rows'[u][n + 1] = row[u]
      /\ \A k \in 1..n : rows'[u][k] = rows[u][k]
  BY AppendProperties, LenProperties
<1>3. \A k \in 1..n : rows[u][k].device \in Nat /\ rows[u][k].device < index[u]
  BY <1>1, RowsBelow
<1>4. ASSUME NEW k \in 1..(n + 1)
      PROVE  /\ Backed(rows'[u][k]) /\ rows'[u][k].device < index'[u]
             /\ faults' = 0 => rows'[u][k].device = k - 1 /\ Complete(rows'[u][k])
  <2>1. CASE k \in 1..n
    BY <1>1, <1>2, <1>3, <2>1 DEF Finished
  <2>2. CASE k = n + 1
    BY <1>1, <1>2, <2>2 DEF Finished
  <2>3. QED
    BY <1>1, <2>1, <2>2
<1>5. ASSUME NEW j \in 1..(n + 1), NEW k \in 1..(n + 1), j < k
      PROVE  rows'[u][j].device < rows'[u][k].device
  <2>1. j \in 1..n /\ (k \in 1..n \/ k = n + 1)
    BY <1>1, <1>5
  <2>2. CASE k \in 1..n
    BY <1>1, <1>2, <1>5, <2>1, <2>2 DEF Finished
  <2>3. CASE k = n + 1
    BY <1>2, <1>3, <2>1, <2>3
  <2>4. QED
    BY <2>1, <2>2, <2>3
<1>6. faults' = 0 => Len(rows'[u]) = index'[u]
  BY <1>1, <1>2 DEF Finished
<1> HIDE DEF n
<1>7. QED
  BY <1>1, <1>4, <1>5, <1>6 DEF Finished, Backed, Complete

LEMMA FinishedStep ==
  ASSUME TypeOK, Owners, RowSound, [Next]_vars, NEW u \in Threads
  PROVE  Finished(u)'
<1>0. /\ rows \in [Threads -> Seq(Rows)] /\ row \in [Threads -> Rows]
      /\ index \in [Threads -> 0..Count] /\ index[u] \in Nat
      /\ rows[u] \in Seq(Rows) /\ row[u] \in Rows
      /\ faults \in Nat /\ Finished(u)
  BY ProbeAssumption DEF TypeOK, RowSound
<1>a. faults' = 0 => faults = 0
  BY <1>0, FaultsGrow
<1>b. rows'[u] = rows[u] /\ index'[u] = index[u] => Finished(u)'
  BY <1>0, <1>a, FinishedKept
<1> USE <1>b
<1> USE DEF driverVars, probeVars, objectVars
<1>1. ASSUME NEW t \in Threads, EngineInfo(t), UNCHANGED objectVars PROVE Finished(u)'
  BY <1>1 DEF EngineInfo
<1>2. ASSUME NEW t \in Threads, EngineInfoFails(t), UNCHANGED objectVars PROVE Finished(u)'
  BY <1>2 DEF EngineInfoFails
<1>3. ASSUME NEW t \in Threads, SkipDevice(t), UNCHANGED objectVars PROVE Finished(u)'
  <2>1. CASE u # t
    BY <1>3, <2>1 DEF SkipDevice
  <2>2. CASE u = t
    <3>1. rows'[u] = rows[u] /\ index'[u] = index[u] + 1 /\ faults' # 0
      BY <1>3, <2>2, <1>0 DEF SkipDevice, Fail
    <3>2. QED
      BY <3>1, <1>0, FinishedKept
  <2>3. QED
    BY <2>1, <2>2
<1>4. ASSUME NEW t \in Threads, ProbeDevice(t), UNCHANGED objectVars PROVE Finished(u)'
  BY <1>4 DEF ProbeDevice
<1>5. ASSUME NEW t \in Threads, EngineInfoDone(t), UNCHANGED objectVars PROVE Finished(u)'
  <2>1. CASE u # t
    BY <1>5, <2>1 DEF EngineInfoDone
  <2>2. CASE u = t
    <3>1. rows'[u] = <<>> /\ index'[u] = 0
      BY <1>5, <2>2, <1>0 DEF EngineInfoDone
    <3>2. QED
      BY <3>1, EmptySeq DEF Finished
  <2>3. QED
    BY <2>1, <2>2
<1>6. ASSUME NEW t \in Threads, ProbeDecode(t), UNCHANGED objectVars PROVE Finished(u)'
  BY <1>6 DEF ProbeDecode
<1>7. ASSUME NEW t \in Threads, ProbeDecode10(t), UNCHANGED objectVars PROVE Finished(u)'
  BY <1>7 DEF ProbeDecode10
<1>8. ASSUME NEW t \in Threads, OpenFails(t), UNCHANGED objectVars PROVE Finished(u)'
  BY <1>8 DEF OpenFails
<1>9. ASSUME NEW t \in Threads, OpenSession(t), UNCHANGED objectVars PROVE Finished(u)'
  BY <1>9 DEF OpenSession
<1>10. ASSUME NEW t \in Threads, GuidsFail(t), UNCHANGED objectVars PROVE Finished(u)'
  BY <1>10 DEF GuidsFail
<1>11. ASSUME NEW t \in Threads, EnumerateGuids(t), UNCHANGED objectVars PROVE Finished(u)'
  BY <1>11 DEF EnumerateGuids
<1>12. ASSUME NEW t \in Threads, GetCaps(t), UNCHANGED objectVars PROVE Finished(u)'
  BY <1>12 DEF GetCaps
<1>13. ASSUME NEW t \in Threads, CloseSession(t), UNCHANGED objectVars PROVE Finished(u)'
  BY <1>13 DEF CloseSession
<1>14. ASSUME NEW t \in Threads, ProbeDeviceDone(t), UNCHANGED objectVars PROVE Finished(u)'
  <2>1. CASE u # t
    BY <1>14, <2>1 DEF ProbeDeviceDone
  <2>2. CASE u = t
    <3>1. /\ rows'[u] = Append(rows[u], row[u]) /\ index'[u] = index[u] + 1
          /\ faults' = faults /\ pc[u] = "drop"
      BY <1>14, <2>2, <1>0 DEF ProbeDeviceDone
    <3>2. /\ row[u].device = index[u] /\ Backed(row[u])
          /\ faults = 0 => Complete(row[u])
      BY <3>1 DEF RowSound, RowOf, SoFar, ProbeHolds
    <3>3. QED
      BY <3>1, <3>2, <1>0, FinishedGrows
  <2>3. QED
    BY <2>1, <2>2
<1>15. ASSUME NEW t \in Threads, Precheck(t) PROVE Finished(u)'
  BY <1>15 DEF Precheck
<1>16. ASSUME NEW t \in Threads, PrecheckRefuses(t) PROVE Finished(u)'
  BY <1>16 DEF PrecheckRefuses
<1>17. ASSUME NEW t \in Threads, SelectRefuses(t) PROVE Finished(u)'
  BY <1>17 DEF SelectRefuses
<1>18. ASSUME NEW t \in Threads, Select(t) PROVE Finished(u)'
  BY <1>18 DEF Select
<1>19. ASSUME NEW t \in Threads, MakeFails(t) PROVE Finished(u)'
  BY <1>19 DEF MakeFails
<1>20. ASSUME NEW t \in Threads, MakeParser(t) PROVE Finished(u)'
  BY <1>20 DEF MakeParser
<1>21. ASSUME NEW t \in Threads, PopCreation(t) PROVE Finished(u)'
  BY <1>21 DEF PopCreation
<1>22. ASSUME NEW t \in Threads, MakeEncoder(t) PROVE Finished(u)'
  BY <1>22 DEF MakeEncoder
<1>23. ASSUME NEW t \in Threads, Unbind(t) PROVE Finished(u)'
  BY <1>23 DEF Unbind
<1>24. ASSUME NEW t \in Threads, DropDecoder(t) PROVE Finished(u)'
  BY <1>24 DEF DropDecoder
<1>25. ASSUME NEW t \in Threads, NEW o \in Objects, NEW i \in 0..Count, Make(t, o, i)
      PROVE  Finished(u)'
  BY <1>25 DEF Make
<1>26. ASSUME NEW t \in Threads, NEW d \in Decoders, NEW step \in Guarded, Bind(t, d, step)
      PROVE  Finished(u)'
  BY <1>26 DEF Bind
<1>27. ASSUME NEW t \in Threads, NEW e \in Encoders, DropEncoder(t, e) PROVE Finished(u)'
  BY <1>27 DEF DropEncoder
<1>28. CASE UNCHANGED vars
  BY <1>28 DEF vars
<1> HIDE DEF driverVars, probeVars, objectVars
<1>29. QED
  BY <1>1, <1>2, <1>3, <1>4, <1>5, <1>6, <1>7, <1>8, <1>9, <1>10, <1>11,
     <1>12, <1>13, <1>14, <1>15, <1>16, <1>17, <1>18, <1>19, <1>20, <1>21,
     <1>22, <1>23, <1>24, <1>25, <1>26, <1>27, <1>28
     DEF Next, Client, Running, ObjectStep, ProbeStep, Guarded

-----------------------------------------------------------------------------
(* The theorems.                                                           *)

IInv == TypeOK /\ Owners /\ Alone /\ StackKept /\ Exist /\ RowSound

\* The inductive invariant holds throughout.
THEOREM Invariant == Spec => []IInv
<1>1. Init => IInv
  BY TypeInit, OwnersInit, AloneInit, StackInit, ExistInit, RowInit DEF IInv
<1>2. IInv /\ [Next]_vars => IInv'
  <2> SUFFICES ASSUME IInv, [Next]_vars PROVE IInv'
    OBVIOUS
  <2>1. TypeOK' /\ Owners' /\ Alone' /\ StackKept'
    BY TypeStep, OwnersStep, AloneStep, StackStep DEF IInv
  <2>2. Exist'
    BY ThreadsExistStep, ObjectsExistStep DEF IInv, Exist
  <2>3. RowSound'
    BY RowOfStep, FinishedStep DEF IInv, RowSound
  <2>4. QED
    BY <2>1, <2>2, <2>3 DEF IInv
<1>3. QED
  BY <1>1, <1>2, PTL DEF Spec

\* Every variable keeps its type.
THEOREM TypesHold == Spec => []TypeOK
<1>1. IInv => TypeOK
  BY DEF IInv
<1>2. QED
  BY Invariant, <1>1, PTL

\* Whatever mixture of calls runs on a thread, and whatever fails in them, the
\* decoder's methods, its factory and the probe leave the thread's stack as
\* they found it, and an encoder leaves its own context.
THEOREM StacksAreKept == Spec => []StackKept
<1>1. IInv => StackKept
  BY DEF IInv
<1>2. QED
  BY Invariant, <1>1, PTL

\* Inside a call the current context is the call's own, and it exists, although
\* other threads make and destroy theirs.
THEOREM ContextsAreOwn == Spec => []OwnContext
<1>1. IInv => OwnContext
  <2> SUFFICES ASSUME IInv, NEW t \in Threads, Holds(t)
               PROVE  Current(stack[t]) = obj[t] /\ obj[t] \in live
    BY DEF OwnContext
  <2>1. Current(stack[t]) = obj[t]
    BY TakenOff DEF IInv
  <2>2. OwnerOf(t) /\ ThreadExists(t) /\ obj[t] \in Contexts
    BY DEF IInv, Owners, Exist, TypeOK
  <2>3. CASE pc[t] \in ProbeHolds
    <3>1. obj[t] = t /\ t \in live
      BY <2>2, <2>3 DEF OwnerOf, ThreadExists, ProbeSteps
    <3>2. QED
      BY <2>1, <3>1
  <2>4. CASE pc[t] \in MakeHolds \cup Guarded
    <3>1. obj[t] \in Objects /\ (pc[t] \in Guarded => phase[obj[t]] = "ready")
      BY <2>2, <2>4, ObjectAssumption DEF OwnerOf, MakeSteps
    <3>2. ObjectExists(obj[t])
      BY <3>1 DEF IInv, Exist
    <3>3. phase[obj[t]] = "ready" \/ Making(obj[t])
      BY <3>1, <2>4 DEF Making
    <3>4. QED
      BY <2>1, <3>2, <3>3 DEF ObjectExists
  <2>5. QED
    BY <2>1, <2>3, <2>4 DEF Holds
<1>2. QED
  BY Invariant, <1>1, PTL

\* No context and no session outlives the call or the object it was made for;
\* of the contexts on a stack, only an encoder's can be gone.
THEOREM NothingIsLeft == Spec => []NothingLeft
<1>1. IInv /\ OwnContext => NothingLeft
  <2> SUFFICES ASSUME IInv, OwnContext PROVE NothingLeft
    OBVIOUS
  <2>1. ASSUME NEW t \in Threads, NEW i \in DOMAIN stack[t]
        PROVE  stack[t][i] \in live \cup Encoders
    <3>1. left[t] \in Seq(Encoders)
      BY DEF IInv, TypeOK
    <3>2. CASE Holds(t)
      <4>1. stack[t] = Append(left[t], obj[t]) /\ obj[t] \in live
        BY <3>2 DEF IInv, StackKept, OwnContext
      <4>2. left[t] \in Seq(live \cup Encoders)
        BY <3>1, SeqMonotonic
      <4>3. stack[t] \in Seq(live \cup Encoders)
        BY <4>1, <4>2, AppendProperties
      <4>4. QED
        BY <4>3, ElementOfSeq, LenProperties
    <3>3. CASE ~Holds(t)
      <4>1. stack[t] = left[t]
        BY <3>3 DEF IInv, StackKept
      <4>2. QED
        BY <3>1, <4>1, ElementOfSeq, LenProperties
    <3>4. QED
      BY <3>2, <3>3
  <2>2. QED
    BY <2>1 DEF NothingLeft, IInv, Exist, ThreadExists, ObjectExists, Making
<1>2. QED
  BY Invariant, ContextsAreOwn, <1>1, PTL

\* What the probe's rows say is true of their devices, they are in the order of
\* the ordinals, and if no call fails they are complete and in their places.
THEOREM RowsAreTruthful == Spec => []RowsTruthful
<1>1. IInv => RowsTruthful
  BY DEF IInv, RowSound, Finished, Backed, RowsTruthful
<1>2. QED
  BY Invariant, <1>1, PTL
-----------------------------------------------------------------------------
(***************************************************************************)
(* Every call ends: no thread waits for another here, and a call has only  *)
(* so many steps left, which the steps of other threads do not add to. The *)
(* one loop is engine_info's, over the devices.                            *)
(***************************************************************************)

\* Steps to the end of one device of the probe, and of the other calls.
DeviceLeft == [device |-> 9, decode8 |-> 8, decode10 |-> 7, open |-> 6, guids |-> 5,
               caps |-> 4, close |-> 3, drop |-> 2]
CallLeft == [precheck |-> 5, select |-> 4, parser |-> 3, session |-> 3, pop |-> 2,
             destroy |-> 2, work |-> 1, drop_ctx |-> 1, idle |-> 0]
Rank(t) == IF pc[t] \in ProbeSteps \ {"idle"}
             THEN 10 * (Count - index[t]) + DeviceLeft[pc[t]]
             ELSE CallLeft[pc[t]]

\* Every step of a call uses up some of its rank, and no other thread's step
\* gives any back.
CallsAreFinite ==
  [][\A t \in Threads : pc[t] # "idle" =>
       /\ Rank(t)' <= Rank(t)
       /\ Running(t) => Rank(t)' < Rank(t)]_vars

\* What makes a rank well-founded.
RankNat == \A t \in Threads : Rank(t) \in Nat

\* The probe never goes past the last device.
LEMMA RankType == TypeOK => RankNat
<1> SUFFICES ASSUME TypeOK, NEW t \in Threads PROVE Rank(t) \in Nat
  BY DEF RankNat
<1>1. pc[t] \in Steps /\ index[t] \in 0..Count
  BY DEF TypeOK
<1>2. 10 * (Count - index[t]) \in Nat
  BY <1>1, ProbeAssumption
<1>3. CASE pc[t] \in ProbeSteps \ {"idle"}
  <2>1. DeviceLeft[pc[t]] \in Nat
    BY <1>3 DEF ProbeSteps, ProbeHolds, SessionSteps, DeviceLeft
  <2>2. QED
    BY <1>2, <1>3, <2>1 DEF Rank
<1>4. CASE pc[t] \notin ProbeSteps \ {"idle"}
  <2>1. CallLeft[pc[t]] \in Nat
    BY <1>1, <1>4 DEF Steps, ProbeSteps, ProbeHolds, SessionSteps, MakeHolds, Guarded,
                      CallLeft
  <2>2. QED
    BY <1>4, <2>1 DEF Rank
<1>5. QED
  BY <1>3, <1>4

\* RankType in the state after a step.
LEMMA RankTypeNext == TypeOK' => RankNat'
BY RankType, PTL

\* A step of thread t, in terms of the two variables a rank depends on.
LEMMA ObjectSteps ==
  ASSUME TypeOK, NEW t \in Threads, ObjectStep(t)
  PROVE  /\ \A u \in Threads \ {t} : pc'[u] = pc[u] /\ index'[u] = index[u]
         /\ pc[t] \notin ProbeSteps /\ pc'[t] \notin ProbeSteps \ {"idle"}
         /\ CallLeft[pc'[t]] < CallLeft[pc[t]]
<1> USE DEF TypeOK, Become, Refuse, Goto, Return, Enter, probeVars, CallLeft, ProbeSteps,
            ProbeHolds, SessionSteps
<1>1. CASE Precheck(t) \/ PrecheckRefuses(t)
  BY <1>1 DEF Precheck, PrecheckRefuses
<1>2. CASE SelectRefuses(t) \/ Select(t)
  BY <1>2 DEF SelectRefuses, Select
<1>3. CASE MakeFails(t) \/ MakeParser(t)
  BY <1>3 DEF MakeFails, MakeParser
<1>4. CASE PopCreation(t) \/ MakeEncoder(t)
  BY <1>4 DEF PopCreation, MakeEncoder
<1>5. CASE Unbind(t) \/ DropDecoder(t)
  BY <1>5 DEF Unbind, DropDecoder
<1>6. QED
  BY <1>1, <1>2, <1>3, <1>4, <1>5 DEF ObjectStep

\* A step of the probe goes on with its device, or to the next, or ends.
LEMMA ProbeSteppings ==
  ASSUME TypeOK, NEW t \in Threads, ProbeStep(t)
  PROVE  /\ \A u \in Threads \ {t} : pc'[u] = pc[u] /\ index'[u] = index[u]
         /\ pc[t] \in ProbeSteps \ {"idle"}
         /\ \/ pc'[t] = "idle"
            \/ /\ pc'[t] \in ProbeSteps \ {"idle"} /\ index'[t] = index[t]
               /\ DeviceLeft[pc'[t]] < DeviceLeft[pc[t]]
            \/ pc'[t] = "device" /\ index'[t] = index[t] + 1
<1> USE DEF TypeOK, Goto, Return, Enter, probeVars, DeviceLeft, ProbeSteps, ProbeHolds,
            SessionSteps
<1>1. CASE SkipDevice(t) \/ ProbeDevice(t) \/ EngineInfoDone(t)
  BY <1>1 DEF SkipDevice, ProbeDevice, EngineInfoDone
<1>2. CASE ProbeDecode(t) \/ ProbeDecode10(t)
  BY <1>2 DEF ProbeDecode, ProbeDecode10
<1>3. CASE OpenFails(t) \/ OpenSession(t)
  BY <1>3 DEF OpenFails, OpenSession
<1>4. CASE GuidsFail(t) \/ EnumerateGuids(t) \/ GetCaps(t)
  BY <1>4 DEF GuidsFail, EnumerateGuids, GetCaps, CloseNext
<1>5. CASE CloseSession(t)
  BY <1>5 DEF CloseSession
<1>6. CASE ProbeDeviceDone(t)
  <2>1. /\ pc[t] = "drop" /\ pc' = [pc EXCEPT ![t] = "device"]
        /\ index' = [index EXCEPT ![t] = index[t] + 1]
    BY <1>6 DEF ProbeDeviceDone
  <2>2. pc'[t] = "device" /\ index'[t] = index[t] + 1
    BY <2>1
  <2>3. \A u \in Threads \ {t} : pc'[u] = pc[u] /\ index'[u] = index[u]
    BY <2>1
  <2>4. pc[t] \in ProbeSteps \ {"idle"}
    BY <2>1
  <2>5. QED
    BY <2>2, <2>3, <2>4
<1>7. QED
  BY <1>1, <1>2, <1>3, <1>4, <1>5, <1>6 DEF ProbeStep

\* Ten is more than the steps one device takes.
LEMMA DeviceSteps ==
  ASSUME NEW s \in ProbeSteps \ {"idle"}
  PROVE  DeviceLeft[s] \in 2..9
BY DEF ProbeSteps, ProbeHolds, SessionSteps, DeviceLeft

\* The rank falls with every step of the thread's own call.
LEMMA RankFalls ==
  ASSUME TypeOK, TypeOK', NEW t \in Threads, Running(t)
  PROVE  Rank(t)' < Rank(t)
<1>1. index[t] \in Int /\ index'[t] \in Int /\ Count \in Int /\ index[t] <= Count
  BY ProbeAssumption DEF TypeOK
<1>2. CASE ObjectStep(t)
  <2>1. /\ pc[t] \notin ProbeSteps \ {"idle"} /\ pc'[t] \notin ProbeSteps \ {"idle"}
        /\ CallLeft[pc'[t]] < CallLeft[pc[t]]
    BY <1>2, ObjectSteps
  <2>2. QED
    BY <2>1 DEF Rank
<1>3. CASE ProbeStep(t)
  <2>1. pc[t] \in ProbeSteps \ {"idle"}
    BY <1>3, ProbeSteppings
  <2>2. Rank(t) = 10 * (Count - index[t]) + DeviceLeft[pc[t]]
        /\ DeviceLeft[pc[t]] \in 2..9
    BY <2>1, DeviceSteps DEF Rank
  <2>3. CASE pc'[t] = "idle"
    <3>1. Rank(t)' = 0
      BY <2>3 DEF Rank, CallLeft
    <3>2. QED
      BY <1>1, <2>2, <3>1
  <2>4. CASE /\ pc'[t] \in ProbeSteps \ {"idle"} /\ index'[t] = index[t]
             /\ DeviceLeft[pc'[t]] < DeviceLeft[pc[t]]
    <3>1. Rank(t)' = 10 * (Count - index[t]) + DeviceLeft[pc'[t]]
          /\ DeviceLeft[pc'[t]] \in 2..9
      BY <2>4, DeviceSteps DEF Rank
    <3>2. QED
      BY <1>1, <2>2, <2>4, <3>1
  <2>5. CASE pc'[t] = "device" /\ index'[t] = index[t] + 1
    <3>1. Rank(t)' = 10 * (Count - (index[t] + 1)) + 9
      BY <2>5 DEF Rank, DeviceLeft, ProbeSteps
    <3>2. QED
      BY <1>1, <2>2, <3>1
  <2>6. QED
    BY <1>3, <2>3, <2>4, <2>5, ProbeSteppings
<1>4. QED
  BY <1>2, <1>3 DEF Running

\* No call of the client goes on for ever, however many threads, objects and
\* devices there are, and however their steps are interleaved.
THEOREM CallsTerminate == Spec => CallsAreFinite
<1>1. ASSUME TypeOK, TypeOK', [Next]_vars, NEW t \in Threads, pc[t] # "idle"
      PROVE  Rank(t)' <= Rank(t)
  <2>1. Rank(t) \in Nat /\ Rank(t)' \in Nat
    BY <1>1, RankType, RankTypeNext DEF RankNat
  <2>2. ASSUME pc'[t] = pc[t], index'[t] = index[t] PROVE Rank(t)' <= Rank(t)
    <3>1. Rank(t)' = Rank(t)
      BY <2>2 DEF Rank
    <3>2. QED
      BY <2>1, <3>1
  <2>3. ASSUME NEW u \in Threads, Running(u) PROVE Rank(t)' <= Rank(t)
    <3>1. CASE u = t
      BY <1>1, <2>1, <2>3, <3>1, RankFalls
    <3>2. CASE u # t
      <4>1. pc'[t] = pc[t] /\ index'[t] = index[t]
        BY <1>1, <2>3, <3>2, ObjectSteps, ProbeSteppings DEF Running
      <4>2. QED
        BY <2>2, <4>1
    <3>3. QED
      BY <3>1, <3>2
  <2>4. ASSUME NEW u \in Threads, Client(u) PROVE Rank(t)' <= Rank(t)
    <3>1. CASE EngineInfo(u) \/ EngineInfoFails(u)
      BY <1>1, <2>2, <3>1
         DEF EngineInfo, EngineInfoFails, Enter, probeVars, TypeOK
    <3>2. ASSUME NEW o \in Objects, NEW i \in 0..Count, Make(u, o, i)
          PROVE  Rank(t)' <= Rank(t)
      BY <1>1, <2>2, <3>2 DEF Make, Enter, probeVars, TypeOK
    <3>3. ASSUME NEW d \in Decoders, NEW step \in {"work", "destroy"}, Bind(u, d, step)
          PROVE  Rank(t)' <= Rank(t)
      BY <1>1, <2>2, <3>3 DEF Bind, Enter, probeVars, TypeOK
    <3>4. ASSUME NEW e \in Encoders, DropEncoder(u, e) PROVE Rank(t)' <= Rank(t)
      BY <1>1, <2>2, <3>4 DEF DropEncoder, probeVars
    <3>5. QED
      BY <2>4, <3>1, <3>2, <3>3, <3>4 DEF Client
  <2>5. CASE UNCHANGED vars
    BY <2>2, <2>5 DEF vars, probeVars
  <2>6. QED
    BY <1>1, <2>3, <2>4, <2>5 DEF Next
<1>2. TypeOK /\ TypeOK' /\ [Next]_vars =>
        [\A t \in Threads : pc[t] # "idle" => /\ Rank(t)' <= Rank(t)
                                              /\ Running(t) => Rank(t)' < Rank(t)]_vars
  BY <1>1, RankFalls
<1>3. QED
  BY <1>2, TypesHold, PTL DEF Spec, CallsAreFinite
===============================================================================
