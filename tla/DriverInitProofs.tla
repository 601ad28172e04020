-------------------------- MODULE DriverInitProofs --------------------------
(***************************************************************************)
(* Proofs about DriverInit for every set of threads and every number of    *)
(* libraries. The inductive invariant:                                     *)
(*   Shape      where a thread can be, and what is then in the cells;      *)
(*   Exclusive  one thread at a time is inside an initialiser;             *)
(*   Cached     what the history remembers agrees with the cells;          *)
(*   Libs       whose handles the dynamic linker counts;                   *)
(*   Results    how the cells depend on each other.                        *)
(***************************************************************************)
EXTENDS DriverInit, Integers, TLAPS

\* The steps inside a loader, on the way out with an error included, and inside
\* any initialiser.
Loading == {"open"} \cup Missing
Busy    == {"driver"} \cup Loading

\* Thread t is inside the initialiser of cell c.
Inside(t, c) == within[t] = c \/ (at[t] = c /\ step[t] \in Busy)

Shape ==
  \A t \in Threads :
    /\ at[t] = "none" => within[t] = "none" /\ step[t] = "get"
    /\ within[t] # "none" =>
         /\ at[t] = "VTABLE" /\ within[t] \in Cells \ Loaders
         /\ step[t] # "driver"
    /\ step[t] \in Loading => at[t] \in Loaders
    /\ step[t] = "driver" => at[t] \in Cells \ Loaders /\ Done("VTABLE")

Exclusive ==
  /\ \A t \in Threads, c \in Cells : Inside(t, c) => cell[c] = "running"
  /\ \A t, u \in Threads, c \in Cells : Inside(t, c) /\ Inside(u, c) => t = u

Cached ==
  \A c \in Cells :
    /\ begun[c] = IF cell[c] = "empty" THEN 0 ELSE 1
    /\ \A v \in answers[c] : cell[c] = v

Libs ==
  /\ LibrariesHeld
  /\ \A c \in Loaders : /\ cell[c] = "empty" => opened[c] = 0
                        /\ cell[c] = "ok" => opened[c] = LibraryCount

Results ==
  /\ OkMeansResolved
  /\ \A c \in Loaders : cell[c] # "driver"
  /\ registry = "registered" => cell["FRAMEWORK"] = "ok"

IInv == TypeOK /\ Shape /\ Exclusive /\ Cached /\ Libs /\ Results

LEMMA InitInv == Init => IInv
<1> SUFFICES ASSUME Init PROVE IInv
  OBVIOUS
<1> USE LibraryAssumption DEF Init, Cells, Loaders, Values, Failures, Missing
<1>1. TypeOK
  BY DEF TypeOK, Libraries
<1>2. Shape /\ Exclusive
  BY DEF Shape, Exclusive, Inside, Busy, Loading, Missing
<1>3. Cached
  BY DEF Cached
<1>4. Libs
  BY DEF Libs, LibrariesHeld, Held, Libraries
<1>5. Results
  BY DEF Results, OkMeansResolved
<1>6. QED
  BY <1>1, <1>2, <1>3, <1>4, <1>5 DEF IInv

LEMMA CallInv ==
  ASSUME IInv, NEW t \in Threads, NEW c \in Cells, Call(t, c)
  PROVE  IInv'
<1> USE DEF IInv, Call, linkerVars, historyVars
<1>1. TypeOK'
  BY DEF TypeOK
<1>2. Shape' /\ Exclusive'
  BY DEF TypeOK, Shape, Exclusive, Inside, Cells, Loaders, Done, Busy, Loading, Missing
<1>3. Cached' /\ Libs' /\ Results'
  BY DEF Cached, Libs, LibrariesHeld, Held, Results, OkMeansResolved
<1>4. QED
  BY <1>1, <1>2, <1>3

LEMMA BeginInv ==
  ASSUME IInv, NEW t \in Threads, Begin(t)
  PROVE  IInv'
<1> USE DEF IInv
<1> DEFINE c == at[t]
<1>1. c \in Cells /\ cell[c] = "empty" /\ step[t] = "get"
  BY DEF Begin, Vacant, TypeOK
<1>2. cell' = [cell EXCEPT ![c] = "running"] /\ begun' = [begun EXCEPT ![c] = @ + 1]
      /\ UNCHANGED <<opened, refs, installed, registry, answers>>
  BY DEF Begin, linkerVars
<1>3. within[t] = "none" \/ c = "VTABLE"
  BY DEF Shape, Loading, Missing
<1>4. TypeOK'
  BY <1>1, <1>2 DEF Begin, TypeOK, Asks, Cells, Loaders
<1>5. \A u \in Threads : ~Inside(u, c)
  BY <1>1 DEF Exclusive
<1>6. ASSUME c \in Loaders PROVE Shape' /\ Exclusive'
  <2>1. at' = at /\ within' = within /\ step' = [step EXCEPT ![t] = "open"]
    BY <1>6 DEF Begin, Asks
  <2>2. Shape'
    BY <1>1, <1>2, <1>6, <2>1 DEF Shape, TypeOK, Done, Cells, Loaders, Values,
                                  Failures, Missing, Loading
  <2>3. Exclusive'
    BY <1>1, <1>2, <1>5, <1>6, <2>1 DEF Shape, Exclusive, TypeOK, Inside, Loaders,
                                        Cells, Busy, Loading, Missing
  <2>4. QED
    BY <2>2, <2>3
<1>7. ASSUME c \notin Loaders PROVE Shape' /\ Exclusive'
  <2>1. /\ within' = [within EXCEPT ![t] = c] /\ step' = step
        /\ at' = [at EXCEPT ![t] = "VTABLE"]
    BY <1>7 DEF Begin, Asks
  <2>2. Shape'
    BY <1>1, <1>2, <1>7, <2>1 DEF Shape, TypeOK, Done, Cells, Loaders, Values,
                                  Failures, Missing, Loading
  <2>3. Exclusive'
    BY <1>1, <1>2, <1>3, <1>5, <1>7, <2>1
       DEF Shape, Exclusive, TypeOK, Inside, Loaders, Cells, Busy, Loading, Missing
  <2>4. QED
    BY <2>2, <2>3
<1>8. Cached'
  BY <1>1, <1>2 DEF Cached, TypeOK, Values, Failures, Missing
<1>9. Libs'
  BY <1>1, <1>2 DEF Libs, LibrariesHeld, Held, TypeOK, Loaders, Cells, Failures,
                    Missing
<1>10. Results'
  BY <1>1, <1>2 DEF Results, OkMeansResolved, TypeOK, Loaders, Cells, Missing
<1>11. QED
  BY <1>4, <1>6, <1>7, <1>8, <1>9, <1>10

LEMMA AnswerInv ==
  ASSUME IInv, NEW t \in Threads, Answer(t)
  PROVE  IInv'
<1> USE DEF IInv, Answer
<1>1. at[t] \in Cells /\ Done(at[t]) /\ UNCHANGED <<cell, opened, refs, begun>>
  BY DEF TypeOK, linkerVars
<1>2. TypeOK'
  BY <1>1 DEF TypeOK, Done, linkerVars
<1>3. Shape'
  BY <1>1 DEF Shape, TypeOK, Done, Cells, Loaders, Loading, Missing
<1>4. Exclusive'
  BY <1>1 DEF Exclusive, Shape, TypeOK, Inside, Done, Cells, Loaders, Values, Failures,
              Missing, Busy, Loading
<1>5. Cached'
  BY <1>1 DEF Cached, TypeOK
<1>6. Libs' /\ Results'
  BY <1>1 DEF Libs, LibrariesHeld, Held, Results, OkMeansResolved
<1>7. QED
  BY <1>2, <1>3, <1>4, <1>5, <1>6

\* Whatever an initialiser ends with, its thread was alone in it, and it was
\* running: only the cell it owns changes, once.
LEMMA MadeShape ==
  ASSUME IInv, NEW t \in Threads, NEW value \in Values, Made(t, value),
         step[t] \in Busy
  PROVE  /\ at[t] \in Cells /\ cell[at[t]] = "running"
         /\ cell' = [cell EXCEPT ![at[t]] = value]
         /\ Shape' /\ Exclusive' /\ Cached'
<1> USE DEF IInv, Made, historyVars
<1>1. at[t] \in Cells /\ cell[at[t]] = "running"
  BY DEF TypeOK, Shape, Exclusive, Inside, Loaders, Cells, Busy, Loading, Missing
<1>2. Done("VTABLE") => Done("VTABLE")'
  BY <1>1 DEF TypeOK, Done, Cells, Loaders, Values, Failures, Missing
<1>3. Shape'
  BY <1>1, <1>2 DEF Shape, TypeOK, Cells, Loaders, Loading, Missing
<1>4. Exclusive'
  BY <1>1 DEF Exclusive, Shape, TypeOK, Inside, Cells, Loaders, Busy, Loading, Missing
<1>5. Cached'
  BY <1>1 DEF Cached, TypeOK, Values, Failures, Missing
<1>6. QED
  BY <1>1, <1>3, <1>4, <1>5

LEMMA OpenInv ==
  ASSUME IInv, NEW t \in Threads, Open(t)
  PROVE  IInv'
<1> USE LibraryAssumption DEF IInv, Open
<1> DEFINE c == at[t]
           lib == opened[c] + 1
<1>1. c \in Loaders /\ cell[c] = "running"
  BY DEF Shape, Exclusive, Inside, Loaders, Cells, Busy, Loading, Missing
<1>2. lib \in Libraries /\ lib \in Nat /\ opened[c] \in Nat
  BY <1>1 DEF TypeOK, Libraries
<1>3. opened' = [opened EXCEPT ![c] = lib] /\ refs' = [refs EXCEPT ![lib] = @ + 1]
      /\ UNCHANGED <<cell, at, within, step, installed, registry, answers, begun>>
  BY DEF threadVars, historyVars
<1>4. TypeOK'
  <2>1. opened' \in [Loaders -> 0..LibraryCount]
    BY <1>1, <1>2, <1>3 DEF TypeOK, Libraries
  <2>2. refs' \in [Libraries -> Nat]
    BY <1>2, <1>3 DEF TypeOK
  <2>3. QED
    BY <1>3, <2>1, <2>2 DEF TypeOK
<1>5. LibrariesHeld'
  <2>1. ASSUME NEW l \in Libraries
        PROVE  refs'[l] = Held("VTABLE", l)' + Held("FRAMEWORK", l)'
    <3>1. l \in Nat /\ refs[l] \in Nat
      BY DEF TypeOK, Libraries
    <3>2. refs[l] = Held("VTABLE", l) + Held("FRAMEWORK", l)
      BY DEF Libs, LibrariesHeld
    <3>3. CASE l = lib
      BY <1>1, <1>2, <1>3, <3>1, <3>2, <3>3 DEF TypeOK, Held, Loaders
    <3>4. CASE l # lib
      BY <1>1, <1>2, <1>3, <3>1, <3>2, <3>4 DEF TypeOK, Held, Loaders
    <3>5. QED
      BY <3>3, <3>4
  <2>2. \A d \in Loaders : cell'[d] \in Failures => opened'[d] = 0
    BY <1>1, <1>3 DEF Libs, LibrariesHeld, TypeOK, Failures, Missing
  <2>3. QED
    BY <2>1, <2>2 DEF LibrariesHeld
<1>6. Libs'
  BY <1>1, <1>3, <1>5 DEF Libs, TypeOK
<1>7. Shape' /\ Exclusive'
  BY <1>3 DEF Shape, Exclusive, Inside, Done, Busy, Loading, Missing
<1>8. Cached' /\ Results'
  BY <1>3 DEF Cached, Results, OkMeansResolved
<1>9. QED
  BY <1>4, <1>6, <1>7, <1>8

\* A loader that meets an error is left, and nothing else has changed yet.
LEMMA LeaveInv ==
  ASSUME IInv, NEW t \in Threads, OpenFails(t) \/ SymbolMissing(t)
  PROVE  IInv'
<1> USE DEF IInv
<1>1. PICK error \in Missing : step' = [step EXCEPT ![t] = error]
  BY DEF OpenFails, SymbolMissing, Missing
<1>2. /\ step[t] = "open"
      /\ UNCHANGED <<cell, at, within, opened, refs, installed, registry, answers, begun>>
  BY DEF OpenFails, SymbolMissing, linkerVars, historyVars
<1>3. TypeOK'
  BY <1>1, <1>2 DEF TypeOK
<1>4. Shape' /\ Exclusive'
  BY <1>1, <1>2 DEF Shape, Exclusive, Inside, Busy, Loading, Missing, TypeOK, Done
<1>5. Cached' /\ Libs' /\ Results'
  BY <1>2 DEF Cached, Libs, LibrariesHeld, Held, Results, OkMeansResolved
<1>6. QED
  BY <1>3, <1>4, <1>5

\* On the way out, one handle after the other is given back.
LEMMA CloseInv ==
  ASSUME IInv, NEW t \in Threads, Close(t)
  PROVE  IInv'
<1> USE LibraryAssumption DEF IInv, Close
<1> DEFINE c == at[t]
           lib == opened[c]
<1>1. c \in Loaders /\ cell[c] = "running"
  BY DEF Shape, Exclusive, Inside, Loaders, Cells, Busy, Loading, Missing
<1>2. lib \in Libraries /\ lib \in Nat /\ lib > 0
  BY <1>1 DEF TypeOK, Libraries
<1>3. opened' = [opened EXCEPT ![c] = lib - 1] /\ refs' = [refs EXCEPT ![lib] = @ - 1]
      /\ UNCHANGED <<cell, at, within, step, installed, registry, answers, begun>>
  BY DEF CloseLibrary, threadVars, historyVars
<1>4. LibrariesHeld'
  <2>1. ASSUME NEW l \in Libraries
        PROVE  refs'[l] = Held("VTABLE", l)' + Held("FRAMEWORK", l)'
    <3>1. l \in Nat /\ refs[l] \in Nat
      BY DEF TypeOK, Libraries
    <3>2. refs[l] = Held("VTABLE", l) + Held("FRAMEWORK", l)
      BY DEF Libs, LibrariesHeld
    <3>3. CASE l = lib
      BY <1>1, <1>2, <1>3, <3>1, <3>2, <3>3 DEF TypeOK, Held, Loaders
    <3>4. CASE l # lib
      BY <1>1, <1>2, <1>3, <3>1, <3>2, <3>4 DEF TypeOK, Held, Loaders
    <3>5. QED
      BY <3>3, <3>4
  <2>2. \A d \in Loaders : cell'[d] \in Failures => opened'[d] = 0
    BY <1>1, <1>3 DEF Libs, LibrariesHeld, TypeOK, Failures, Missing
  <2>3. QED
    BY <2>1, <2>2 DEF LibrariesHeld
<1>5. TypeOK'
  <2>1. opened' \in [Loaders -> 0..LibraryCount]
    BY <1>1, <1>2, <1>3 DEF TypeOK, Libraries
  <2>2. refs' \in [Libraries -> Nat]
    <3>1. \A l \in Libraries : Held("VTABLE", l)' \in Nat /\ Held("FRAMEWORK", l)' \in Nat
      BY DEF Held
    <3>2. \A l \in Libraries : refs'[l] \in Nat
      BY <1>4, <3>1 DEF LibrariesHeld
    <3>3. refs' = [l \in Libraries |-> refs'[l]]
      BY <1>3 DEF TypeOK
    <3>4. QED
      BY <3>2, <3>3
  <2>3. QED
    BY <1>3, <2>1, <2>2 DEF TypeOK
<1>6. Libs'
  BY <1>1, <1>3, <1>4 DEF Libs, TypeOK
<1>7. Shape' /\ Exclusive'
  BY <1>3 DEF Shape, Exclusive, Inside, Done, Busy, Loading, Missing
<1>8. Cached' /\ Results'
  BY <1>3 DEF Cached, Results, OkMeansResolved
<1>9. QED
  BY <1>5, <1>6, <1>7, <1>8

\* A loader ends with an error only when it has given every handle back.
LEMMA FailInv ==
  ASSUME IInv, NEW t \in Threads, Fail(t)
  PROVE  IInv'
<1> USE DEF IInv, Fail
<1> DEFINE c == at[t]
           value == step[t]
<1>1. c \in Loaders /\ c \in Cells /\ value \in Missing /\ value \in Values
  BY DEF Shape, Loaders, Cells, Loading, Values, Failures, Missing
<1>2. cell[c] = "running" /\ cell' = [cell EXCEPT ![c] = value]
      /\ Shape' /\ Exclusive' /\ Cached'
  BY <1>1, MadeShape DEF Busy, Loading
<1>3. UNCHANGED <<opened, refs>> /\ opened[c] = 0
  BY DEF linkerVars
<1>4. TypeOK'
  BY <1>1, <1>2, <1>3 DEF TypeOK, Made, historyVars, Missing
<1>5. Libs'
  BY <1>1, <1>2, <1>3 DEF Libs, LibrariesHeld, Held, TypeOK, Missing
<1>6. Results'
  BY <1>1, <1>2
     DEF Results, OkMeansResolved, Made, historyVars, TypeOK, Loaders, Cells, Missing
<1>7. QED
  BY <1>2, <1>4, <1>5, <1>6

LEMMA LoadedInv ==
  ASSUME IInv, NEW t \in Threads, Loaded(t)
  PROVE  IInv'
<1> USE DEF IInv, Loaded
<1> DEFINE c == at[t]
<1>1. c \in Loaders /\ cell[c] = "running"
  BY DEF Shape, Exclusive, Inside, Loaders, Cells, Busy, Loading, Missing
<1>2. cell' = [cell EXCEPT ![c] = "ok"] /\ Shape' /\ Exclusive' /\ Cached'
  BY MadeShape DEF Values, Busy, Loading
<1>3. UNCHANGED <<opened, refs>> /\ opened[c] = LibraryCount
  BY DEF KeepLibraries, linkerVars
<1>4. TypeOK'
  BY <1>2, <1>3 DEF TypeOK, Made, historyVars, Values
<1>5. Libs'
  BY <1>1, <1>2, <1>3 DEF Libs, LibrariesHeld, Held, TypeOK, Loaders, Cells, Failures,
                          Missing
<1>6. Results'
  BY <1>1, <1>2 DEF Results, OkMeansResolved, Made, historyVars, TypeOK, Loaders,
                    Cells, Missing
<1>7. QED
  BY <1>2, <1>4, <1>5, <1>6

LEMMA DriverInv ==
  ASSUME IInv, NEW t \in Threads, NotResolved(t) \/ DriverCall(t)
  PROVE  IInv'
<1> USE DEF IInv
<1> DEFINE c == at[t]
<1>1. step[t] = "driver" /\ c \in Cells \ Loaders /\ Done("VTABLE")
  BY DEF NotResolved, DriverCall, Shape, Loading, Missing
<1>2. PICK value \in Values :
        /\ Made(t, value)
        /\ value \in {"ok", "driver"} => cell["VTABLE"] = "ok"
        /\ value \in {"dlopen", "dlsym"} => cell["VTABLE"] = value
  <2>1. CASE NotResolved(t)
    <3>1. Made(t, cell["VTABLE"]) /\ cell["VTABLE"] # "ok"
      BY <2>1 DEF NotResolved, Resolved
    <3>2. cell["VTABLE"] \in Values /\ cell["VTABLE"] # "driver"
      BY <1>1 DEF Done, Results, Loaders
    <3>3. QED
      BY <3>1, <3>2
  <2>2. CASE DriverCall(t)
    BY <2>2 DEF DriverCall, Resolved, Values, Failures, Missing
  <2>3. QED
    BY <2>1, <2>2
<1>3. cell[c] = "running" /\ cell' = [cell EXCEPT ![c] = value]
      /\ Shape' /\ Exclusive' /\ Cached'
  BY <1>1, <1>2, MadeShape DEF Busy
<1>4. UNCHANGED <<opened, refs>>
  BY DEF NotResolved, DriverCall, linkerVars
<1>5. TypeOK'
  <2>1. cell' \in [Cells -> {"empty", "running"} \cup Values]
    BY <1>3 DEF TypeOK
  <2>2. step' \in [Threads -> {"get", "open", "driver", "made"} \cup Missing]
    BY <1>2 DEF TypeOK, Made
  <2>3. UNCHANGED <<at, within, installed, registry, answers, begun>>
    BY <1>2 DEF Made, historyVars
  <2>4. QED
    BY <1>4, <2>1, <2>2, <2>3 DEF TypeOK
<1>6. \A d \in Loaders : cell'[d] = cell[d]
  BY <1>1, <1>3 DEF TypeOK
<1>7. Libs'
  BY <1>4, <1>6 DEF Libs, LibrariesHeld, Held
<1>8. Results'
  BY <1>1, <1>2, <1>3, <1>6
     DEF Results, OkMeansResolved, Made, historyVars, TypeOK, Loaders, Cells, Missing
<1>9. QED
  BY <1>3, <1>5, <1>7, <1>8

LEMMA InstallInv ==
  ASSUME IInv,
         UNCHANGED vars \/ \E libs \in SUBSET Libraries : Install(libs)
  PROVE  IInv'
<1>1. UNCHANGED <<cell, at, within, step, opened, refs, registry, answers, begun>>
      /\ installed' \subseteq Libraries
  BY DEF IInv, TypeOK, Install, vars, threadVars, linkerVars, historyVars
<1>2. TypeOK'
  BY <1>1 DEF IInv, TypeOK
<1>3. Shape' /\ Exclusive'
  BY <1>1 DEF IInv, Shape, Exclusive, Inside, Done, Busy, Loading, Missing
<1>4. Cached' /\ Libs' /\ Results'
  BY <1>1 DEF IInv, Cached, Libs, LibrariesHeld, Held, Results, OkMeansResolved
<1>5. QED
  BY <1>2, <1>3, <1>4 DEF IInv

LEMMA StepInv == IInv /\ [Next]_vars => IInv'
<1> SUFFICES ASSUME IInv, [Next]_vars PROVE IInv'
  OBVIOUS
<1>1. QED
  BY CallInv, BeginInv, AnswerInv, OpenInv, LeaveInv, CloseInv, FailInv, LoadedInv,
     DriverInv, InstallInv
     DEF Next, Running

LEMMA Invariant == Spec => []IInv
<1>1. QED
  BY InitInv, StepInv, PTL DEF Spec

-----------------------------------------------------------------------------
\* Every variable keeps its type; in particular no handle is closed twice.
THEOREM TypesHold == Spec => []TypeOK
<1>1. IInv => TypeOK
  BY DEF IInv
<1>2. QED
  BY <1>1, Invariant, PTL

\* Every initialiser of the process runs at most once, for any number of
\* threads.
THEOREM InitialisedOnce == Spec => []InitOnce
<1>1. IInv => InitOnce
  BY DEF IInv, Cached, InitOnce
<1>2. QED
  BY <1>1, Invariant, PTL

\* All callers of a cell have the same answer.
THEOREM AnswersAreOne == Spec => []AnswersAgree
<1>1. IInv => AnswersAgree
  BY DEF IInv, Cached, AnswersAgree
<1>2. QED
  BY <1>1, Invariant, PTL

\* The linker holds exactly the handles that the loaders own.
THEOREM HandlesBalance == Spec => []LibrariesHeld
<1>1. IInv => LibrariesHeld
  BY DEF IInv, Libs
<1>2. QED
  BY <1>1, Invariant, PTL

LEMMA OkIsMapped ==
  ASSUME IInv, NEW c \in Loaders, cell[c] = "ok", NEW lib \in Libraries
  PROVE  refs[lib] > 0
<1>1. opened[c] = LibraryCount /\ lib \in Nat /\ lib <= LibraryCount
  BY LibraryAssumption DEF IInv, Libs, Libraries
<1>2. refs[lib] = Held("VTABLE", lib) + Held("FRAMEWORK", lib)
  BY DEF IInv, Libs, LibrariesHeld
<1>3. QED
  BY <1>1, <1>2 DEF Held, Loaders

\* While the vtable can be had, its libraries are mapped.
THEOREM PointersStayMapped == Spec => []PointersMapped
<1>1. IInv => PointersMapped
  BY OkIsMapped DEF PointersMapped, Loaders
<1>2. QED
  BY <1>1, Invariant, PTL

\* A cell that depends on the vtable is ready only if the vtable is, and fails
\* as the vtable failed.
THEOREM DependentsResolved == Spec => []OkMeansResolved
<1>1. IInv => OkMeansResolved
  BY DEF IInv, Results
<1>2. QED
  BY <1>1, Invariant, PTL

\* Once register() has put the factories in, no dlopen fails any more, for any
\* number of threads and libraries: FRAMEWORK keeps all of them open.
THEOREM GateIsSound == Spec => GateHolds
<1>1. ASSUME IInv, [Next]_vars, registry = "registered",
             NEW t \in Threads, step[t] = "open", step'[t] = "dlopen"
      PROVE  FALSE
  <2>1. \A lib \in Libraries : Opens(lib)
    BY <1>1, OkIsMapped DEF IInv, Results, Opens, Loaders
  <2>2. ASSUME NEW u \in Threads, OpenFails(u) PROVE FALSE
    <3>1. opened[at[u]] + 1 \in Libraries
      BY <1>1, <2>2, LibraryAssumption
         DEF OpenFails, IInv, TypeOK, Shape, Libraries, Loading, Missing
    <3>2. QED
      BY <2>1, <2>2, <3>1 DEF OpenFails
  <2>3. ASSUME NEW u \in Threads,
               \/ SymbolMissing(u) \/ Close(u) \/ Fail(u) \/ Loaded(u)
               \/ NotResolved(u) \/ DriverCall(u)
        PROVE  FALSE
    BY <1>1, <2>3
       DEF SymbolMissing, Close, Fail, Loaded, NotResolved, DriverCall, Made,
           threadVars, IInv, TypeOK
  <2>4. ASSUME NEW u \in Threads, Begin(u) \/ Answer(u) \/ Open(u)
        PROVE  FALSE
    BY <1>1, <2>4 DEF Begin, Answer, Open, threadVars, IInv, TypeOK
  <2>5. ASSUME NEW u \in Threads, NEW c \in Cells, Call(u, c) PROVE FALSE
    BY <1>1, <2>5 DEF Call, IInv, TypeOK
  <2>6. CASE UNCHANGED vars \/ \E libs \in SUBSET Libraries : Install(libs)
    BY <1>1, <2>6 DEF Install, vars, threadVars
  <2>7. QED
    BY <1>1, <2>2, <2>3, <2>4, <2>5, <2>6 DEF Next, Running
<1>2. IInv /\ [Next]_vars =>
        [registry = "registered" =>
           \A t \in Threads : step[t] = "open" => step'[t] # "dlopen"]_vars
  BY <1>1
<1>3. QED
  BY <1>2, Invariant, PTL DEF Spec, GateHolds
-----------------------------------------------------------------------------
(***************************************************************************)
(* What CallsReturn rests on. That an enabled thread is scheduled, and so  *)
(* that every call returns, stays with TLC; the two facts that make it so  *)
(* are proved here for any number of threads and libraries: in no state    *)
(* does everybody wait, and no call has an endless number of steps.        *)
(***************************************************************************)

InCall(t) == at[t] # "none"

\* get_or_init blocks while another thread runs the initialiser.
Waiting(t) == InCall(t) /\ step[t] = "get" /\ cell[at[t]] = "running"

\* A running cell has a thread inside its initialiser, and an initialiser that
\* has ended has left its value.
HasOwner ==
  /\ \A c \in Cells : cell[c] = "running" => \E t \in Threads : Inside(t, c)
  /\ \A t \in Threads : step[t] = "made" => InCall(t) /\ Done(at[t])

\* If any thread is inside a call, one is that does not wait for another.
NobodyStuck ==
  (\E t \in Threads : InCall(t)) => \E t \in Threads : InCall(t) /\ ~Waiting(t)

\* What lets thread t take its next step, action by action: the guards of
\* Begin and Answer; of Open, OpenFails, SymbolMissing and Loaded together; of
\* Close and Fail; of NotResolved and DriverCall together.
CanStep(t) ==
  \/ InCall(t) /\ step[t] = "get" /\ Vacant(at[t])
  \/ InCall(t) /\ step[t] \in {"get", "made"} /\ Done(at[t])
  \/ step[t] = "open" /\ opened[at[t]] < LibraryCount
  \/ step[t] = "open" /\ opened[at[t]] = LibraryCount
  \/ step[t] \in Missing /\ opened[at[t]] > 0
  \/ step[t] \in Missing /\ opened[at[t]] = 0
  \/ step[t] = "driver"

\* Begin hands the cell over to the thread that found it empty.
LEMMA OwnerBegin ==
  ASSUME IInv, HasOwner, NEW t \in Threads, Begin(t)
  PROVE  HasOwner'
<1> USE DEF IInv
<1>1. PICK c \in Cells : c = at[t] /\ cell[c] = "empty" /\ step[t] = "get"
  BY DEF Begin, Vacant, TypeOK
<1>2. cell' = [cell EXCEPT ![c] = "running"] /\ Inside(t, c)'
  BY <1>1 DEF Begin, Asks, Inside, TypeOK, Loaders, Cells, Busy, Loading, Missing
<1>3. ASSUME NEW u \in Threads, u # t
      PROVE  at'[u] = at[u] /\ within'[u] = within[u] /\ step'[u] = step[u]
  BY <1>3 DEF Begin, TypeOK
<1>4. ASSUME NEW d \in Cells, Inside(t, d) PROVE Inside(t, d)'
  BY <1>1, <1>4 DEF Begin, Asks, Shape, TypeOK, Inside, Cells, Loaders, Busy, Loading,
                    Missing
<1>5. ASSUME NEW d \in Cells, cell'[d] = "running"
      PROVE  \E u \in Threads : Inside(u, d)'
  <2>1. CASE d = c
    BY <1>2, <2>1
  <2>2. CASE d # c
    <3>1. cell[d] = "running"
      BY <1>1, <1>2, <1>5, <2>2 DEF TypeOK
    <3>2. PICK u \in Threads : Inside(u, d)
      BY <3>1 DEF HasOwner
    <3>3. Inside(u, d)'
      BY <1>3, <1>4, <3>2 DEF Inside, Busy, Loading, Missing
    <3>4. QED
      BY <3>3
  <2>3. QED
    BY <2>1, <2>2
<1>6. ASSUME NEW u \in Threads, step'[u] = "made"
      PROVE  InCall(u)' /\ Done(at[u])'
  <2>1. u # t
    BY <1>1, <1>6 DEF Begin, TypeOK
  <2>2. InCall(u) /\ Done(at[u]) /\ at[u] \in Cells
    BY <1>3, <1>6, <2>1 DEF HasOwner, InCall, TypeOK
  <2>3. at[u] # c
    BY <1>1, <2>2 DEF Done, Values, Failures, Missing
  <2>4. QED
    BY <1>1, <1>2, <1>3, <2>1, <2>2, <2>3 DEF InCall, Done, TypeOK
<1>7. QED
  BY <1>5, <1>6 DEF HasOwner

\* Answer gives the thread back to the initialiser that asked, whose owner it
\* has been all along.
LEMMA OwnerAnswer ==
  ASSUME IInv, HasOwner, NEW t \in Threads, Answer(t)
  PROVE  HasOwner'
<1> USE DEF IInv
<1>1. /\ cell' = cell
      /\ at' = [at EXCEPT ![t] = within[t]] /\ within' = [within EXCEPT ![t] = "none"]
      /\ step' = [step EXCEPT ![t] = IF within[t] = "none" THEN "get" ELSE "driver"]
  BY DEF Answer
<1>2. at[t] \in Cells /\ step[t] \in {"get", "made"}
  BY DEF Answer, TypeOK
<1>3. ASSUME NEW d \in Cells, cell'[d] = "running"
      PROVE  \E u \in Threads : Inside(u, d)'
  <2>1. PICK u \in Threads : Inside(u, d)
    BY <1>1, <1>3 DEF HasOwner
  <2>2. CASE u # t
    BY <1>1, <2>1, <2>2 DEF Inside, TypeOK, Busy, Loading, Missing
  <2>3. CASE u = t
    <3>1. within[t] = d /\ d # "none"
      BY <1>2, <2>1, <2>3 DEF Inside, Cells, Loaders, Busy, Loading, Missing
    <3>2. Inside(t, d)'
      BY <1>1, <3>1 DEF Inside, TypeOK, Busy, Loading, Missing
    <3>3. QED
      BY <3>2
  <2>4. QED
    BY <2>2, <2>3
<1>4. ASSUME NEW u \in Threads, step'[u] = "made"
      PROVE  InCall(u)' /\ Done(at[u])'
  BY <1>1, <1>4 DEF HasOwner, InCall, Done, TypeOK
<1>5. QED
  BY <1>3, <1>4 DEF HasOwner

\* An initialiser that ends leaves a value and no owner.
LEMMA OwnerMade ==
  ASSUME IInv, HasOwner, NEW t \in Threads, NEW value \in Values, Made(t, value),
         step[t] \in Busy
  PROVE  HasOwner'
<1> USE DEF IInv
<1>1. /\ at[t] \in Cells /\ Inside(t, at[t])
      /\ cell' = [cell EXCEPT ![at[t]] = value] /\ at' = at /\ within' = within
      /\ step' = [step EXCEPT ![t] = "made"]
  BY DEF Made, Shape, Inside, Cells, Loaders, Busy, Loading, Missing
<1>2. ASSUME NEW d \in Cells, cell'[d] = "running"
      PROVE  \E u \in Threads : Inside(u, d)'
  <2>1. d # at[t] /\ cell[d] = "running"
    BY <1>1, <1>2 DEF TypeOK, Values, Failures, Missing
  <2>2. PICK u \in Threads : Inside(u, d)
    BY <2>1 DEF HasOwner
  <2>3. CASE u # t
    BY <1>1, <2>2, <2>3 DEF Inside, TypeOK, Busy, Loading, Missing
  <2>4. CASE u = t
    BY <1>1, <2>1, <2>2, <2>4 DEF Inside, Shape, Busy, Loading, Missing
  <2>5. QED
    BY <2>3, <2>4
<1>3. ASSUME NEW u \in Threads, step'[u] = "made"
      PROVE  InCall(u)' /\ Done(at[u])'
  <2>1. CASE u = t
    BY <1>1, <2>1 DEF InCall, Done, TypeOK, Cells, Loaders
  <2>2. CASE u # t
    BY <1>1, <1>3, <2>2 DEF HasOwner, InCall, Done, TypeOK
  <2>3. QED
    BY <2>1, <2>2
<1>4. QED
  BY <1>2, <1>3 DEF HasOwner

\* HasOwner is inductive next to IInv.
LEMMA OwnerStep == IInv /\ HasOwner /\ [Next]_vars => HasOwner'
<1> SUFFICES ASSUME IInv, HasOwner, [Next]_vars PROVE HasOwner'
  OBVIOUS
<1>1. ASSUME NEW t \in Threads, NEW c \in Cells, Call(t, c) PROVE HasOwner'
  <2>1. \A d \in Cells : ~Inside(t, d)
    BY <1>1 DEF Call, IInv, Shape, Inside, Cells, Loaders, Busy, Loading, Missing
  <2>2. \A d \in Cells, u \in Threads : Inside(u, d) => Inside(u, d)'
    BY <1>1, <2>1 DEF Call, IInv, TypeOK, Inside, Busy, Loading, Missing
  <2>3. \A u \in Threads : step'[u] = "made" => InCall(u)' /\ Done(at[u])'
    BY <1>1 DEF Call, IInv, TypeOK, HasOwner, InCall, Done
  <2>4. QED
    BY <1>1, <2>2, <2>3 DEF Call, HasOwner
<1>2. ASSUME NEW t \in Threads, Open(t) \/ Close(t) PROVE HasOwner'
  BY <1>2 DEF Open, Close, threadVars, HasOwner, Inside, InCall, Done, Busy, Loading,
              Missing
<1>3. ASSUME NEW t \in Threads,
             OpenFails(t) \/ SymbolMissing(t) \/ Fail(t) \/ Loaded(t)
      PROVE  HasOwner'
  <2>1. CASE OpenFails(t) \/ SymbolMissing(t)
    <3>1. /\ UNCHANGED <<cell, at, within>> /\ step[t] = "open"
          /\ \E error \in Missing : step' = [step EXCEPT ![t] = error]
      BY <2>1 DEF OpenFails, SymbolMissing, Missing
    <3>2. ASSUME NEW u \in Threads
          PROVE  /\ \A d \in Cells : Inside(u, d) => Inside(u, d)'
                 /\ step'[u] = "made" => step[u] = "made"
      BY <3>1 DEF IInv, TypeOK, Inside, Busy, Loading, Missing
    <3>3. QED
      BY <3>1, <3>2 DEF HasOwner, InCall, Done
  <2>2. CASE Fail(t)
    BY <2>2, OwnerMade DEF Fail, Values, Failures, Missing, Busy, Loading
  <2>3. CASE Loaded(t)
    BY <2>3, OwnerMade DEF Loaded, Values, Busy, Loading
  <2>4. QED
    BY <1>3, <2>1, <2>2, <2>3
<1>4. ASSUME NEW t \in Threads, NotResolved(t) \/ DriverCall(t) PROVE HasOwner'
  <2>1. CASE NotResolved(t)
    <3>1. cell["VTABLE"] \in Values
      BY <2>1 DEF NotResolved, IInv, Shape, Done, Loading, Missing
    <3>2. QED
      BY <2>1, <3>1, OwnerMade DEF NotResolved, Busy
  <2>2. CASE DriverCall(t)
    BY <2>2, OwnerMade DEF DriverCall, Values, Failures, Missing, Busy
  <2>3. QED
    BY <1>4, <2>1, <2>2
<1>5. CASE UNCHANGED vars \/ \E libs \in SUBSET Libraries : Install(libs)
  BY <1>5 DEF Install, vars, threadVars, HasOwner, Inside, InCall, Done, Busy, Loading,
              Missing
<1>6. QED
  BY <1>1, <1>2, <1>3, <1>4, <1>5, OwnerBegin, OwnerAnswer DEF Next, Running

\* Every running cell has its owner in every state.
LEMMA OwnerInvariant == Spec => [](IInv /\ HasOwner)
<1>1. Init => HasOwner
  BY DEF Init, HasOwner, Cells, Loaders
<1>2. QED
  BY <1>1, InitInv, StepInv, OwnerStep, PTL DEF Spec

\* No deadlock, for any number of threads entering through any of the cells:
\* whenever some thread is inside a call, some thread inside a call does not
\* wait, because the cells are asked for in one order only.
THEOREM NobodyIsStuck == Spec => []NobodyStuck
<1>1. ASSUME IInv, HasOwner, NEW t \in Threads, InCall(t)
      PROVE  \E u \in Threads : InCall(u) /\ ~Waiting(u)
  <2> USE <1>1 DEF IInv
  <2>1. ASSUME NEW v \in Threads, at[v] = "VTABLE"
        PROVE  \E u \in Threads : InCall(u) /\ ~Waiting(u)
    <3>1. CASE ~Waiting(v)
      BY <2>1, <3>1 DEF InCall
    <3>2. CASE Waiting(v)
      <4>1. PICK u \in Threads : Inside(u, "VTABLE")
        BY <2>1, <3>2 DEF Waiting, HasOwner, Cells, Loaders
      <4>2. at[u] = "VTABLE" /\ step[u] \in Busy
        BY <4>1 DEF Inside, Shape, Loaders, Busy, Loading, Missing
      <4>3. QED
        BY <4>2 DEF InCall, Waiting, Busy, Loading, Missing
    <3>3. QED
      BY <3>1, <3>2
  <2>2. CASE ~Waiting(t)
    BY <2>2
  <2>3. CASE Waiting(t)
    <3>1. at[t] \in Cells /\ cell[at[t]] = "running"
      BY <2>3 DEF Waiting, InCall, TypeOK
    <3>2. PICK u \in Threads : Inside(u, at[t])
      BY <3>1 DEF HasOwner
    <3>3. CASE within[u] = at[t]
      <4>1. at[u] = "VTABLE"
        BY <3>1, <3>3 DEF Shape, Cells, Loaders, Loading, Missing
      <4>2. QED
        BY <2>1, <4>1
    <3>4. CASE at[u] = at[t] /\ step[u] \in Busy
      BY <3>4 DEF InCall, Waiting, Busy, Loading, Missing
    <3>5. QED
      BY <3>2, <3>3, <3>4 DEF Inside, Busy, Loading, Missing
  <2>4. QED
    BY <2>2, <2>3
<1>2. IInv /\ HasOwner => NobodyStuck
  BY <1>1 DEF NobodyStuck
<1>3. QED
  BY <1>2, OwnerInvariant, PTL

\* A thread inside a call that does not wait satisfies the guard of one of its
\* actions: the only thing a call ever waits for is an initialiser.
THEOREM OnlyCellsBlock ==
  Spec => [](\A t \in Threads : InCall(t) => (CanStep(t) <=> ~Waiting(t)))
<1>1. ASSUME IInv, HasOwner, NEW t \in Threads, InCall(t)
      PROVE  CanStep(t) <=> ~Waiting(t)
  <2> USE <1>1 DEF IInv, Waiting, CanStep
  <2>1. at[t] \in Cells /\ step[t] \in {"get", "open", "driver", "made"} \cup Missing
    BY DEF TypeOK, InCall
  <2>2. CASE step[t] = "get"
    BY <2>1, <2>2 DEF TypeOK, Vacant, Done, Values, Failures, Missing
  <2>3. CASE step[t] \in Loading
    <3>1. opened[at[t]] \in 0..LibraryCount
      BY <2>3 DEF Shape, TypeOK, Loading, Missing
    <3>2. QED
      BY <2>3, <3>1, LibraryAssumption DEF Loading, Missing
  <2>4. CASE step[t] \in {"driver", "made"}
    BY <2>4 DEF HasOwner
  <2>5. QED
    BY <2>1, <2>2, <2>3, <2>4 DEF Loading, Missing
<1>2. IInv /\ HasOwner =>
        (\A t \in Threads : InCall(t) => (CanStep(t) <=> ~Waiting(t)))
  BY <1>1
<1>3. QED
  BY <1>2, OwnerInvariant, PTL

\* How many steps a call has left at most: the initialiser it is in, which may
\* have to give back what it has opened, and, if that one was asked from inside
\* another, the driver call of the other.
StepsLeft(t) ==
  CASE step[t] = "made"   -> 1
    [] step[t] = "driver" -> 2
    [] step[t] \in Missing -> 2 + opened[at[t]]
    [] step[t] = "open"   -> 3 + 2 * LibraryCount - opened[at[t]]
    [] step[t] = "get"    -> IF at[t] \in Loaders THEN 4 + 2 * LibraryCount
                                                  ELSE 7 + 2 * LibraryCount
Rank(t) == IF InCall(t) THEN StepsLeft(t) + (IF within[t] = "none" THEN 0 ELSE 2)
                        ELSE 0

\* Every step of a call uses up some of its rank, and no other thread's step
\* gives any back.
CallsAreFinite ==
  [][\A t \in Threads : InCall(t) =>
       /\ Rank(t)' <= Rank(t)
       /\ Running(t) => Rank(t)' < Rank(t)]_vars

\* What makes a rank well-founded.
RankNat == \A t \in Threads : Rank(t) \in Nat

\* A loader never counts more libraries than there are.
LEMMA RankType == IInv => RankNat
<1> SUFFICES ASSUME IInv, NEW t \in Threads PROVE Rank(t) \in Nat
  BY DEF RankNat
<1> USE LibraryAssumption DEF IInv, Rank, StepsLeft
<1>1. step[t] \in {"get", "open", "driver", "made"} \cup Missing
  BY DEF TypeOK
<1>2. CASE step[t] \in Loading
  <2>1. opened[at[t]] \in 0..LibraryCount
    BY <1>2 DEF Shape, TypeOK, Loading, Missing
  <2>2. QED
    BY <1>2, <2>1 DEF Loading, Missing
<1>3. CASE step[t] \notin Loading
  BY <1>1, <1>3 DEF Loading, Missing
<1>4. QED
  BY <1>2, <1>3

\* RankType in the state after a step.
LEMMA RankTypeNext == IInv' => RankNat'
BY RankType, PTL

\* The rank of a thread whose variables all stay as they are.
LEMMA RankSame ==
  ASSUME NEW u \in Threads, at'[u] = at[u], within'[u] = within[u], step'[u] = step[u],
         step[u] \in Loading => opened'[at[u]] = opened[at[u]]
  PROVE  Rank(u)' = Rank(u)
<1>1. InCall(u)' = InCall(u)
  BY DEF InCall
<1>2. StepsLeft(u)' = StepsLeft(u)
  <2>1. CASE step[u] \in Loading
    BY <2>1 DEF StepsLeft, Loading, Missing
  <2>2. CASE step[u] \notin Loading
    BY <2>2 DEF StepsLeft, Loading, Missing
  <2>3. QED
    BY <2>1, <2>2
<1>3. QED
  BY <1>1, <1>2 DEF Rank

\* A step of one thread leaves the rank of every other alone: two threads are
\* never inside the same loader.
LEMMA RankOthers ==
  ASSUME IInv, NEW t \in Threads, Running(t), NEW u \in Threads, u # t
  PROVE  Rank(u)' = Rank(u)
<1> USE DEF IInv
<1>1. at'[u] = at[u] /\ within'[u] = within[u] /\ step'[u] = step[u]
  BY DEF Running, Begin, Answer, Open, OpenFails, SymbolMissing, Close, Fail, Loaded,
         NotResolved, DriverCall, Made, threadVars, TypeOK
<1>2. ASSUME step[u] \in Loading PROVE opened'[at[u]] = opened[at[u]]
  <2>1. at[u] \in Loaders /\ Inside(u, at[u]) /\ at[u] \in Cells
    BY <1>2 DEF Shape, Inside, Cells, Busy, Loading, Missing
  <2>2. ASSUME step[t] \in Loading PROVE at[t] # at[u]
    <3>1. Inside(t, at[t])
      BY <2>2 DEF Inside, Busy, Loading, Missing
    <3>2. QED
      BY <2>1, <3>1 DEF Exclusive
  <2>3. CASE Open(t) \/ Close(t)
    BY <2>1, <2>2, <2>3 DEF Open, Close, CloseLibrary, TypeOK, Loading
  <2>4. CASE Loaded(t)
    BY <2>4 DEF Loaded, KeepLibraries, linkerVars
  <2>5. CASE \/ Begin(t) \/ Answer(t) \/ OpenFails(t) \/ SymbolMissing(t) \/ Fail(t)
             \/ NotResolved(t) \/ DriverCall(t)
    BY <2>5 DEF Begin, Answer, OpenFails, SymbolMissing, Fail, NotResolved, DriverCall,
                linkerVars
  <2>6. QED
    BY <2>3, <2>4, <2>5 DEF Running
<1>3. QED
  BY <1>1, <1>2, RankSame

\* Starting a loader, or asking for it from another initialiser.
LEMMA RankBegin ==
  ASSUME IInv, NEW t \in Threads, Begin(t)
  PROVE  Rank(t)' < Rank(t)
<1> USE LibraryAssumption DEF IInv
<1>1. at[t] \in Cells /\ step[t] = "get" /\ cell[at[t]] = "empty" /\ InCall(t)
  BY DEF Begin, Vacant, TypeOK, InCall
<1>2. CASE at[t] \in Loaders
  <2>1. /\ step'[t] = "open" /\ at'[t] = at[t] /\ within'[t] = within[t]
        /\ opened' = opened /\ opened[at[t]] = 0
    BY <1>1, <1>2 DEF Begin, Asks, TypeOK, linkerVars, Libs
  <2>2. StepsLeft(t) = 4 + 2 * LibraryCount /\ StepsLeft(t)' = 3 + 2 * LibraryCount
    BY <1>1, <1>2, <2>1 DEF StepsLeft
  <2>3. QED
    BY <1>1, <2>1, <2>2 DEF Rank, InCall
<1>3. CASE at[t] \notin Loaders
  <2>1. within[t] = "none"
    BY <1>1, <1>3 DEF Shape, Loaders, Loading, Missing
  <2>2. step'[t] = "get" /\ at'[t] = "VTABLE"
    BY <1>1, <1>3 DEF Begin, Asks, TypeOK
  <2>3. StepsLeft(t) = 7 + 2 * LibraryCount /\ StepsLeft(t)' = 4 + 2 * LibraryCount
    BY <1>1, <1>3, <2>2 DEF StepsLeft, Loaders
  <2>4. QED
    BY <1>1, <2>1, <2>2, <2>3 DEF Rank, InCall
<1>4. QED
  BY <1>2, <1>3

\* An answer ends the call, or leaves the driver call of the asking initialiser.
LEMMA RankAnswer ==
  ASSUME IInv, NEW t \in Threads, Answer(t)
  PROVE  Rank(t)' < Rank(t)
<1> USE LibraryAssumption DEF IInv
<1>1. InCall(t) /\ step[t] \in {"get", "made"} /\ StepsLeft(t) \in Nat
      /\ StepsLeft(t) > 0
  BY DEF Answer, InCall, StepsLeft, Missing
<1>2. CASE within[t] = "none"
  <2>1. ~InCall(t)'
    BY <1>2 DEF Answer, InCall, TypeOK
  <2>2. QED
    BY <1>1, <1>2, <2>1 DEF Rank
<1>3. CASE within[t] # "none"
  <2>1. step'[t] = "driver" /\ within'[t] = "none"
    BY <1>3 DEF Answer, TypeOK
  <2>2. Rank(t)' <= 2
    BY <2>1 DEF Rank, StepsLeft, Missing
  <2>3. Rank(t) = StepsLeft(t) + 2
    BY <1>1, <1>3 DEF Rank
  <2>4. Rank(t)' \in Nat
    BY <2>1 DEF Rank, StepsLeft, Missing
  <2>5. QED
    BY <1>1, <2>2, <2>3, <2>4
<1>4. QED
  BY <1>2, <1>3

\* One library fewer to open.
LEMMA RankOpen ==
  ASSUME IInv, NEW t \in Threads, Open(t)
  PROVE  Rank(t)' < Rank(t)
<1> USE LibraryAssumption DEF IInv
<1>1. at[t] \in Loaders /\ opened[at[t]] \in 0..LibraryCount
  BY DEF Open, Shape, TypeOK, Loading, Missing
<1>2. /\ opened'[at[t]] = opened[at[t]] + 1 /\ step[t] = "open"
      /\ at' = at /\ within' = within /\ step' = step
  BY <1>1 DEF Open, TypeOK, threadVars
<1>3. StepsLeft(t)' = StepsLeft(t) - 1 /\ StepsLeft(t) \in Int
  BY <1>1, <1>2 DEF StepsLeft
<1>4. InCall(t) /\ InCall(t)'
  BY <1>1, <1>2 DEF InCall, Loaders
<1>5. QED
  BY <1>2, <1>3, <1>4 DEF Rank

\* A loader that is left gives back at most what it has opened.
LEMMA RankLeave ==
  ASSUME IInv, NEW t \in Threads, OpenFails(t) \/ SymbolMissing(t)
  PROVE  Rank(t)' < Rank(t)
<1> USE LibraryAssumption DEF IInv
<1>1. /\ step[t] = "open" /\ step'[t] \in Missing
      /\ UNCHANGED <<at, within, opened>>
  BY DEF OpenFails, SymbolMissing, TypeOK, Missing, linkerVars
<1>2. at[t] \in Loaders /\ opened[at[t]] \in 0..LibraryCount
  BY <1>1 DEF Shape, TypeOK, Loading, Missing
<1>3. /\ StepsLeft(t) = 3 + 2 * LibraryCount - opened[at[t]]
      /\ StepsLeft(t)' = 2 + opened[at[t]]
  BY <1>1 DEF StepsLeft, Missing
<1>4. InCall(t) /\ InCall(t)'
  BY <1>1, <1>2 DEF InCall, Loaders
<1>5. QED
  BY <1>1, <1>2, <1>3, <1>4 DEF Rank

\* One handle fewer to give back.
LEMMA RankClose ==
  ASSUME IInv, NEW t \in Threads, Close(t)
  PROVE  Rank(t)' < Rank(t)
<1> USE LibraryAssumption DEF IInv
<1>1. at[t] \in Loaders /\ opened[at[t]] \in 0..LibraryCount /\ step[t] \in Missing
  BY DEF Close, Shape, TypeOK, Loading, Missing
<1>2. /\ opened'[at[t]] = opened[at[t]] - 1
      /\ at' = at /\ within' = within /\ step' = step
  BY <1>1 DEF Close, CloseLibrary, TypeOK, threadVars
<1>3. StepsLeft(t)' = StepsLeft(t) - 1 /\ StepsLeft(t) \in Int
  BY <1>1, <1>2 DEF StepsLeft, Missing
<1>4. InCall(t) /\ InCall(t)'
  BY <1>1, <1>2 DEF InCall, Loaders
<1>5. QED
  BY <1>2, <1>3, <1>4 DEF Rank

\* However an initialiser ends, only the answer is left.
LEMMA RankMade ==
  ASSUME IInv, NEW t \in Threads, NEW value, Made(t, value),
         step[t] \in Busy
  PROVE  Rank(t)' < Rank(t)
<1> USE LibraryAssumption DEF IInv
<1>1. InCall(t) /\ InCall(t)' /\ within' = within
  BY DEF Made, Shape, InCall, Loaders, Cells, Loading, Missing, Busy
<1>2. StepsLeft(t)' = 1
  BY DEF Made, TypeOK, StepsLeft, Missing
<1>3. StepsLeft(t) \in Int /\ StepsLeft(t) >= 2
  <2>1. CASE step[t] \in Loading
    <3>1. opened[at[t]] \in 0..LibraryCount
      BY <2>1 DEF Shape, TypeOK, Loading, Missing
    <3>2. QED
      BY <2>1, <3>1 DEF StepsLeft, Loading, Missing
  <2>2. CASE step[t] = "driver"
    BY <2>2 DEF StepsLeft, Missing
  <2>3. QED
    BY <2>1, <2>2 DEF Busy, Loading
<1>4. QED
  BY <1>1, <1>2, <1>3 DEF Rank

\* No call can go on for ever: each of its steps lowers a natural number that
\* nothing raises, however many threads run and libraries come and go.
THEOREM CallsTerminate == Spec => CallsAreFinite
<1>1. ASSUME IInv, NEW t \in Threads, Running(t) PROVE Rank(t)' < Rank(t)
  <2>1. CASE Fail(t) \/ Loaded(t) \/ NotResolved(t) \/ DriverCall(t)
    BY <1>1, <2>1, RankMade DEF Fail, Loaded, NotResolved, DriverCall, Busy, Loading
  <2>2. QED
    BY <1>1, <2>1, RankBegin, RankAnswer, RankOpen, RankLeave, RankClose DEF Running
<1>2. ASSUME IInv, [Next]_vars, NEW t \in Threads, InCall(t)
      PROVE  Rank(t)' <= Rank(t)
  <2>1. Rank(t) \in Nat /\ Rank(t)' \in Nat
    BY <1>2, RankType, RankTypeNext, StepInv DEF RankNat
  <2>2. ASSUME NEW u \in Threads, Running(u) PROVE Rank(t)' <= Rank(t)
    BY <1>1, <1>2, <2>1, <2>2, RankOthers
  <2>3. ASSUME NEW u \in Threads, NEW c \in Cells, Call(u, c) PROVE Rank(t)' <= Rank(t)
    <3>1. u # t
      BY <1>2, <2>3 DEF Call, InCall
    <3>2. Rank(t)' = Rank(t)
      BY <1>2, <2>3, <3>1, RankSame DEF Call, IInv, TypeOK, linkerVars
    <3>3. QED
      BY <2>1, <3>2
  <2>4. CASE UNCHANGED vars \/ \E libs \in SUBSET Libraries : Install(libs)
    <3>1. Rank(t)' = Rank(t)
      BY <2>4, RankSame DEF Install, vars, threadVars, linkerVars
    <3>2. QED
      BY <2>1, <3>1
  <2>5. QED
    BY <1>2, <2>2, <2>3, <2>4 DEF Next
<1>3. IInv /\ [Next]_vars =>
        [\A t \in Threads : InCall(t) => /\ Rank(t)' <= Rank(t)
                                         /\ Running(t) => Rank(t)' < Rank(t)]_vars
  BY <1>1, <1>2
<1>4. QED
  BY <1>3, Invariant, PTL DEF Spec, CallsAreFinite
=============================================================================
