----------------------------- MODULE DriverInit -----------------------------
(***************************************************************************)
(* Process-wide initialisation: the five OnceLocks of the crate.           *)
(*   VTABLE, FRAMEWORK   sys.rs      open three libraries (and resolve)    *)
(*   INIT_DONE           device.rs   cuInit(0)                             *)
(*   NVENC_FNS           encoder.rs  NvEncodeAPICreateInstance             *)
(*   CACHE               engine.rs   NvEncodeAPICreateInstance             *)
(* Any thread may come in through any of them at any time, and the last    *)
(* three resolve VTABLE from inside their own initialiser. A OnceLock lets *)
(* one thread run the initialiser while the others wait, and keeps what it *)
(* answers, an error included. Libraries may be installed and removed      *)
(* while the process runs; the dynamic linker hands out a library that is  *)
(* still open whatever has become of its file.                             *)
(***************************************************************************)
EXTENDS Naturals

CONSTANTS
  Threads,
  LibraryCount     \* 3 in the code: libcuda, libnvcuvid, libnvidia-encode

ASSUME LibraryAssumption == LibraryCount \in Nat

\* In the order in which they are opened.
Libraries == 1..LibraryCount

Loaders == {"VTABLE", "FRAMEWORK"}
Cells   == Loaders \cup {"INIT_DONE", "NVENC_FNS", "CACHE"}

\* What can go wrong in a loader; as the step of a thread, that it is on its way
\* out of the loader with that error.
Missing  == {"dlopen", "dlsym"}
Failures == Missing \cup {"driver"}
Values   == {"ok"} \cup Failures

VARIABLES
  cell,        \* [Cells -> "empty", "running" or the value that is kept]
  at,          \* [Threads -> the cell the thread is asking, or "none"]
  within,      \* [Threads -> the cell whose initialiser asks it, or "none"]
  step,        \* [Threads -> "get", "open", "dlopen", "dlsym", "driver", "made"]
  opened,      \* [Loaders -> libraries the initialiser or its result holds]
  refs,        \* [Libraries -> handles open in the dynamic linker]
  installed,   \* the libraries whose files are there now
  registry,    \* what register() last did: "none", "skipped", "registered"
  answers,     \* history: [Cells -> the answers callers have had]
  begun        \* history: [Cells -> runs of the initialiser]

threadVars  == <<at, within, step>>
linkerVars  == <<opened, refs>>
historyVars == <<registry, answers, begun>>
vars == <<cell, threadVars, linkerVars, installed, historyVars>>

Init ==
  /\ cell = [c \in Cells |-> "empty"]
  /\ at = [t \in Threads |-> "none"]
  /\ within = [t \in Threads |-> "none"]
  /\ step = [t \in Threads |-> "get"]
  /\ opened = [c \in Loaders |-> 0]
  /\ refs = [lib \in Libraries |-> 0]
  /\ installed \in SUBSET Libraries
  /\ registry = "none"
  /\ answers = [c \in Cells |-> {}]
  /\ begun = [c \in Cells |-> 0]

Done(c) == cell[c] \in Values

\* A change that would break InitOnce: try again after a failure.
VacantAfterError(c) == cell[c] \in {"empty"} \cup Failures
\* A change that would break AnswersAgree: check and set without a lock.
VacantUntilDone(c) == cell[c] \in {"empty", "running"}
\* get_or_init runs the initialiser only in an empty cell; in a running one
\* it waits.
Vacant(c) == cell[c] = "empty"

\* A change that would break CallsReturn: let the loader check cuInit first.
AsksInCircle(c) == IF c = "VTABLE" THEN "INIT_DONE"
                   ELSE IF c = "FRAMEWORK" THEN "none" ELSE "VTABLE"
\* The cell an initialiser asks for before it does anything else.
Asks(c) == IF c \in Loaders THEN "none" ELSE "VTABLE"

-----------------------------------------------------------------------------
\* sys::vtable, sys::framework (by register), Cuda::init, nvenc_fns and
\* nvenc_function_table are called, on any thread.
Call(t, c) ==
  /\ at[t] = "none"
  /\ at' = [at EXCEPT ![t] = c]
  /\ step' = [step EXCEPT ![t] = "get"]
  /\ UNCHANGED <<cell, within, linkerVars, installed, historyVars>>

Begin(t) ==
  /\ at[t] # "none" /\ step[t] = "get" /\ Vacant(at[t])
  /\ cell' = [cell EXCEPT ![at[t]] = "running"]
  /\ begun' = [begun EXCEPT ![at[t]] = @ + 1]
  /\ IF Asks(at[t]) = "none"
       THEN /\ step' = [step EXCEPT ![t] = "open"]
            /\ UNCHANGED <<at, within>>
       ELSE /\ within' = [within EXCEPT ![t] = at[t]]
            /\ at' = [at EXCEPT ![t] = Asks(at[t])]
            /\ UNCHANGED step
  /\ UNCHANGED <<linkerVars, installed, registry, answers>>

\* The cell is done: answer the caller, or go on in the initialiser that asked.
\* register() puts its factories in only if framework() answered Ok.
Answer(t) ==
  /\ at[t] # "none" /\ step[t] \in {"get", "made"} /\ Done(at[t])
  /\ at' = [at EXCEPT ![t] = within[t]]
  /\ within' = [within EXCEPT ![t] = "none"]
  /\ step' = [step EXCEPT ![t] = IF within[t] = "none" THEN "get" ELSE "driver"]
  /\ answers' = [answers EXCEPT ![at[t]] = @ \cup {cell[at[t]]}]
  /\ registry' = IF at[t] # "FRAMEWORK" THEN registry
                 ELSE IF cell["FRAMEWORK"] = "ok" THEN "registered" ELSE "skipped"
  /\ UNCHANGED <<cell, linkerVars, installed, begun>>

-----------------------------------------------------------------------------
(* load_smoke and load_vtable                                              *)

Opens(lib) == lib \in installed \/ refs[lib] > 0

\* The initialiser of the cell thread t is asking ends with this value.
Made(t, value) ==
  /\ cell' = [cell EXCEPT ![at[t]] = value]
  /\ step' = [step EXCEPT ![t] = "made"]
  /\ UNCHANGED <<at, within, installed, historyVars>>

Open(t) ==
  /\ step[t] = "open" /\ opened[at[t]] < LibraryCount
  /\ LET lib == opened[at[t]] + 1 IN
       /\ Opens(lib)
       /\ opened' = [opened EXCEPT ![at[t]] = lib]
       /\ refs' = [refs EXCEPT ![lib] = @ + 1]
  /\ UNCHANGED <<cell, threadVars, installed, historyVars>>

\* dlopen answers an error: the loader is left by `?', and another thread may do
\* anything between this and the moment the cell says so.
OpenFails(t) ==
  /\ step[t] = "open" /\ opened[at[t]] < LibraryCount
  /\ ~Opens(opened[at[t]] + 1)
  /\ step' = [step EXCEPT ![t] = "dlopen"]
  /\ UNCHANGED <<cell, at, within, linkerVars, installed, historyVars>>

\* Only load_vtable looks symbols up; an older driver may lack one.
SymbolMissing(t) ==
  /\ step[t] = "open" /\ opened[at[t]] = LibraryCount /\ at[t] = "VTABLE"
  /\ step' = [step EXCEPT ![t] = "dlsym"]
  /\ UNCHANGED <<cell, at, within, linkerVars, installed, historyVars>>

\* A change that would break TypeOK: close all of them, opened or not.
CloseAllLibraries(c) ==
  /\ opened' = [opened EXCEPT ![c] = 0]
  /\ refs' = [lib \in Libraries |-> refs[lib] - 1]
\* A change that would break LibrariesHeld: forget the handle on an error.
ForgetLibrary(c) == /\ opened' = [opened EXCEPT ![c] = @ - 1]
                    /\ UNCHANGED refs
\* The `Library' locals are dropped in the reverse of the order of opening.
CloseLibrary(c) ==
  /\ opened' = [opened EXCEPT ![c] = @ - 1]
  /\ refs' = [refs EXCEPT ![opened[c]] = @ - 1]

Close(t) ==
  /\ step[t] \in Missing /\ opened[at[t]] > 0
  /\ CloseLibrary(at[t])
  /\ UNCHANGED <<cell, threadVars, installed, historyVars>>

\* get_or_init stores the error.
Fail(t) ==
  /\ step[t] \in Missing /\ opened[at[t]] = 0
  /\ Made(t, step[t])
  /\ UNCHANGED linkerVars

\* A change that would break GateHolds and PointersMapped: close the libraries
\* once they were seen to load.
KeepNone(c) ==
  /\ opened' = [opened EXCEPT ![c] = 0]
  /\ refs' = [lib \in Libraries |-> refs[lib] - 1]
\* FrameworkSmoke and Vtable own the handles they were built from.
KeepLibraries(c) == UNCHANGED linkerVars

Loaded(t) ==
  /\ step[t] = "open" /\ opened[at[t]] = LibraryCount
  /\ KeepLibraries(at[t])
  /\ Made(t, "ok")

-----------------------------------------------------------------------------
(* The other three initialisers, once vtable() has answered.               *)

\* A change that would break OkMeansResolved: call the driver regardless.
AlwaysResolved == TRUE
Resolved == cell["VTABLE"] = "ok"

\* `?' on the answer of vtable(): its error becomes the error of the cell.
NotResolved(t) ==
  /\ step[t] = "driver" /\ ~Resolved
  /\ Made(t, cell["VTABLE"])
  /\ UNCHANGED linkerVars

\* cuInit(0) or NvEncodeAPICreateInstance.
DriverCall(t) ==
  /\ step[t] = "driver" /\ Resolved
  /\ \E value \in {"ok", "driver"} : Made(t, value)
  /\ UNCHANGED linkerVars

-----------------------------------------------------------------------------
\* Libraries are installed, upgraded and removed under a running process.
Install(libs) ==
  /\ installed' = libs
  /\ UNCHANGED <<cell, threadVars, linkerVars, historyVars>>

Running(t) == \/ Begin(t) \/ Answer(t)
              \/ Open(t) \/ OpenFails(t) \/ SymbolMissing(t)
              \/ Close(t) \/ Fail(t) \/ Loaded(t)
              \/ NotResolved(t) \/ DriverCall(t)

Next == \/ \E t \in Threads : Running(t) \/ \E c \in Cells : Call(t, c)
        \/ \E libs \in SUBSET Libraries : Install(libs)

\* The scheduler runs every thread that can run.
Spec == Init /\ [][Next]_vars
FairSpec == Spec /\ \A t \in Threads : WF_vars(Running(t))
-----------------------------------------------------------------------------
(* Properties                                                              *)

TypeOK ==
  /\ cell \in [Cells -> {"empty", "running"} \cup Values]
  /\ at \in [Threads -> Cells \cup {"none"}]
  /\ within \in [Threads -> Cells \cup {"none"}]
  /\ step \in [Threads -> {"get", "open", "driver", "made"} \cup Missing]
  /\ opened \in [Loaders -> 0..LibraryCount] /\ refs \in [Libraries -> Nat]
  /\ installed \subseteq Libraries
  /\ registry \in {"none", "skipped", "registered"}
  /\ answers \in [Cells -> SUBSET Values] /\ begun \in [Cells -> Nat]

\* Every initialiser runs at most once in the process, whatever it answers and
\* however many threads race for it: cuInit is called once, and a failed dlopen
\* is not repeated (sys.rs: "don't repeatedly hammer the dynamic linker").
InitOnce == \A c \in Cells : begun[c] <= 1

\* Every caller of a cell, on every thread and at every time, has the same
\* answer: no thread works on a driver that another was told is missing.
AnswersAgree ==
  \A c \in Cells : \A v, w \in answers[c] : v = w

\* The dynamic linker holds exactly the handles that the two loaders own:
\* an initialiser that fails at its second library closes the first.
Held(c, lib) == IF lib <= opened[c] THEN 1 ELSE 0
LibrariesHeld ==
  /\ \A lib \in Libraries : refs[lib] = Held("VTABLE", lib) + Held("FRAMEWORK", lib)
  /\ \A c \in Loaders : cell[c] \in Failures => opened[c] = 0

\* As long as the vtable can be had, its function pointers point into mapped
\* libraries, whatever other loads fail and are undone (sys.rs: "it can never
\* outlive the mapping").
PointersMapped ==
  cell["VTABLE"] = "ok" =>
    \A lib \in Libraries : refs[lib] > 0

\* Nobody is told that the driver is ready unless its libraries were resolved,
\* and a failed load is what every cell that depends on it reports.
OkMeansResolved ==
  \A c \in Cells \ Loaders :
    /\ cell[c] \in {"ok", "driver"} => cell["VTABLE"] = "ok"
    /\ cell[c] \in Missing => cell["VTABLE"] = cell[c]

\* register() gates the factories on framework(): once they are registered, no
\* dlopen fails any more, in any loader on any thread, whatever becomes of the
\* files. (A dlopen that failed before may still be on its way into VTABLE: the
\* factories can be registered and the vtable be found missing afterwards.)
GateHolds ==
  [][registry = "registered" =>
       \A t \in Threads : step[t] = "open" => step'[t] # "dlopen"]_vars

\* Every call returns: the nested cells are asked for in one order only, so no
\* two initialisers wait for each other.
CallsReturn ==
  \A t \in Threads : at[t] # "none" ~> at[t] = "none"
=============================================================================
