\* Two threads race through the five cells while libraries come and go. Two
\* libraries are enough for a load that fails half-way.
SPECIFICATION FairSpec
CONSTANTS
  Threads = {t1, t2}
  LibraryCount = 2
INVARIANTS
  TypeOK
  InitOnce
  AnswersAgree
  LibrariesHeld
  PointersMapped
  OkMeansResolved
PROPERTIES
  GateHolds
  CallsReturn
