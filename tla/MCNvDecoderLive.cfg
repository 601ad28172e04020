\* Liveness: any driver call may fail at any time, one thread. A dropped
\* decoder has nothing left to do: the only stopping states are those.
SPECIFICATION FairSpec
CONSTANTS
  Threads = {t1}
  NoThread = NoThread
  Own = own
  NoContext = NoContext
  Foreign = {}
  Faults = {"ctx", "parser", "push", "create", "decode", "map", "sync", "copy", "parse"}
  MaxPictures = 2
  MaxFormats = 2
  MaxPackets = 2
  MaxForeign = 0
PROPERTIES
  CallReturns
  EofReached
CHECK_DEADLOCK FALSE
