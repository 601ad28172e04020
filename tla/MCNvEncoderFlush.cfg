SPECIFICATION Spec
CONSTANTS
  Threads = {t1, t2}
  NoThread = NoThread
  Own = own
  NoContext = NoContext
  Foreign = {other}
  Faults = {"ctx", "table", "open", "preset", "init", "input", "output", "lock_in", "unlock_in", "encode", "lock_out", "unlock_out"}
  Optional = {"open", "preset", "init", "input", "output", "lock_in", "unlock_in", "encode", "lock_out", "unlock_out", "destroy_in", "destroy_out", "destroy"}
  Buffering = TRUE
  MaxFrames = 2
  MaxPts = 1
  MaxForeign = 2
INVARIANT FlushDrains
