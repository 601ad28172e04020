\* Safety: any driver call may fail at any time, calls come from two threads.
SPECIFICATION Spec
SYMMETRY ThreadSymmetry
CONSTANTS
  Threads = {t1, t2}
  NoThread = NoThread
  Own = own
  NoContext = NoContext
  Foreign = {other}
  Faults = {"ctx", "parser", "push", "create", "decode", "map", "sync", "copy", "parse"}
  MaxPictures = 2
  MaxFormats = 2
  MaxPackets = 2
  MaxForeign = 1
INVARIANTS
  TypeOK
  StackNeutral
  CallbacksHaveContext
  SessionInOwnContext
  HandlesSound
  SurfaceReleased
  NoSilentLoss
  OkMeansClean
  EofMeansDrained
  ConfigFirst
PROPERTIES
  ImplementsPipe
