SPECIFICATION Spec
CONSTANTS
  Threads = {t1, t2}
  NoThread = NoThread
  Own = own
  NoContext = NoContext
  Foreign = {other}
  Faults = {"ctx", "parser", "push", "create", "decode", "map", "sync", "copy", "parse"}
  MaxPictures = 2
  MaxFormats = 2
  MaxPackets = 2
  MaxForeign = 1
PROPERTY FirstErrorKept
