\* The index of a row, taken for the ordinal of its device.
SPECIFICATION Spec
CONSTANTS
  Threads = {t1, t2}
  Objects = {d1, e1}
  Decoders = {d1}
  Prechecked = {d1}
  NoContext = NoContext
  Count = 3
  Decodes = {0, 1}
  Decodes10 = {1}
  Encodes = {1, 2}
  Encodes10 = {2}
  DestroySlot = TRUE
  MaxFaults = 1
INVARIANTS
  RowIsOrdinal
