\* Safety: any mixture of probe, decoder and encoder calls on two threads.
SPECIFICATION Spec
SYMMETRY ThreadSymmetry
CONSTANTS
  Threads = {t1, t2}
  Objects = {d1, e1}
  Decoders = {d1}
  Prechecked = {d1}
  NoContext = NoContext
  Count = 3
  Decodes = {0, 1}
  Decodes10 = {1}
  Encodes = {1, 2}
  Encodes10 = {2}
  DestroySlot = TRUE
  MaxFaults = 2
INVARIANTS
  TypeOK
  StackKept
  OwnContext
  NothingLeft
  RowsTruthful
