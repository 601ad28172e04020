\* Configuration records and samples by the byte, pictures by the sample.
SPECIFICATION Spec
CONSTANTS
  Sources <- MCSources
  Samples <- MCSamples
  Raw <- MCRaw
  MaxPackets = 2
  Formats <- MCFormats
  Pitches = {4, 6}
  Frames <- MCFrames
  Width = 3
  Height = 3
  MaxPictures = 2
INVARIANTS
  StreamIntact
  RecordJudged
  TilesExactly
  WindowExact
  ChromaSited
  UploadExact
  WholeRows
\* A stream ends.
CHECK_DEADLOCK FALSE
