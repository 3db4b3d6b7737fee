SPECIFICATION CallSpec
CONSTANTS
  MaxWrites = 2
  PipeCap = 1
  Buffer = 1
  Status = status
  HeaderLen = 2
  PayloadLen = 1
INVARIANTS
  CallerIsToldTheTruth
  LinesAreTrue
PROPERTY
  CallEnds
