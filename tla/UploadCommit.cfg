SPECIFICATION UploadSpec
CONSTANTS
  Requests = {r1, r2, r3}
  MaxSize = 2
SYMMETRY Symmetry
CHECK_DEADLOCK FALSE
INVARIANTS
  PlacedIsFinished
  PlacedOnce
  AnswersTell
  FailedIsRetriable
