SPECIFICATION Spec
CONSTANTS
  a = a
  b = b
  x = x
  Names <- Three
  r1 = r1
  r2 = r2
  Requests <- Two
  Wanted <- SomeWanted
  Trees <- SomeTrees
  MaxLen = 4
  MaxHops = 2
  TempNames <- SomeTemps
  Attempts = 2
CHECK_DEADLOCK FALSE
INVARIANTS
  TypeOK
  ListComplete
  TempOwns
PROPERTY
  EditsDoWhatTheySay
