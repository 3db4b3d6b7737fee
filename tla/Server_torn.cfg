SPECIFICATION Spec
CONSTANTS
  fd = fd
  tusdBin = tusdBin
  s1 = s1
  s2 = s2
  Nobody = Nobody
  Servers <- Two
  Tools <- TwoTools
  Tusd = tusdBin
  Found <- SomeFound
  Patience = 1
CHECK_DEADLOCK FALSE
INVARIANT ServedToolsRun
