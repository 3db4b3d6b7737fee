SPECIFICATION Spec
CONSTANTS
  r1 = r1
  r2 = r2
  r3 = r3
  preset = preset
  Requests <- Three
  Preset <- preset
  Chars <- Letters
  UrlSafe <- Letters
  Upper <- ToUpper
  Ids <- SomeIds
  GlobalId <- Global
  Asked <- ReadOnly
  DerivedIds <- Skills
SYMMETRY Symmetry
INVARIANTS
  CreatedStays
  GetFinds
