\* plugin::load: a package with one part at fault, changed once while it is loaded, and the
\* bodies of a skill of up to four lines.
CONSTANTS
  Lines <- MCLines
  Texts <- MCTexts
  NoText = ""
  BaseOf <- MCBase
  MaxLines = 4
  Packages <- MCPackages
  Shifting <- Placed
  Written <- MCWritten
SPECIFICATION PackageSpec
INVARIANTS SlugsName SectionsTile FencedIsInert FaultsStayLocal NothingSilent ConfiguredPathsStay
