SPECIFICATION Spec
CONSTANTS
  Sessions = {s1}
  Handlers = {h1, h2, h3}
  Reaper = reaper
  NoOne = noone
  Pending = 1
  Idle = 2
INVARIANTS
  OneOwner
  ClosedIsGone
  NoLeakedProcess
  TerminatedIsReleased
PROPERTIES
  ReclaimCompletes
  OnlyActivityKeepsAlive
  ImplementsSessionLife
