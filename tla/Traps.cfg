\* Traps with a handler of the machine's own, one inside the other; the
\* instructions run out, or the machine stops.
CONSTANTS
  M = 32
  Holes = {26}
  Start <- SmallStart
  Loads <- SmallLoads
  Points = {3}
  MaxFrames = 2
  MaxInstructions = 6
SPECIFICATION Spec
INVARIANTS
  TypeOK
  FramesIntact
PROPERTIES
  RethRestores
  IsCpu
CHECK_DEADLOCK FALSE
