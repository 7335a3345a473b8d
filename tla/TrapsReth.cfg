\* The code against its documentation: RethContinues.
CONSTANTS
  M = 32
  Holes = {26}
  Start <- SmallStart
  Loads <- SmallLoads
  Points = {3}
  MaxFrames = 2
  MaxInstructions = 5
SPECIFICATION Spec
PROPERTIES
  RethContinues
CHECK_DEADLOCK FALSE
