\* tobjdump lists an object, then tdbg runs it under any commands.  A session
\* ends, so the system may stop.
CONSTANTS
  W = 32
  Room = 3
  MaxDepth = 4
  Jobs <- MCJobs
SPECIFICATION Spec
INVARIANTS
  EachLabelOnce
  StepsLandRight
  ListsWhatRuns
PROPERTIES
  ListingEnds
CHECK_DEADLOCK FALSE
