\* The code against its own types: SizesReadBack.
CONSTANTS
  W = 16
  Jobs <- MCJobs
SPECIFICATION Spec
INVARIANTS
  SizesReadBack
CHECK_DEADLOCK FALSE
