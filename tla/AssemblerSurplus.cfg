\* The same sources, for operands behind the last.
CONSTANTS
  PageSize = 4
  W = 4096
  Programs <- MCPrograms
SPECIFICATION Spec
INVARIANTS
  SurplusIsError
CHECK_DEADLOCK FALSE
