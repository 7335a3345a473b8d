\* The code against its documentation: LevelOneSummarises.
CONSTANTS
  PageSize = 2
  N1 = 2
  N2 = 3
  MaxFrame = 8
  Objects <- MCObjects
  OverflowChecks = FALSE
SPECIFICATION Spec
INVARIANTS
  LevelOneSummarises
