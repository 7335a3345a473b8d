\* The code against its documentation: ExecuteTrapsAreHandled.
CONSTANTS
  Word = {0, 1, 2}
  Zero = 0
  PageTable = 1
SPECIFICATION Spec
INVARIANTS
  ExecuteTrapsAreHandled
CHECK_DEADLOCK FALSE
