\* The same sources, for the instructions of a supervisor.
CONSTANTS
  PageSize = 4
  W = 4096
  Programs <- MCPrograms
SPECIFICATION Spec
INVARIANTS
  SupervisorAssembles
CHECK_DEADLOCK FALSE
