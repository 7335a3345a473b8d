\* A bare machine, and one with the emulated kernel; it stops when a trap has
\* no handler, and on halt.
CONSTANTS
  Word = {0, 1, 2}
  Zero = 0
  PageTable = 1
SPECIFICATION Spec
INVARIANTS
  TypeOK
  Sandboxed
PROPERTIES
  PrivilegesKept
  EntersSupervisorByTrap
CHECK_DEADLOCK FALSE
