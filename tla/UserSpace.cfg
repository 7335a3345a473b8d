\* The loader and the running program in a build that checks arithmetic: the
\* well-formed objects, which never panic, and objects that are not.
\* A panic ends the program, so the system may stop.
CONSTANTS
  PageSize = 2
  N1 = 2
  N2 = 3
  MaxFrame = 8
  Objects <- MCObjects
  OverflowChecks = TRUE
SPECIFICATION Spec
INVARIANTS
  TypeOK
  NoAlias
  MemorySuffices
PROPERTIES
  StartsAsAsked
  StoresAreLocal
  IsFlatMemory
CHECK_DEADLOCK FALSE
