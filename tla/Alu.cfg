\* Arithmetic and flags on bytes of two bits, in a build that panics when a
\* shift is too wide: then the program may stop.
CONSTANTS
  BITS = 2
  HalfByte = 2
  Halved = 1
  Low = 1
  OverflowChecks = TRUE
  BitAnd <- MCAnd
  BitOr <- MCOr
  BitXor <- MCXor
  Instructions <- MCInstructions
SPECIFICATION Spec
INVARIANTS
  TypeOK
  JumpsAgree
PROPERTIES
  ArithmeticIsExact
  WritesAreLocal
CHECK_DEADLOCK FALSE
