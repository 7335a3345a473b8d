\* The code against its documentation: ProductAsDocumented.
CONSTANTS
  BITS = 2
  HalfByte = 2
  Halved = 1
  Low = 1
  OverflowChecks = TRUE
  BitAnd <- MCAnd
  BitOr <- MCOr
  BitXor <- MCXor
  Instructions <- MCInstructions
SPECIFICATION Spec
PROPERTIES
  ProductAsDocumented
CHECK_DEADLOCK FALSE
