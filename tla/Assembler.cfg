\* Every short source, and every form of every instruction.
CONSTANTS
  PageSize = 4
  W = 4096
  Programs <- MCPrograms
SPECIFICATION Spec
INVARIANTS
  TypeOK
  LabelsPointRight
  SegmentsDisjoint
  RelocationsAreOperands
  InstructionsSurvive
  VerdictIsRight
CHECK_DEADLOCK FALSE
