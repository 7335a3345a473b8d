\* Linking one or two objects, with archives, and the output with a third.
CONSTANTS
  Names <- MCNames
  PageSize = 4
  Alignment = 4
  W = 65536
  InputBytes <- MCInputBytes
  Jobs <- AllJobs
  Relinks <- LinkRelinks
SPECIFICATION Spec
INVARIANTS
  TypeOK
  ProgramIsRight
  VerdictIsRight
  SegmentsDisjoint
  SearchIsClosure
PROPERTIES
  DefinitionsStick
  LinkTerminates
CHECK_DEADLOCK FALSE
