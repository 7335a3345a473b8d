\* The code against its documentation: StartSymbolIsDefined.
CONSTANTS
  Names <- MCNames
  PageSize = 4
  Alignment = 4
  W = 65536
  InputBytes <- MCInputBytes
  Jobs <- LinkJobs
  Relinks <- LinkRelinks
SPECIFICATION Spec
INVARIANTS
  StartSymbolIsDefined
CHECK_DEADLOCK FALSE
