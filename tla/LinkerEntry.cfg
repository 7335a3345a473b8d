\* The code against its documentation: FirstEntryIsUsed.
CONSTANTS
  Names <- MCNames
  PageSize = 4
  Alignment = 4
  W = 65536
  InputBytes <- MCInputBytes
  Jobs <- StrayJobs
  Relinks <- LinkRelinks
SPECIFICATION Spec
INVARIANTS
  FirstEntryIsUsed
CHECK_DEADLOCK FALSE
