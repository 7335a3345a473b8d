\* The code against its documentation: OnlyReferenced.
CONSTANTS
  Names <- MCNames
  PageSize = 4
  Alignment = 4
  W = 65536
  InputBytes <- MCInputBytes
  Jobs <- ArchiveJobs
  Relinks <- LinkRelinks
SPECIFICATION Spec
INVARIANTS
  OnlyReferenced
CHECK_DEADLOCK FALSE
