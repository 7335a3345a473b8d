\* The code against its documentation: LinksWhatTcWrites.
CONSTANTS
  Names <- MCNames
  PageSize = 4
  Alignment = 4
  W = 65536
  InputBytes <- MCInputBytes
  Jobs <- LinkJobs
  Relinks <- LinkRelinks
SPECIFICATION Spec
INVARIANTS
  LinksWhatTcWrites
CHECK_DEADLOCK FALSE
