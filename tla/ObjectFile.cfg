\* Writing, stripping, archiving and reading objects; writers may fail or be
\* killed.  A job ends, so the system may stop.
CONSTANTS
  W = 16
  Jobs <- MCJobs
SPECIFICATION Spec
INVARIANTS
  TypeOK
  ReadsBack
  StripKeeps
  PrefixKept
PROPERTIES
  ReadingEnds
CHECK_DEADLOCK FALSE
