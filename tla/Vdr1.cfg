CONSTANTS
  Film = Film
  Twin = Twin
  Recordings = {Film, Twin}
  Minute <- TwoOfAMinute
  NumFiles = 2
  MaxRuns = 2
  Exact = TRUE
  None = None
SPECIFICATION FairSpec
INVARIANTS
  TypeOK
  ReplacedOnceDeleted
  NothingStale
PROPERTY
  Ends
CHECK_DEADLOCK FALSE
