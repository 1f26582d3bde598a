CONSTANTS
  Film = Film
  Twin = Twin
  Recordings = {Film}
  Minute <- OneMinute
  NumFiles = 1
  MaxRuns = 1
  Exact = TRUE
  None = None
SPECIFICATION Spec
INVARIANT ProgrammeKept
CHECK_DEADLOCK FALSE
