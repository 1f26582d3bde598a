CONSTANTS
  NumFiles = 2
  Recordings <- AllRecordings
  Invocations <- AllCalls
  MaxRuns = 3
  NoFile = NoFile
SPECIFICATION FairSpec
INVARIANTS
  TypeOK
  OriginalsKept
  ReplacedBySingleFile
PROPERTIES
  FirstFileRestored
  LostOnlyWithLeftovers
  SkippedKept
  RunEnds
CHECK_DEADLOCK FALSE
