CONSTANTS
  NumFiles = 2
  Recordings <- TelevisionOnly
  Invocations <- KeepDelete
  MaxRuns = 2
  NoFile = NoFile
SPECIFICATION Spec
PROPERTY NothingLost
CHECK_DEADLOCK FALSE
