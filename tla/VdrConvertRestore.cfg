CONSTANTS
  NumFiles = 2
  Recordings <- TelevisionOnly
  Invocations <- KeepOnly
  MaxRuns = 1
  NoFile = NoFile
SPECIFICATION Spec
PROPERTY AllRestored
CHECK_DEADLOCK FALSE
