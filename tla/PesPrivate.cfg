CONSTANTS
  Streams <- Privates
  ChunkSizes = {5, 12}
  Confs = {"build"}
  BuffSize = 12
  HbuffSize = 16
  Garbage = 0
SPECIFICATION Spec
INVARIANT SubtitlesDropped
CHECK_DEADLOCK FALSE
