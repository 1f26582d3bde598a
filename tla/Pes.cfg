CONSTANTS
  Streams <- AllStreams
  ChunkSizes = {1, 5, 19}
  Confs = {"index", "rewrite", "build"}
  BuffSize = 19
  HbuffSize = 16
  Garbage = 0
SPECIFICATION FairSpec
INVARIANTS
  TypeOK
  NeverBuffersTooMuch
  NothingHeldBack
  PrivateFramed
PROPERTIES
  Refines
  Returns
CHECK_DEADLOCK FALSE
