CONSTANTS
  Broadcasts <- AllBroadcasts
  Capacity = 33
  Overhead = 1
  Garbage = {6}
  Counts = {6, 9, 90}
  MaxCuts = 2
SPECIFICATION FairSpec
INVARIANTS
  TypeOK
  SetsWhole
  SetsDelivered
  SizeIsBuffered
  NeverBlocks
PROPERTY
  Returns
CHECK_DEADLOCK FALSE
