CONSTANTS
  InputSizes <- TwoFiles
  Packets <- AllPackets
  MaxHead = 1
  Split = 4
  BuffSize = 2
  StoreSize = 3
  IntLimit = 8
  MaxFileNr = 3
  NumberLimit = 3
SPECIFICATION FairSpec
INVARIANTS
  TypeOK
  OutputInOrder
  HeldFits
  SplitAtIFrame
  IndexComplete
  IndexPointsUnlessBroken
PROPERTY Ends
CHECK_DEADLOCK FALSE
