CONSTANTS
  Byte = {a, b}
  Size = 4
  MaxCall = 4
SPECIFICATION FairSpec
INVARIANT TypeOK
PROPERTIES
  ImplementsQueue
  CallReturns
