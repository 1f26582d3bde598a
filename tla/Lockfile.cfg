CONSTANTS
  Procs = {p1, p2, p3}
  Accounts = {{p1, p2}, {p3}}
  Root = {p3}
  NoFile = NoFile
  Empty = Empty
SPECIFICATION FairSpec
INVARIANTS
  TypeOK
  ExclusionUnlessDisturbed
  HolderIsRecorded
PROPERTIES
  StaleLockRecovered
  EveryInstanceEnds
CHECK_DEADLOCK FALSE
