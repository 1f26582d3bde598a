CONSTANTS
  Procs = {p1, p2}
  Accounts = {{p1, p2}}
  Root = {}
  NoFile = NoFile
  Empty = Empty
SPECIFICATION Spec
INVARIANT MutualExclusion
CHECK_DEADLOCK FALSE
