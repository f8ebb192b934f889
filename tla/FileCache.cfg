SPECIFICATION BuildSpec
CONSTANTS
  Thread = {p1, p2}
  Key = {k1}
  NoKey = NoKey
  Value <- MCValues
  NoValue = NoValue
  Inode = {f1, f2}
  NoInode = NoInode
  Newline = "newline"
  Nul = "nul"
  Garbage = Garbage
  BUFSIZE = 2
  ATTEMPTS = 2
  Expiration = 1
  MaxTime = 1
  UnlockOutcome = {"kept", "released"}
  Faults = {"mkdir", "open", "stat", "lock", "alloc", "disk", "map"}
  PAGE = 4
INVARIANTS
  BuildTypeOK
  WholeAtRest
  WholeValue
  NeverStaleLine
  NothingLeftOpen
SYMMETRY FileSymmetry
