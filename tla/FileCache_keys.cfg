SPECIFICATION BuildSpec
CONSTANTS
  Thread = {p1, p2}
  Key = {k1, k2}
  NoKey = NoKey
  Value <- MCValues
  NoValue = NoValue
  Inode = {f1, f2}
  NoInode = NoInode
  Newline = "newline"
  Nul = "nul"
  Garbage = Garbage
  BUFSIZE = 2
  ATTEMPTS = 1
  Expiration = 1
  MaxTime = 1
  UnlockOutcome = {"released"}
  Faults = {"alloc", "disk"}
  PAGE = 3
INVARIANTS
  OfItsKey
SYMMETRY FileSymmetry
