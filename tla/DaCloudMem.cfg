SPECIFICATION Spec
CONSTANTS
  Block = {b1, b2, b3}
  NULL = NULL
  Holder = {h1, h2}
  Main = h1
  InitSizes <- MCInitSizes
  Requests <- MCRequests
  SIZE = 1024
  WORD = 64
  LONG_MAX = 24
  MaxRegions = 3
INVARIANTS
  TypeOK
  RegionsDisjoint
  RegionsInBlock
  NoOrphan
  FreedEntirely
SYMMETRY BlockSymmetry
CHECK_DEADLOCK FALSE
