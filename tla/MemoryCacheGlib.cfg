SPECIFICATION Spec
CONSTANTS
  t1 = t1
  t2 = t2
  m1 = m1
  Thread = {t1, t2}
  Key = {k1, k2, k3, k4}
  NoKey = NoKey
  Value = {v1, v2}
  NoValue = NoValue
  Mutex = {m1}
  mtxOf <- OneMutex
  NoThread = NoThread
  UnlockOutcome = {"kept", "released"}
  HASH_THRESHOLD = 3
  HASH_MIN = 2
  INT_MAX = 9
  Configured = 2
INVARIANTS
  TypeOK
  SizeBound
  NoTableRace
PROPERTIES
  StoredStays
  CacheContract
SYMMETRY DataSymmetry
CHECK_DEADLOCK FALSE
