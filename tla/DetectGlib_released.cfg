SPECIFICATION Spec
CONSTANTS
  t1 = t1
  t2 = t2
  m1 = m1
  r1 = r1
  r2 = r2
  k1 = k1
  k2 = k2
  Thread = {t1, t2}
  Key = {k1, k2}
  NoKey = NoKey
  Value <- MCValue
  NoValue = NoValue
  Request = {r1, r2}
  keyOf <- MCKeyOf
  NoRequest = NoRequest
  nb = 1
  Kinds = {"properties", "other"}
  Faults = {}
  MaxDetects = 2
  Mutex = {m1}
  mtxOf <- OneMutex
  NoThread = NoThread
  UnlockOutcome = {"released"}
  HASH_THRESHOLD = 2
  HASH_MIN = 2
  INT_MAX = 9
  Configured = 0
PROPERTIES
  DetectReturns
CHECK_DEADLOCK FALSE
