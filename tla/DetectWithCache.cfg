SPECIFICATION Spec
CONSTANTS
  r1 = r1
  r2 = r2
  r3 = r3
  k1 = k1
  k2 = k2
  Thread = {t1, t2}
  Key = {k1, k2}
  NoKey = NoKey
  Value <- MCValue
  NoValue = NoValue
  Request = {r1, r2, r3}
  keyOf <- MCKeyOf
  NoRequest = NoRequest
  nb = 2
  Kinds = {"properties", "bare", "broken", "other"}
  Faults = {"pool", "curl", "reader", "append", "copy", "property"}
  MaxDetects = 2
INVARIANTS
  DetectTypeOK
  CachedUnderItsKey
  ServedForKey
  StoresWhatItMissed
  SourceTruthful
  FailoverComplete
  NothingLeaks
SYMMETRY ThreadSymmetry
CHECK_DEADLOCK FALSE
