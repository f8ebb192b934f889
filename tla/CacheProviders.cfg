SPECIFICATION ProvidersSpec
CONSTANTS
  t1 = t1
  t2 = t2
  Thread = {t1, t2}
  User = {t1}
  Key = {k1, k2}
  NoKey = NoKey
  Value = {v1, v2}
  NoValue = NoValue
  MaxEntries = 4
  FirstCount = {0, 9}
  HASH_THRESHOLD = 3
  TailqFaults = {"alloc"}
  Client = {c1, c2}
  NoClient = NoClient
  Cores <- MCCores
  WORD = 8
  McFaults = {"alloc", "server"}
  Cops = {"mock", "memory", "memcached"}
INVARIANTS
  BoundedUntilSpent
  ClientsConserved
PROPERTIES
  MemoryImplementsLog
  CacheContract
  SomeCallReturns
CHECK_DEADLOCK FALSE
