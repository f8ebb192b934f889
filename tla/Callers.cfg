SPECIFICATION CallerSpec
CONSTANTS
  h1 = h1
  h2 = h2
  Host = {h1, h2}
  NoHost = NoHost
  DefaultHosts <- MCDefaultHosts
  MaxEntries = 3
  MaxCalledEntries = 1
  Ranking = {0, 1, 2}
  Time = {1, 2}
  Faults = {"realloc", "alloc", "strdup", "curl"}
  CacheName = {"none", "file", "memcached", "memory", "mock", "other"}
  InitFaults = {"alloc", "strdup", "provider"}
INVARIANTS
  CallersTypeOK
  EachServerOnce
  
  NothingLeft
  PoolsFreed
  CallsOnWhatExists
  FiniSafe
PROPERTIES
  InitEnds
CHECK_DEADLOCK FALSE
