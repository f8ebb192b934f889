--------------------------- MODULE MCCacheProviders ---------------------------
(* Two threads and one client or two, so that one may have to wait; or one  *)
(* thread on a list whose HASH_THRESHOLD, 4096 in the code, is 3.           *)
EXTENDS CacheProviders

CONSTANTS t1, t2

MCCores == {-1, 1, 2}
=============================================================================
