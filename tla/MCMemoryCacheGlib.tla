-------------------------- MODULE MCMemoryCacheGlib --------------------------
(* Two threads on one table.  The thresholds 2 and 3 stand for the 128 and  *)
(* 4096 of memory_cache_provider.c: small enough for the table to fill up,  *)
(* to be cleared and to outgrow the threshold within four keys.             *)
EXTENDS MemoryCacheGlib, TLC

CONSTANTS t1, t2, m1

OneMutex == t1 :> m1 @@ t2 :> m1
DataSymmetry == Permutations(Key) \cup Permutations(Value)
=============================================================================
