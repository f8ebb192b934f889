------------------------- MODULE MCDetectWithCache --------------------------
(* Two threads, two servers and requests of which two share a cache key.   *)
EXTENDS DetectWithCache, TLC

CONSTANTS r1, r2, r3, k1, k2

MCKeyOf == r1 :> k1 @@ r2 :> k1 @@ r3 :> k2
MCValue == [req : Request, kind : Kinds]
ThreadSymmetry == Permutations(Thread)
=============================================================================
