---------------------------- MODULE MCDetectGlib ----------------------------
(* A table with a threshold of one clears at each get that finds an entry, *)
(* one of two keeps a first entry to be found.                             *)
EXTENDS DetectGlib, TLC

CONSTANTS t1, t2, m1, r1, r2, k1, k2

MCKeyOf == r1 :> k1 @@ r2 :> k2
MCValue == [req : Request, kind : Kinds]
OneMutex == [t \in Thread |-> m1]
=============================================================================
