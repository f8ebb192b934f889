-------------------------- MODULE DetectWithCache --------------------------
(* da_cloud_detect over any cache that keeps the contract of CacheSpec.    *)
EXTENDS DaCloudDetect

Cache == INSTANCE CacheSpec

vars == <<interface, client>>

Answer(t) == alive /\ Cache!Complete(t) /\ UNCHANGED client

Next == \E t \in Thread : DetectNext(t) \/ Answer(t)

Spec == DetectInit /\ [][Next]_vars
=============================================================================
