------------------------------ MODULE CacheSpec ------------------------------
(***************************************************************************)
(* What a cache provider promises da_cloud_detect: a get finds nothing, or *)
(* a value that some thread has handed to set under the same key.  Nothing *)
(* promises that a value stored is ever found again: each provider may     *)
(* refuse a set and may forget, and the mock provider does nothing else.   *)
(***************************************************************************)
EXTENDS CacheInterface

Answers(c) ==
  {NoValue} \cup {v \in Value : c.op = "get" /\ <<c.key, v>> \in offered}

Complete(t) ==
  /\ stage[t] = "busy"
  /\ stage' = [stage EXCEPT ![t] = "done"]
  /\ \E v \in Answers(call[t]) : ans' = [ans EXCEPT ![t] = v]
  /\ UNCHANGED <<call, missed, offered>>

Next == \E t \in Thread : ClientNext(t) \/ Complete(t)

Spec == InterfaceInit /\ [][Next]_interface
=============================================================================
