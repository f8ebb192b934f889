------------------------ MODULE CacheInterfaceProofs ------------------------
(***************************************************************************)
(* Facts about the calls of CacheInterface that the proofs about every     *)
(* client and every provider rest on.                                      *)
(***************************************************************************)
EXTENDS CacheInterface, TLAPS

(* What a call is made of.                                                 *)
LEMMA CallFacts ==
  /\ \A k \in Key : GetCall(k) \in Calls
  /\ \A k \in Key, v \in Value : SetCall(k, v) \in Calls
  /\ \A c \in Calls : /\ c.op \in {"get", "set"}
                      /\ c.key \in Key
                      /\ c.op = "set" => c.val \in Value
<1>1. ASSUME NEW k \in Key
      PROVE  GetCall(k) \in Calls
  BY SMT DEF Calls
<1>2. ASSUME NEW k \in Key, NEW v \in Value
      PROVE  SetCall(k, v) \in Calls
  BY SMT DEF Calls
<1>3. ASSUME NEW c \in Calls
      PROVE  /\ c.op \in {"get", "set"}
             /\ c.key \in Key
             /\ c.op = "set" => c.val \in Value
  BY DEF Calls, GetCall, SetCall
<1> QED
  BY <1>1, <1>2, <1>3

(* A call and its return keep the types of the interface.                  *)
LEMMA InvokeType ==
  ASSUME InterfaceTypeOK, NEW t \in Thread, NEW c \in Calls, Invoke(t, c)
  PROVE  InterfaceTypeOK'
<1>1. offered' \in SUBSET (Key \X Value)
  BY CallFacts DEF Invoke, InterfaceTypeOK
<1> QED
  BY <1>1 DEF Invoke, InterfaceTypeOK

LEMMA CollectType ==
  ASSUME InterfaceTypeOK, NEW t \in Thread, Collect(t)
  PROVE  InterfaceTypeOK'
<1>1. Missed(call[t], ans[t]) \in Key \cup {NoKey}
  BY CallFacts DEF Collect, Missed, InterfaceTypeOK
<1> QED
  BY <1>1 DEF Collect, InterfaceTypeOK

LEMMA ClientTypeStep ==
  ASSUME InterfaceTypeOK, NEW t \in Thread, ClientNext(t)
  PROVE  InterfaceTypeOK'
BY InvokeType, CollectType DEF ClientNext
=============================================================================
