--------------------------- MODULE CacheInterface ---------------------------
(***************************************************************************)
(* The calls da_cloud_detect makes on a cache provider through             *)
(* struct da_cloud_cache_ops: get and set, by several threads that share   *)
(* one cache.                                                              *)
(*                                                                         *)
(* The module holds what caller and provider share: the call a thread is   *)
(* in and the answer it gets.  A provider adds the steps that take a       *)
(* thread from "busy" to "done"; a client chooses the calls, and may set   *)
(* only the key of its own last get, when that missed (dacloud.c:305-348). *)
(***************************************************************************)
EXTENDS Integers, FiniteSets

CONSTANTS
  Thread,   \* the threads that use the cache
  Key,      \* cache keys
  NoKey,
  Value,    \* the values that can be stored
  NoValue   \* a NULL value: the get missed

ASSUME InterfaceAssumption == NoKey \notin Key /\ NoValue \notin Value

VARIABLES
  stage,    \* stage[t]: "idle", "busy" inside a call, "done" when it returned
  call,     \* call[t]: the call made last
  ans,      \* ans[t]: what a get has left in *value
  missed,   \* missed[t]: the key a set may now be called with
  offered   \* every pair of key and value ever handed to set

interface == <<stage, call, ans, missed, offered>>

GetCall(k) == [op |-> "get", key |-> k, val |-> NoValue]
SetCall(k, v) == [op |-> "set", key |-> k, val |-> v]
NoCall == [op |-> "none", key |-> NoKey, val |-> NoValue]

Calls == {GetCall(k) : k \in Key} \cup {SetCall(k, v) : k \in Key, v \in Value}

InterfaceTypeOK ==
  /\ stage \in [Thread -> {"idle", "busy", "done"}]
  /\ call \in [Thread -> Calls \cup {NoCall}]
  /\ ans \in [Thread -> Value \cup {NoValue}]
  /\ missed \in [Thread -> Key \cup {NoKey}]
  /\ offered \in SUBSET (Key \X Value)
  /\ \A t \in Thread : stage[t] # "idle" => call[t] \in Calls

InterfaceInit ==
  /\ stage = [t \in Thread |-> "idle"]
  /\ call = [t \in Thread |-> NoCall]
  /\ ans = [t \in Thread |-> NoValue]
  /\ missed = [t \in Thread |-> NoKey]
  /\ offered = {}

-----------------------------------------------------------------------------
(* The thread enters cops.get or cops.set; *value is NULL (line 299).      *)
Invoke(t, c) ==
  /\ stage[t] = "idle"
  /\ c.op = "set" => missed[t] = c.key
  /\ stage' = [stage EXCEPT ![t] = "busy"]
  /\ call' = [call EXCEPT ![t] = c]
  /\ missed' = [missed EXCEPT ![t] = NoKey]
  /\ offered' = IF c.op = "set" THEN offered \cup {<<c.key, c.val>>} ELSE offered
  /\ UNCHANGED ans

(* The thread takes the answer and goes on.  A value left by get decides   *)
(* between hit and miss, not what get returned (line 306).                 *)
Missed(c, v) == IF c.op = "get" /\ v = NoValue THEN c.key ELSE NoKey

Collect(t) ==
  /\ stage[t] = "done"
  /\ stage' = [stage EXCEPT ![t] = "idle"]
  /\ call' = [call EXCEPT ![t] = NoCall]
  /\ ans' = [ans EXCEPT ![t] = NoValue]
  /\ missed' = [missed EXCEPT ![t] = Missed(call[t], ans[t])]
  /\ UNCHANGED offered

(* A client that calls in every way da_cloud_detect may.                   *)
ClientNext(t) == (\E c \in Calls : Invoke(t, c)) \/ Collect(t)
=============================================================================
