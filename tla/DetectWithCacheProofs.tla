----------------------- MODULE DetectWithCacheProofs -----------------------
(***************************************************************************)
(* What da_cloud_detect guarantees over any cache that keeps the contract  *)
(* of CacheSpec, for any number of threads, servers, requests and keys,    *)
(* any kinds of answers and any allocations that fail.                     *)
(*                                                                         *)
(* The inductive invariant DetectInv says, for each place a detection may  *)
(* be at, what it has learnt so far: the call it is in, whom it has asked, *)
(* what it holds.  A step of one thread leaves every other thread where it *)
(* was, so each action is looked at for the thread that takes it alone.    *)
(***************************************************************************)
EXTENDS DetectWithCache, CacheInterfaceProofs

(* What DetectGlib adds: the provider and its state.                       *)
CONSTANTS Mutex, mtxOf, NoThread, UnlockOutcome,
          HASH_THRESHOLD, HASH_MIN, INT_MAX, Configured

VARIABLES at, owner, table, value

App == INSTANCE DetectGlib

(* DetectTypeOK, with the bound on contacts left to what the places say.   *)
BaseTypeOK ==
  /\ InterfaceTypeOK
  /\ pc \in [Thread -> {"idle", "get", "try", "set", "parse", "hung", "returned"}]
  /\ req \in [Thread -> Request \cup {NoRequest}]
  /\ i \in [Thread -> 1 .. nb + 1]
  /\ cacheval \in [Thread -> Value \cup {NoValue}]
  /\ source \in [Thread -> {"unset", "none", "cache", "cloud"}]
  /\ ret \in [Thread -> {-1, 0}]
  /\ props \in [Thread -> {"unset", "empty", "partial", "full"}]
  /\ held \in [Thread -> SUBSET Resource]
  /\ contacts \in [Thread -> Seq(Outcome)]
  /\ served \in [Thread -> Value \cup {NoValue}]
  /\ detects \in [Thread -> 0 .. MaxDetects]

(* The servers asked so far, and what came of it.                          *)
AllFailed(s) == \A n \in 1 .. Len(s) : s[n] = "failed"
EndsWith(s, o) ==
  /\ s # <<>> /\ s[Len(s)] = o
  /\ \A n \in 1 .. Len(s) - 1 : s[n] = "failed"

(* What holds of a detection on its way out, whichever way that is.        *)
AskedInOrder(t) ==
  \/ contacts[t] = <<>>
  \/ AllFailed(contacts[t]) /\ Len(contacts[t]) = nb
  \/ EndsWith(contacts[t], "other")
  \/ EndsWith(contacts[t], "braced")

Truthful(t) ==
  /\ source[t] = "cache" => ret[t] = 0 /\ contacts[t] = <<>>
  /\ source[t] = "cloud" => ret[t] = 0 /\ EndsWith(contacts[t], "braced")
  /\ source[t] \in {"unset", "none"} => ret[t] = -1

OfTheKey(t, v) == v # NoValue => keyOf[v.req] = keyOf[req[t]]

(* What each place implies.                                                *)
Pending(t) == source[t] = "none" /\ ret[t] = -1 /\ served[t] = NoValue

AtIdle(t) ==
  /\ stage[t] = "idle" /\ cacheval[t] = NoValue /\ served[t] = NoValue
  /\ contacts[t] = <<>> /\ held[t] = {} /\ source[t] = "unset"

AtGet(t) ==
  /\ stage[t] # "idle" /\ req[t] \in Request
  /\ call[t] = GetCall(keyOf[req[t]])
  /\ ans[t] # NoValue => <<keyOf[req[t]], ans[t]>> \in offered
  /\ Pending(t) /\ cacheval[t] = NoValue
  /\ contacts[t] = <<>> /\ held[t] = {"pool"}

AtTry(t) ==
  /\ stage[t] = "idle" /\ req[t] \in Request
  /\ missed[t] = keyOf[req[t]]
  /\ Pending(t) /\ cacheval[t] = NoValue
  /\ AllFailed(contacts[t]) /\ Len(contacts[t]) = i[t] - 1
  /\ held[t] = {"pool", "curl"}

AtSet(t) ==
  /\ stage[t] # "idle" /\ req[t] \in Request
  /\ call[t] = SetCall(keyOf[req[t]], cacheval[t])
  /\ cacheval[t] \in Value /\ OfTheKey(t, cacheval[t])
  /\ Pending(t)
  /\ EndsWith(contacts[t], "braced")
  /\ held[t] = {"pool", "curl", "reader"}

AtParse(t) ==
  /\ stage[t] = "idle" /\ req[t] \in Request
  /\ OfTheKey(t, cacheval[t]) /\ served[t] = NoValue
  /\ AskedInOrder(t) /\ Truthful(t)
  /\ held[t] \subseteq {"pool", "cacheval"}

AtReturned(t) ==
  /\ stage[t] = "idle" /\ req[t] \in Request
  /\ OfTheKey(t, served[t]) /\ cacheval[t] = NoValue
  /\ AskedInOrder(t) /\ Truthful(t)
  /\ props[t] # "partial" => held[t] \subseteq {"pool"}

Phase(t) ==
  /\ stage[t] # "done" => ans[t] = NoValue
  /\ Len(contacts[t]) <= nb
  /\ pc[t] = "idle" => AtIdle(t)
  /\ pc[t] = "get" => AtGet(t)
  /\ pc[t] = "try" => AtTry(t)
  /\ pc[t] = "hung" => served[t] = NoValue
  /\ pc[t] = "set" => AtSet(t)
  /\ pc[t] = "parse" => AtParse(t)
  /\ pc[t] = "returned" => AtReturned(t)

DetectInv == BaseTypeOK /\ CachedUnderItsKey /\ \A t \in Thread : Phase(t)

-----------------------------------------------------------------------------
(* Type correctness.                                                       *)

LEMMA AnswerFacts ==
  ASSUME NEW r \in Request, NEW v \in Value, v.req = r
  PROVE  GetCall(keyOf[r]) \in Calls /\ SetCall(keyOf[r], v) \in Calls
BY CallFacts, DetectAssumption

LEMMA BaseTypeStep ==
  ASSUME BaseTypeOK, NEW t \in Thread, DetectNext(t)
  PROVE  BaseTypeOK'
<1> USE DetectAssumption DEF BaseTypeOK
<1>1. ASSUME NEW r \in Request, Begin(t, r)
      PROVE  BaseTypeOK'
  <2>1. GetCall(keyOf[r]) \in Calls
    BY CallFacts
  <2>2. InterfaceTypeOK'
    BY <1>1, <2>1, InvokeType DEF Begin
  <2> QED
    BY <1>1, <2>2 DEF Begin, Goto, Acquire, Resource
<1>2. ASSUME NEW r \in Request, NoPool(t, r)
      PROVE  BaseTypeOK'
  BY <1>2 DEF NoPool, Goto, interface, InterfaceTypeOK
<1>3. ASSUME CacheHit(t)
      PROVE  BaseTypeOK'
  <2>1. InterfaceTypeOK' /\ ans[t] \in Value \cup {NoValue}
    BY <1>3, CollectType DEF CacheHit, InterfaceTypeOK
  <2> QED
    BY <1>3, <2>1 DEF CacheHit, Goto, Acquire, Resource
<1>4. ASSUME CacheMiss(t)
      PROVE  BaseTypeOK'
  <2>1. InterfaceTypeOK' /\ ans[t] \in Value \cup {NoValue}
    BY <1>4, CollectType DEF CacheMiss, InterfaceTypeOK
  <2> QED
    BY <1>4, <2>1 DEF CacheMiss, Goto, Acquire, Resource
<1>5. ASSUME NoHandle(t)
      PROVE  BaseTypeOK'
  <2>1. InterfaceTypeOK' /\ ans[t] \in Value \cup {NoValue}
    BY <1>5, CollectType DEF NoHandle, InterfaceTypeOK
  <2> QED
    BY <1>5, <2>1 DEF NoHandle, Goto
<1>6. ASSUME ServerFails(t)
      PROVE  BaseTypeOK'
  <2>1. InterfaceTypeOK'
    BY <1>6 DEF ServerFails, interface, InterfaceTypeOK
  <2> QED
    BY <1>6, <2>1 DEF ServerFails, Trying, Contact, Outcome
<1>7. ASSUME ServerHangs(t)
      PROVE  BaseTypeOK'
  <2>1. InterfaceTypeOK'
    BY <1>7 DEF ServerHangs, interface, InterfaceTypeOK
  <2> QED
    BY <1>7, <2>1 DEF ServerHangs, Goto
<1>8. ASSUME ServerRefuses(t)
      PROVE  BaseTypeOK'
  <2>1. InterfaceTypeOK'
    BY <1>8 DEF ServerRefuses, interface, InterfaceTypeOK
  <2> QED
    BY <1>8, <2>1 DEF ServerRefuses, Contact, Goto, Release, Outcome
<1>9. ASSUME ServerAnswers(t)
      PROVE  BaseTypeOK'
  <2>1. PICK v \in Value : /\ v.req = req[t]
                           /\ cacheval' = [cacheval EXCEPT ![t] = v]
                           /\ Invoke(t, SetCall(keyOf[req[t]], v))
    BY <1>9 DEF ServerAnswers
  <2>2. SetCall(keyOf[req[t]], v) \in Calls
    BY <2>1, CallFacts
  <2>3. InterfaceTypeOK'
    BY <2>1, <2>2, InvokeType
  <2> QED
    BY <1>9, <2>1, <2>3 DEF ServerAnswers, Contact, Goto, Acquire, Resource, Outcome
<1>10. ASSUME Crash(t)
       PROVE  BaseTypeOK'
  BY <1>10 DEF Crash, local, interface, InterfaceTypeOK
<1>11. ASSUME ServersExhausted(t)
       PROVE  BaseTypeOK'
  <2>1. InterfaceTypeOK'
    BY <1>11 DEF ServersExhausted, interface, InterfaceTypeOK
  <2> QED
    BY <1>11, <2>1 DEF ServersExhausted, Release, Goto
<1>12. ASSUME Stored(t)
       PROVE  BaseTypeOK'
  <2>1. InterfaceTypeOK' /\ ans[t] \in Value \cup {NoValue}
    BY <1>12, CollectType DEF Stored, InterfaceTypeOK
  <2> QED
    BY <1>12, <2>1 DEF Stored, Goto, Transfer, Resource
<1>13. ASSUME NoCopy(t)
       PROVE  BaseTypeOK'
  <2>1. InterfaceTypeOK' /\ ans[t] \in Value \cup {NoValue}
    BY <1>13, CollectType DEF NoCopy, InterfaceTypeOK
  <2> QED
    BY <1>13, <2>1 DEF NoCopy, Goto, Release
<1>14. ASSUME ParseNothing(t)
       PROVE  BaseTypeOK'
  <2>1. InterfaceTypeOK'
    BY <1>14 DEF ParseNothing, interface, InterfaceTypeOK
  <2> QED
    BY <1>14, <2>1 DEF ParseNothing, Goto, Release
<1>15. ASSUME ParseObject(t)
       PROVE  BaseTypeOK'
  <2>1. InterfaceTypeOK'
    BY <1>15 DEF ParseObject, interface, InterfaceTypeOK
  <2> QED
    BY <1>15, <2>1 DEF ParseObject, Goto, Release
<1>16. ASSUME ParseStops(t)
       PROVE  BaseTypeOK'
  <2>1. InterfaceTypeOK'
    BY <1>16 DEF ParseStops, interface, InterfaceTypeOK
  <2> QED
    BY <1>16, <2>1 DEF ParseStops, Goto, Acquire, Resource
<1>17. ASSUME Free(t)
       PROVE  BaseTypeOK'
  BY <1>17 DEF Free, interface, InterfaceTypeOK
<1> QED
  BY <1>1, <1>2, <1>3, <1>4, <1>5, <1>6, <1>7, <1>8, <1>9, <1>10, <1>11, <1>12,
     <1>13, <1>14, <1>15, <1>16, <1>17 DEF DetectNext, Detection

-----------------------------------------------------------------------------
(* A step of one thread leaves the others where they are.                  *)

Unmoved(u) ==
  /\ stage'[u] = stage[u] /\ call'[u] = call[u] /\ ans'[u] = ans[u]
  /\ missed'[u] = missed[u] /\ pc'[u] = pc[u] /\ req'[u] = req[u] /\ i'[u] = i[u]
  /\ cacheval'[u] = cacheval[u] /\ source'[u] = source[u] /\ ret'[u] = ret[u]
  /\ props'[u] = props[u] /\ held'[u] = held[u] /\ contacts'[u] = contacts[u]
  /\ served'[u] = served[u]

LEMMA UnmovedPhase ==
  ASSUME NEW u \in Thread, Phase(u), Unmoved(u), offered \subseteq offered'
  PROVE  Phase(u)'
BY DEF Phase, Unmoved, AtIdle, AtGet, AtTry, AtSet, AtParse, AtReturned, Pending,
   AskedInOrder, Truthful, OfTheKey, AllFailed, EndsWith, GetCall, SetCall

LEMMA OthersUnmoved ==
  ASSUME BaseTypeOK, NEW t \in Thread, DetectNext(t), NEW u \in Thread, u # t
  PROVE  Unmoved(u) /\ offered \subseteq offered'
<1> USE DEF BaseTypeOK, InterfaceTypeOK, Unmoved
<1>1. ASSUME NEW r \in Request, Begin(t, r)
      PROVE  Unmoved(u) /\ offered \subseteq offered'
  BY <1>1 DEF Begin, Goto, Acquire, Invoke, GetCall
<1>2. ASSUME NEW r \in Request, NoPool(t, r)
      PROVE  Unmoved(u) /\ offered \subseteq offered'
  BY <1>2 DEF NoPool, Goto, interface
<1>3. ASSUME CacheHit(t)
      PROVE  Unmoved(u) /\ offered \subseteq offered'
  BY <1>3 DEF CacheHit, Goto, Acquire, Collect
<1>4. ASSUME CacheMiss(t)
      PROVE  Unmoved(u) /\ offered \subseteq offered'
  BY <1>4 DEF CacheMiss, Goto, Acquire, Collect
<1>5. ASSUME NoHandle(t)
      PROVE  Unmoved(u) /\ offered \subseteq offered'
  BY <1>5 DEF NoHandle, Goto, Collect
<1>6. ASSUME ServerFails(t)
      PROVE  Unmoved(u) /\ offered \subseteq offered'
  BY <1>6 DEF ServerFails, Contact, interface
<1>7. ASSUME ServerHangs(t)
      PROVE  Unmoved(u) /\ offered \subseteq offered'
  BY <1>7 DEF ServerHangs, Goto, interface
<1>8. ASSUME ServerRefuses(t)
      PROVE  Unmoved(u) /\ offered \subseteq offered'
  BY <1>8 DEF ServerRefuses, Contact, Release, Goto, interface
<1>9. ASSUME ServerAnswers(t)
      PROVE  Unmoved(u) /\ offered \subseteq offered'
  BY <1>9 DEF ServerAnswers, Contact, Acquire, Goto, Invoke
<1>10. ASSUME Crash(t)
       PROVE  Unmoved(u) /\ offered \subseteq offered'
  BY <1>10 DEF Crash, local, interface
<1>11. ASSUME ServersExhausted(t)
       PROVE  Unmoved(u) /\ offered \subseteq offered'
  BY <1>11 DEF ServersExhausted, Release, Goto, interface
<1>12. ASSUME Stored(t)
       PROVE  Unmoved(u) /\ offered \subseteq offered'
  BY <1>12 DEF Stored, Goto, Collect
<1>13. ASSUME NoCopy(t)
       PROVE  Unmoved(u) /\ offered \subseteq offered'
  BY <1>13 DEF NoCopy, Release, Goto, Collect
<1>14. ASSUME ParseNothing(t)
       PROVE  Unmoved(u) /\ offered \subseteq offered'
  BY <1>14 DEF ParseNothing, Release, Goto, interface
<1>15. ASSUME ParseObject(t)
       PROVE  Unmoved(u) /\ offered \subseteq offered'
  BY <1>15 DEF ParseObject, Release, Goto, interface
<1>16. ASSUME ParseStops(t)
       PROVE  Unmoved(u) /\ offered \subseteq offered'
  BY <1>16 DEF ParseStops, Acquire, Goto, interface
<1>17. ASSUME Free(t)
       PROVE  Unmoved(u) /\ offered \subseteq offered'
  BY <1>17 DEF Free, interface
<1> QED
  BY <1>1, <1>2, <1>3, <1>4, <1>5, <1>6, <1>7, <1>8, <1>9, <1>10, <1>11, <1>12,
     <1>13, <1>14, <1>15, <1>16, <1>17 DEF DetectNext, Detection

-----------------------------------------------------------------------------
(* The thread that steps arrives where its new place says.                 *)

LEMMA PhaseStep ==
  ASSUME BaseTypeOK, CachedUnderItsKey, NEW t \in Thread, Phase(t), DetectNext(t)
  PROVE  Phase(t)'
<1> USE DetectAssumption, InterfaceAssumption DEF BaseTypeOK, InterfaceTypeOK, Phase,
   Pending
<1>1. ASSUME NEW r \in Request, Begin(t, r)
      PROVE  Phase(t)'
  BY <1>1 DEF Begin, Goto, Acquire, Invoke, GetCall, AtIdle, AtGet
<1>2. ASSUME NEW r \in Request, NoPool(t, r)
      PROVE  Phase(t)'
  BY <1>2 DEF NoPool, Goto, interface, AtIdle, AtReturned, AskedInOrder, Truthful,
     OfTheKey
<1>3. ASSUME CacheHit(t)
      PROVE  Phase(t)'
  <2>1. AtGet(t) /\ pc[t] = "get"
    BY <1>3 DEF CacheHit
  <2>2. /\ pc'[t] = "parse" /\ stage'[t] = "idle" /\ ans'[t] = NoValue
        /\ UNCHANGED <<req, contacts, served, offered>>
        /\ cacheval'[t] = ans[t] /\ source'[t] = "cache" /\ ret'[t] = 0
        /\ held'[t] = held[t] \cup {"cacheval"}
    BY <1>3 DEF CacheHit, Goto, Acquire, Collect
  <2>3. keyOf[ans[t].req] = keyOf[req[t]]
    BY <2>1, <2>2, <1>3 DEF AtGet, CacheHit, CachedUnderItsKey, OfTheKey
  <2>4. AskedInOrder(t)' /\ Truthful(t)' /\ OfTheKey(t, cacheval[t])'
    BY <2>1, <2>2, <2>3 DEF AtGet, AskedInOrder, Truthful, OfTheKey
  <2>5. AtParse(t)' /\ contacts'[t] = <<>>
    BY <2>1, <2>2, <2>4 DEF AtGet, AtParse
  <2> QED
    BY <2>2, <2>5
<1>4. ASSUME CacheMiss(t)
      PROVE  Phase(t)'
  <2>1. AtGet(t)
    BY <1>4 DEF CacheMiss
  <2>2. /\ pc'[t] = "try" /\ stage'[t] = "idle" /\ ans'[t] = NoValue /\ i'[t] = 1
        /\ UNCHANGED <<req, contacts, served, cacheval, source, ret>>
        /\ held'[t] = held[t] \cup {"curl"}
        /\ missed'[t] = Missed(call[t], ans[t])
    BY <1>4 DEF CacheMiss, Goto, Acquire, Collect
  <2>3. Missed(call[t], ans[t]) = keyOf[req[t]]
    BY <2>1, <1>4 DEF AtGet, CacheMiss, Missed, GetCall
  <2> QED
    BY <2>1, <2>2, <2>3 DEF AtGet, AtTry, AllFailed
<1>5. ASSUME NoHandle(t)
      PROVE  Phase(t)'
  BY <1>5 DEF NoHandle, Goto, Collect, AtGet, AtReturned, AskedInOrder, Truthful,
     OfTheKey
<1>6. ASSUME ServerFails(t)
      PROVE  Phase(t)'
  <2>1. AtTry(t) /\ i[t] <= nb
    BY <1>6 DEF ServerFails, Trying
  <2>2. /\ contacts'[t] = Append(contacts[t], "failed") /\ i'[t] = i[t] + 1
        /\ UNCHANGED <<pc, stage, ans, missed, req, cacheval, source, ret, held, served>>
    BY <1>6 DEF ServerFails, Contact, interface
  <2>3. AllFailed(contacts[t])' /\ Len(contacts'[t]) = i[t]
    BY <2>1, <2>2 DEF AtTry, AllFailed, Outcome
  <2> QED
    BY <2>1, <2>2, <2>3, <1>6 DEF AtTry, ServerFails, Trying
<1>7. ASSUME ServerHangs(t)
      PROVE  Phase(t)'
  <2>1. AtTry(t)
    BY <1>7 DEF ServerHangs, Trying
  <2>2. pc'[t] = "hung" /\ UNCHANGED <<stage, ans, contacts, served>>
    BY <1>7 DEF ServerHangs, Goto, interface
  <2> QED
    BY <2>1, <2>2 DEF AtTry
<1>8. ASSUME ServerRefuses(t)
      PROVE  Phase(t)'
  <2>1. AtTry(t) /\ i[t] <= nb
    BY <1>8 DEF ServerRefuses, Trying
  <2>2. /\ contacts'[t] = Append(contacts[t], "other") /\ pc'[t] = "returned"
        /\ held'[t] = held[t] \ Transfer
        /\ UNCHANGED <<stage, ans, req, cacheval, source, ret, served>>
    BY <1>8 DEF ServerRefuses, Contact, Release, Goto, interface
  <2>3. EndsWith(contacts[t], "other")' /\ Len(contacts'[t]) = i[t]
    BY <2>1, <2>2 DEF AtTry, AllFailed, EndsWith, Outcome
  <2>4. AskedInOrder(t)' /\ Truthful(t)'
    BY <2>1, <2>2, <2>3 DEF AtTry, AskedInOrder, Truthful
  <2> QED
    BY <2>1, <2>2, <2>3, <2>4 DEF AtTry, AtReturned, OfTheKey, Transfer
<1>9. ASSUME ServerAnswers(t)
      PROVE  Phase(t)'
  <2>1. AtTry(t) /\ i[t] <= nb
    BY <1>9 DEF ServerAnswers, Trying
  <2>2. PICK v \in Value : /\ v.req = req[t]
                           /\ cacheval' = [cacheval EXCEPT ![t] = v]
                           /\ Invoke(t, SetCall(keyOf[req[t]], v))
    BY <1>9 DEF ServerAnswers
  <2>3. /\ contacts'[t] = Append(contacts[t], "braced") /\ pc'[t] = "set"
        /\ held'[t] = held[t] \cup {"reader"} /\ cacheval'[t] = v
        /\ stage'[t] = "busy" /\ call'[t] = SetCall(keyOf[req[t]], v)
        /\ UNCHANGED <<ans, req, source, ret, served>>
    BY <1>9, <2>2 DEF ServerAnswers, Contact, Acquire, Goto, Invoke
  <2>4. EndsWith(contacts[t], "braced")' /\ Len(contacts'[t]) = i[t]
    BY <2>1, <2>3 DEF AtTry, AllFailed, EndsWith, Outcome
  <2>5. AtSet(t)'
    BY <2>1, <2>2, <2>3, <2>4 DEF AtTry, AtSet, OfTheKey, SetCall
  <2> QED
    BY <2>1, <2>3, <2>4, <2>5 DEF AtTry
<1>10. ASSUME Crash(t)
       PROVE  Phase(t)'
  BY <1>10 DEF Crash, local, interface, AtIdle, AtGet, AtTry, AtSet, AtParse,
     AtReturned, AskedInOrder, Truthful, OfTheKey
<1>11. ASSUME ServersExhausted(t)
       PROVE  Phase(t)'
  <2>1. AtTry(t) /\ i[t] > nb
    BY <1>11 DEF ServersExhausted
  <2>2. /\ pc'[t] = "parse" /\ held'[t] = held[t] \ Transfer
        /\ UNCHANGED <<stage, ans, req, cacheval, source, ret, contacts, served>>
    BY <1>11 DEF ServersExhausted, Release, Goto, interface
  <2>3. Len(contacts[t]) = nb
    BY <2>1 DEF AtTry
  <2>4. AskedInOrder(t)' /\ Truthful(t)'
    BY <2>1, <2>2, <2>3 DEF AtTry, AskedInOrder, AllFailed, Truthful
  <2> QED
    BY <2>1, <2>2, <2>4 DEF AtTry, AtParse, OfTheKey, Transfer
<1>12. ASSUME Stored(t)
       PROVE  Phase(t)'
  <2>1. AtSet(t)
    BY <1>12 DEF Stored
  <2>2. /\ pc'[t] = "parse" /\ held'[t] = (held[t] \ Transfer) \cup {"cacheval"}
        /\ source'[t] = "cloud" /\ ret'[t] = 0
        /\ stage'[t] = "idle" /\ ans'[t] = NoValue
        /\ UNCHANGED <<req, cacheval, contacts, served>>
    BY <1>12 DEF Stored, Goto, Collect
  <2>3. AskedInOrder(t)' /\ Truthful(t)'
    BY <2>1, <2>2 DEF AtSet, AskedInOrder, EndsWith, Truthful
  <2> QED
    BY <2>1, <2>2, <2>3 DEF AtSet, AtParse, OfTheKey, Transfer
<1>13. ASSUME NoCopy(t)
       PROVE  Phase(t)'
  <2>1. AtSet(t)
    BY <1>13 DEF NoCopy
  <2>2. /\ pc'[t] = "returned" /\ held'[t] = held[t] \ Transfer
        /\ cacheval'[t] = NoValue /\ stage'[t] = "idle" /\ ans'[t] = NoValue
        /\ UNCHANGED <<req, source, ret, contacts, served>>
    BY <1>13 DEF NoCopy, Release, Goto, Collect
  <2>3. AskedInOrder(t)' /\ Truthful(t)'
    BY <2>1, <2>2 DEF AtSet, AskedInOrder, EndsWith, Truthful
  <2> QED
    BY <2>1, <2>2, <2>3 DEF AtSet, AtReturned, OfTheKey, Transfer
<1>14. ASSUME ParseNothing(t)
       PROVE  Phase(t)'
  BY <1>14 DEF ParseNothing, Release, Goto, interface, AtParse, AtReturned,
     AskedInOrder, Truthful, OfTheKey
<1>15. ASSUME ParseObject(t)
       PROVE  Phase(t)'
  BY <1>15 DEF ParseObject, Release, Goto, interface, AtParse, AtReturned,
     AskedInOrder, Truthful, OfTheKey
<1>16. ASSUME ParseStops(t)
       PROVE  Phase(t)'
  BY <1>16 DEF ParseStops, Acquire, Goto, interface, AtParse, AtReturned,
     AskedInOrder, Truthful, OfTheKey
<1>17. ASSUME Free(t)
       PROVE  Phase(t)'
  BY <1>17 DEF Free, interface, AtReturned, AtIdle, AskedInOrder, Truthful, OfTheKey
<1> QED
  BY <1>1, <1>2, <1>3, <1>4, <1>5, <1>6, <1>7, <1>8, <1>9, <1>10, <1>11, <1>12,
     <1>13, <1>14, <1>15, <1>16, <1>17 DEF DetectNext, Detection

-----------------------------------------------------------------------------
(* The invariant.                                                          *)

(* Only an object that answers the request of the key is handed to set.    *)
LEMMA AnswersStep ==
  ASSUME BaseTypeOK, CachedUnderItsKey, NEW t \in Thread, DetectNext(t)
  PROVE  CachedUnderItsKey'
<1>1. CASE ServerAnswers(t)
  <2>1. PICK v \in Value : /\ v.req = req[t] /\ Braced(v)
                           /\ Invoke(t, SetCall(keyOf[req[t]], v))
    BY <1>1 DEF ServerAnswers
  <2>2. offered' = offered \cup {<<keyOf[req[t]], v>>}
    BY <2>1 DEF Invoke, SetCall
  <2> QED
    BY <2>1, <2>2 DEF CachedUnderItsKey, Braced
<1>2. CASE ~ServerAnswers(t)
  <2>1. offered' = offered
    BY <1>2 DEF DetectNext, Detection, Begin, NoPool, CacheHit, CacheMiss, NoHandle,
       ServerFails, ServerHangs, ServerRefuses, Crash, ServersExhausted, Stored, NoCopy,
       ParseNothing, ParseObject, ParseStops, Free, Invoke, GetCall, Collect, interface
  <2> QED
    BY <2>1 DEF CachedUnderItsKey
<1> QED
  BY <1>1, <1>2

LEMMA DetectStep ==
  ASSUME DetectInv, NEW t \in Thread, DetectNext(t)
  PROVE  DetectInv'
<1>1. BaseTypeOK' /\ CachedUnderItsKey'
  BY BaseTypeStep, AnswersStep DEF DetectInv
<1>2. ASSUME NEW u \in Thread
      PROVE  Phase(u)'
  <2>1. CASE u = t
    BY <2>1, PhaseStep DEF DetectInv
  <2>2. CASE u # t
    BY <2>2, OthersUnmoved, UnmovedPhase DEF DetectInv
  <2> QED
    BY <2>1, <2>2
<1> QED
  BY <1>1, <1>2 DEF DetectInv

(* A cache that completes a call takes its thread nowhere else.            *)
LEMMA AnswerStep ==
  ASSUME DetectInv, NEW t \in Thread, Answer(t)
  PROVE  DetectInv'
<1> USE DEF DetectInv, BaseTypeOK, InterfaceTypeOK
<1>1. PICK v \in Cache!Answers(call[t]) : ans' = [ans EXCEPT ![t] = v]
  BY DEF Answer, Cache!Complete
<1>2. /\ stage[t] = "busy" /\ stage' = [stage EXCEPT ![t] = "done"]
      /\ UNCHANGED <<call, missed, offered, client>>
  BY DEF Answer, Cache!Complete
<1>3. v \in Value \cup {NoValue}
  BY <1>1 DEF Cache!Answers
<1>4. v # NoValue => call[t].op = "get" /\ <<call[t].key, v>> \in offered
  BY <1>1 DEF Cache!Answers
<1>5. BaseTypeOK'
  BY <1>1, <1>2, <1>3 DEF client, local
<1>6. CachedUnderItsKey'
  BY <1>2 DEF CachedUnderItsKey
<1>7. ASSUME NEW u \in Thread, u # t
      PROVE  Phase(u)'
  BY <1>1, <1>2, <1>7, UnmovedPhase DEF Unmoved, client, local
<1>8. Phase(t)'
  <2>1. pc[t] \in {"get", "set", "hung"}
    BY <1>2 DEF Phase, AtIdle, AtTry, AtParse, AtReturned
  <2>2. ASSUME pc[t] = "get"
        PROVE  AtGet(t)'
    <3>1. AtGet(t)
      BY <2>2 DEF Phase
    <3>2. call[t].key = keyOf[req[t]]
      BY <3>1 DEF AtGet, GetCall
    <3>3. /\ ans'[t] = v /\ stage'[t] = "done"
          /\ UNCHANGED <<req, call, offered, source, ret, served, cacheval, contacts, held>>
      BY <1>1, <1>2 DEF client, local
    <3> QED
      BY <1>4, <3>1, <3>2, <3>3 DEF AtGet, GetCall, Pending
  <2>3. pc[t] = "set" => AtSet(t)'
    BY <1>1, <1>2 DEF Phase, AtSet, SetCall, Pending, OfTheKey, EndsWith, client, local
  <2>4. pc' = pc /\ contacts' = contacts /\ served' = served /\ stage'[t] = "done"
    BY <1>2 DEF client, local
  <2> QED
    BY <2>1, <2>2, <2>3, <2>4 DEF Phase
<1> QED
  BY <1>5, <1>6, <1>7, <1>8

LEMMA DetectInitInv == DetectInit => DetectInv
<1> SUFFICES ASSUME DetectInit PROVE DetectInv
  OBVIOUS
<1> USE DetectAssumption DEF DetectInit, InterfaceInit
<1>1. BaseTypeOK
  BY DEF BaseTypeOK, InterfaceTypeOK
<1>2. CachedUnderItsKey
  BY DEF CachedUnderItsKey
<1>3. \A t \in Thread : Phase(t)
  BY DEF Phase, AtIdle
<1> QED
  BY <1>1, <1>2, <1>3 DEF DetectInv

LEMMA DetectInvStep == DetectInv /\ [Next]_vars => DetectInv'
<1> SUFFICES ASSUME DetectInv, [Next]_vars PROVE DetectInv'
  OBVIOUS
<1>1. CASE UNCHANGED vars
  <2>1. /\ BaseTypeOK' /\ CachedUnderItsKey'
        /\ \A u \in Thread : Unmoved(u) /\ offered \subseteq offered'
    BY <1>1 DEF vars, client, local, interface, DetectInv, BaseTypeOK, InterfaceTypeOK,
       CachedUnderItsKey, Unmoved
  <2> QED
    BY <2>1, UnmovedPhase DEF DetectInv
<1> QED
  BY <1>1, DetectStep, AnswerStep DEF Next

LEMMA DetectInvCorrect == Spec => []DetectInv
  BY DetectInitInv, DetectInvStep, PTL DEF Spec

-----------------------------------------------------------------------------
(* What a caller may rely on.                                              *)

LEMMA ReturnedFacts ==
  ASSUME DetectInv, NEW t \in Thread, pc[t] = "returned"
  PROVE  AtReturned(t) /\ contacts[t] \in Seq(Outcome) /\ Len(contacts[t]) <= nb
BY DEF DetectInv, Phase, BaseTypeOK

(* Every variable keeps its type; in particular no detection asks more     *)
(* servers than there are (dacloud.c:326-368).                             *)
THEOREM DetectTypeCorrect == Spec => []DetectTypeOK
<1>1. DetectInit => alive \in BOOLEAN
  BY DEF DetectInit
<1>2. alive \in BOOLEAN /\ [Next]_vars => (alive \in BOOLEAN)'
  <2>1. [Next]_vars => alive' = alive \/ alive' = FALSE
    BY DEF Next, Answer, DetectNext, Detection, Begin, NoPool, CacheHit, CacheMiss,
       NoHandle,
       ServerFails, ServerHangs, ServerRefuses, ServerAnswers, Crash, ServersExhausted,
       Stored, NoCopy, ParseNothing, ParseObject, ParseStops, Free, vars, client
  <2> QED
    BY <2>1
<1>3. DetectInv /\ alive \in BOOLEAN => DetectTypeOK
  <2> SUFFICES ASSUME DetectInv, alive \in BOOLEAN
               PROVE  DetectTypeOK
    OBVIOUS
  <2>1. ASSUME NEW t \in Thread
        PROVE  contacts[t] \in UNION {[1 .. n -> Outcome] : n \in 0 .. nb}
    <3>1. contacts[t] \in Seq(Outcome) /\ Len(contacts[t]) \in 0 .. nb
      BY DetectAssumption DEF DetectInv, Phase, BaseTypeOK
    <3>2. contacts[t] \in [1 .. Len(contacts[t]) -> Outcome]
      BY <3>1
    <3> QED
      BY <3>1, <3>2
  <2>2. contacts = [t \in Thread |-> contacts[t]]
    BY DEF DetectInv, BaseTypeOK
  <2>3. contacts \in [Thread -> UNION {[1 .. n -> Outcome] : n \in 0 .. nb}]
    BY <2>1, <2>2, Zenon
  <2> QED
    BY <2>3 DEF DetectInv, BaseTypeOK, DetectTypeOK
<1> QED
  BY <1>1, <1>2, <1>3, DetectInvCorrect, PTL DEF Spec

(* Each text that reaches the cache answers a request with the key it is   *)
(* stored under and begins with a brace (dacloud.c:340-348).               *)
THEOREM CachedTextsMatchTheirKey == Spec => []CachedUnderItsKey
BY DetectInvCorrect, PTL DEF DetectInv

(* The properties a caller gets answer a request with its own key          *)
(* (dacloud.c:305-312, 373-430).                                           *)
THEOREM ServedItsKey == Spec => []ServedForKey
<1>1. DetectInv => ServedForKey
  <2> SUFFICES ASSUME DetectInv, NEW t \in Thread, served[t] # NoValue
               PROVE  keyOf[served[t].req] = keyOf[req[t]]
    BY DEF ServedForKey
  <2>1. pc[t] = "returned"
    BY DEF DetectInv, BaseTypeOK, Phase, AtIdle, AtGet, AtTry, AtSet, AtParse, Pending
  <2> QED
    BY <2>1, ReturnedFacts DEF AtReturned, OfTheKey
<1> QED
  BY <1>1, DetectInvCorrect, PTL

(* A detection that asks the servers may set exactly the key its get       *)
(* missed (dacloud.c:305, 348).                                            *)
THEOREM SetsWhatItMissed == Spec => []StoresWhatItMissed
<1>1. DetectInv => StoresWhatItMissed
  BY DEF DetectInv, Phase, AtTry, StoresWhatItMissed
<1> QED
  BY <1>1, DetectInvCorrect, PTL

(* cachesource tells the caller where the answer is from, and the return   *)
(* value whether there is one (dacloud.c:286, 307, 353).                   *)
THEOREM SourceIsTruthful == Spec => []SourceTruthful
<1>1. DetectInv => SourceTruthful
  <2> SUFFICES ASSUME DetectInv, NEW t \in Thread, Returned(t)
               PROVE  CASE source[t] = "cache" -> ret[t] = 0 /\ contacts[t] = <<>>
                        [] source[t] = "cloud" ->
                             /\ ret[t] = 0 /\ contacts[t] # <<>>
                             /\ contacts[t][Len(contacts[t])] = "braced"
                        [] OTHER -> ret[t] = -1
    BY DEF SourceTruthful
  <2>1. AtReturned(t) /\ source[t] \in {"unset", "none", "cache", "cloud"}
    BY ReturnedFacts DEF Returned, DetectInv, BaseTypeOK
  <2> QED
    BY <2>1 DEF AtReturned, Truthful, EndsWith
<1> QED
  BY <1>1, DetectInvCorrect, PTL

(* The servers are asked in order up to the first that answers, and given  *)
(* up for failed only when each has failed (dacloud.c:326-368).            *)
THEOREM FailoverIsComplete == Spec => []FailoverComplete
<1>1. DetectInv => FailoverComplete
  <2> SUFFICES ASSUME DetectInv, NEW t \in Thread, Returned(t), contacts[t] # <<>>
               PROVE  LET last == Len(contacts[t])
                      IN /\ \A n \in 1 .. last - 1 : contacts[t][n] = "failed"
                         /\ contacts[t][last] = "failed" => last = nb
    BY DEF FailoverComplete
  <2>1. AskedInOrder(t) /\ contacts[t] \in Seq(Outcome)
    BY ReturnedFacts DEF Returned, AtReturned
  <2> QED
    BY <2>1 DEF AskedInOrder, AllFailed, EndsWith
<1> QED
  BY <1>1, DetectInvCorrect, PTL

(* A detection that returns has freed all but the pool of its caller,      *)
(* unless its list was cut short (dacloud.c:340-372, 431-435).             *)
THEOREM NothingIsLeaked == Spec => []NothingLeaks
<1>1. DetectInv => NothingLeaks
  BY ReturnedFacts DEF NothingLeaks, Returned, AtReturned
<1> QED
  BY <1>1, DetectInvCorrect, PTL

-----------------------------------------------------------------------------
(* Detection as a client of the cache.                                     *)

(* Of the interface a detection uses nothing but calls and their returns.  *)
LEMMA DetectionCalls ==
  ASSUME DetectInv, NEW t \in Thread, DetectNext(t)
  PROVE  (\E c \in Calls : Invoke(t, c)) \/ Collect(t) \/ UNCHANGED interface
<1>1. ASSUME NEW r \in Request, Begin(t, r)
      PROVE  \E c \in Calls : Invoke(t, c)
  BY <1>1, CallFacts, DetectAssumption DEF Begin
<1>2. ASSUME ServerAnswers(t)
      PROVE  \E c \in Calls : Invoke(t, c)
  <2>1. PICK v \in Value : v.req = req[t] /\ Invoke(t, SetCall(keyOf[req[t]], v))
    BY <1>2 DEF ServerAnswers
  <2>2. SetCall(keyOf[req[t]], v) \in Calls
    BY <2>1, CallFacts, DetectAssumption
  <2> QED
    BY <2>1, <2>2
<1>3. ASSUME CacheHit(t) \/ CacheMiss(t) \/ NoHandle(t) \/ Stored(t) \/ NoCopy(t)
      PROVE  Collect(t)
  BY <1>3 DEF CacheHit, CacheMiss, NoHandle, Stored, NoCopy
<1>4. ASSUME \/ \E r \in Request : NoPool(t, r)
             \/ ServerFails(t) \/ ServerHangs(t) \/ ServerRefuses(t)
             \/ Crash(t) \/ ServersExhausted(t) \/ ParseNothing(t)
             \/ ParseObject(t) \/ ParseStops(t) \/ Free(t)
      PROVE  UNCHANGED interface
  BY <1>4 DEF NoPool, ServerFails, ServerHangs, ServerRefuses, Crash, ServersExhausted,
     ParseNothing, ParseObject, ParseStops, Free
<1> QED
  BY <1>1, <1>2, <1>3, <1>4 DEF DetectNext, Detection

(* Together with a cache that keeps its contract, detection keeps the      *)
(* contract too: it makes one call at a time in each thread, and sets only *)
(* the key its last get missed (dacloud.c:305, 348).                       *)
THEOREM DetectionUsesCache == Spec => Cache!Spec
<1>1. DetectInit => Cache!InterfaceInit
  BY DEF DetectInit, InterfaceInit, Cache!InterfaceInit, Cache!NoCall, NoCall
<1>2. DetectInv /\ [Next]_vars => [Cache!Next]_(Cache!interface)
  <2> SUFFICES ASSUME DetectInv, [Next]_vars
               PROVE  Cache!Next \/ UNCHANGED Cache!interface
    OBVIOUS
  <2>1. ASSUME NEW t \in Thread, NEW c \in Calls, Invoke(t, c)
        PROVE  Cache!Next
    <3>1. c \in Cache!Calls
      BY DEF Calls, GetCall, SetCall, Cache!Calls, Cache!GetCall, Cache!SetCall
    <3>2. Cache!Invoke(t, c)
      BY <2>1 DEF Invoke, Cache!Invoke
    <3> QED
      BY <3>1, <3>2 DEF Cache!Next, Cache!ClientNext
  <2>2. ASSUME NEW t \in Thread, Collect(t)
        PROVE  Cache!Next
    <3>1. Cache!Collect(t)
      BY <2>2 DEF Collect, Missed, NoCall, Cache!Collect, Cache!Missed, Cache!NoCall
    <3> QED
      BY <3>1 DEF Cache!Next, Cache!ClientNext
  <2>3. ASSUME NEW t \in Thread, DetectNext(t)
        PROVE  Cache!Next \/ UNCHANGED Cache!interface
    BY <2>1, <2>2, <2>3, DetectionCalls DEF interface, Cache!interface
  <2>4. ASSUME NEW t \in Thread, Answer(t)
        PROVE  Cache!Next
    BY <2>4 DEF Answer, Cache!Next
  <2>5. CASE UNCHANGED vars
    BY <2>5 DEF vars, interface, Cache!interface
  <2> QED
    BY <2>3, <2>4, <2>5 DEF Next
<1> QED
  BY <1>1, <1>2, DetectInvCorrect, PTL DEF Spec, Cache!Spec

-----------------------------------------------------------------------------
(* Detection over the GLib memory cache, whose steps DetectGlib takes from *)
(* MemoryCacheGlib.  That a value came from a set of the same key is an    *)
(* invariant of the provider, and the calls it answers are as they should  *)
(* be by the invariant of the detection: each step needs both.             *)
ProviderInv ==
  /\ at \in [Thread -> {"out", "crit", "unlock"}]
  /\ table \in [Key -> Value \cup {NoValue}]
  /\ value \in [Thread -> Value \cup {NoValue}]
  /\ \A k \in Key : table[k] # NoValue => <<k, table[k]>> \in offered
  /\ \A t \in Thread :
       /\ at[t] # "out" => stage[t] = "busy"
       /\ stage[t] = "busy" /\ call[t].op = "set"
            => <<call[t].key, call[t].val>> \in offered
       /\ value[t] # NoValue
            => /\ at[t] = "unlock" /\ call[t].op = "get"
               /\ <<call[t].key, value[t]>> \in offered

TableUnmoved == UNCHANGED <<at, owner, table, value>>

(* The composition takes the steps of the detection as they are.           *)
LEMMA SameDetection ==
  ASSUME NEW t \in Thread
  PROVE  /\ App!Detection(t) => Detection(t)
         /\ App!Free(t) => Free(t)
<1>1. App!Detection(t) => Detection(t)
  BY DEF App!Detection, App!CacheHit, App!CacheMiss, App!NoHandle, App!ServerFails,
     App!ServerHangs, App!ServerRefuses, App!ServerAnswers, App!Crash,
     App!ServersExhausted, App!Stored, App!NoCopy, App!ParseNothing, App!ParseObject,
     App!ParseStops, App!Collect, App!Missed, App!NoCall, App!Invoke, App!SetCall,
     App!Goto, App!Acquire, App!Release, App!Transfer, App!Trying, App!Contact,
     App!Braced, App!EmptyAnswer, App!NoReader, App!Parses, App!local, App!interface,
     Detection, CacheHit, CacheMiss, NoHandle, ServerFails, ServerHangs, ServerRefuses,
     ServerAnswers, Crash, ServersExhausted, Stored, NoCopy, ParseNothing, ParseObject,
     ParseStops, Collect, Missed, NoCall, Invoke, SetCall, Goto, Acquire, Release,
     Transfer, Trying, Contact, Braced, EmptyAnswer, NoReader, Parses, local, interface
<1>2. App!Free(t) => Free(t)
  BY DEF App!Free, App!interface, Free, interface
<1> QED
  BY <1>1, <1>2

LEMMA SameBeginning ==
  ASSUME NEW t \in Thread, NEW r \in Request
  PROVE  (App!Begin(t, r) => Begin(t, r)) /\ (App!NoPool(t, r) => NoPool(t, r))
  BY DEF App!Begin, App!NoPool, App!Acquire, App!Goto, App!Invoke, App!GetCall,
     App!interface, Begin, NoPool, Acquire, Goto, Invoke, GetCall, interface

(* A step of a thread of the composition.                                  *)
LEMMA AppSteps ==
  ASSUME NEW t \in Thread, App!Start(t) \/ App!Continue(t)
  PROVE  \/ DetectNext(t) /\ TableUnmoved
         \/ alive /\ App!Glib!Provider(t) /\ UNCHANGED client
<1>1. CASE App!Start(t)
  <2>1. PICK r \in Request : App!Begin(t, r) \/ App!NoPool(t, r)
    BY <1>1 DEF App!Start
  <2>2. Begin(t, r) \/ NoPool(t, r)
    BY <2>1, SameBeginning
  <2>3. alive /\ TableUnmoved
    BY <1>1 DEF App!Start, App!internal, TableUnmoved
  <2> QED
    BY <2>2, <2>3 DEF DetectNext
<1>2. CASE App!Continue(t)
  BY <1>2, SameDetection DEF App!Continue, App!internal, App!client, App!local,
     DetectNext, TableUnmoved, client, local
<1> QED
  BY <1>1, <1>2

(* A call or its return touches no thread inside the provider.             *)
LEMMA ProviderUnmoved ==
  ASSUME DetectInv, ProviderInv, NEW t \in Thread, DetectNext(t), TableUnmoved
  PROVE  ProviderInv'
<1> USE DEF ProviderInv, TableUnmoved
<1>1. InterfaceTypeOK
  BY DEF DetectInv, BaseTypeOK
<1>2. ASSUME NEW c \in Calls, Invoke(t, c)
      PROVE  ProviderInv'
  <2>1. offered \subseteq offered' /\ (c.op = "set" => <<c.key, c.val>> \in offered')
    BY <1>2 DEF Invoke
  <2>2. at[t] = "out" /\ value[t] = NoValue
    BY <1>2 DEF Invoke
  <2> QED
    BY <1>1, <1>2, <2>1, <2>2 DEF Invoke, InterfaceTypeOK
<1>3. CASE Collect(t)
  <2>1. at[t] = "out" /\ value[t] = NoValue
    BY <1>3 DEF Collect
  <2> QED
    BY <1>1, <1>3, <2>1 DEF Collect, InterfaceTypeOK
<1>4. CASE UNCHANGED interface
  BY <1>4 DEF interface
<1> QED
  BY <1>2, <1>3, <1>4, DetectionCalls

(* The provider keeps its invariant, and completes a call as CacheSpec     *)
(* says or leaves the interface alone.                                     *)
LEMMA ProviderStep ==
  ASSUME DetectInv, ProviderInv, NEW t \in Thread, App!Glib!Provider(t)
  PROVE  ProviderInv' /\ (Cache!Complete(t) \/ UNCHANGED interface)
<1> USE DEF ProviderInv, App!Glib!InSection, App!Glib!ToUnlock, App!Glib!EmptyTable,
            App!Glib!Stored
<1>1. InterfaceTypeOK
  BY DEF DetectInv, BaseTypeOK
<1>2. CASE App!Glib!Lock(t)
  BY <1>2 DEF App!Glib!Lock, App!Glib!interface, interface
<1>3. CASE App!Glib!GetFull(t)
  BY <1>3 DEF App!Glib!GetFull, App!Glib!interface, interface
<1>4. CASE App!Glib!GetLookup(t)
  <2>1. PICK v \in {table[call[t].key], NoValue} : value' = [value EXCEPT ![t] = v]
    BY <1>4 DEF App!Glib!GetLookup
  <2>2. call[t].key \in Key
    BY <1>1, <1>4, CallFacts DEF App!Glib!GetLookup, InterfaceTypeOK
  <2>3. v # NoValue => <<call[t].key, v>> \in offered
    BY <2>1, <2>2
  <2>4. v \in Value \cup {NoValue}
    BY <2>1, <2>2
  <2> QED
    BY <1>4, <2>1, <2>3, <2>4 DEF App!Glib!GetLookup, App!Glib!interface, interface
<1>5. CASE App!Glib!SetInsert(t)
  <2>1. <<call[t].key, call[t].val>> \in offered
    BY <1>5 DEF App!Glib!SetInsert
  <2>2. call[t].key \in Key /\ call[t].val \in Value
    BY <1>1, <2>1 DEF InterfaceTypeOK
  <2>3. /\ table' \in [Key -> Value \cup {NoValue}]
        /\ \A k \in Key : table'[k] = table[k] \/ (k = call[t].key /\ table'[k] = call[t].val)
    BY <1>5, <2>2 DEF App!Glib!SetInsert
  <2> QED
    BY <1>5, <2>1, <2>3 DEF App!Glib!SetInsert, App!Glib!interface, interface
<1>6. CASE App!Glib!Unlock(t)
  <2>1. value[t] \in Cache!Answers(call[t])
    BY DEF Cache!Answers
  <2>2. stage[t] = "busy"
    BY <1>6 DEF App!Glib!Unlock
  <2>3. Cache!Complete(t)
    BY <1>6, <2>1, <2>2 DEF App!Glib!Unlock, Cache!Complete
  <2>4. ProviderInv'
    BY <1>1, <1>6 DEF App!Glib!Unlock, InterfaceTypeOK
  <2> QED
    BY <2>3, <2>4
<1> QED
  BY <1>2, <1>3, <1>4, <1>5, <1>6 DEF App!Glib!Provider

LEMMA AppInit == App!Init => DetectInit /\ ProviderInv
<1> SUFFICES ASSUME App!Init
             PROVE  DetectInit /\ ProviderInv
  OBVIOUS
<1>1. DetectInit
  BY DEF App!Init, App!DetectInit, App!InterfaceInit, App!NoCall, DetectInit,
     InterfaceInit, NoCall
<1>2. ProviderInv
  BY <1>1 DEF App!Init, App!Glib!Init, App!Glib!EmptyTable, DetectInit, InterfaceInit,
     NoCall, ProviderInv
<1> QED
  BY <1>1, <1>2

LEMMA AppStep ==
  ASSUME DetectInv, ProviderInv, [App!Next]_(App!vars)
  PROVE  [Next]_vars /\ ProviderInv'
<1>1. ASSUME NEW t \in Thread, DetectNext(t), TableUnmoved
      PROVE  [Next]_vars /\ ProviderInv'
  BY <1>1, ProviderUnmoved DEF Next
<1>2. ASSUME NEW t \in Thread, alive, App!Glib!Provider(t), UNCHANGED client
      PROVE  [Next]_vars /\ ProviderInv'
  <2>1. ProviderInv' /\ (Cache!Complete(t) \/ UNCHANGED interface)
    BY <1>2, ProviderStep
  <2>2. Cache!Complete(t) => Answer(t)
    BY <1>2 DEF Answer
  <2> QED
    BY <1>2, <2>1, <2>2 DEF Next, vars
<1>3. CASE UNCHANGED App!vars
  BY <1>3 DEF App!vars, App!interface, App!client, App!local, App!internal, vars,
     interface, client, local, ProviderInv
<1> QED
  BY <1>1, <1>2, <1>3, AppSteps DEF App!Next

(* da_cloud_detect over the GLib memory cache is da_cloud_detect over a    *)
(* cache that keeps its contract, whatever MTX_UNLOCK does, however        *)
(* mutexes are shared and whatever the threshold is (dacloud.c:271-436,    *)
(* memory_cache_provider.c:54-112).  What is shown of the one holds of the *)
(* other.                                                                  *)
THEOREM DetectionOverGlib == App!Spec => Spec
<1>1. App!Init => DetectInit /\ DetectInv /\ ProviderInv
  BY AppInit, DetectInitInv
<1>2. DetectInv /\ ProviderInv /\ [App!Next]_(App!vars)
        => [Next]_vars /\ DetectInv' /\ ProviderInv'
  BY AppStep, DetectInvStep
<1> QED
  BY <1>1, <1>2, PTL DEF App!Spec, Spec

(* So over the GLib cache too a request is served only what was stored for *)
(* its key, the result says where it came from, the servers are tried in   *)
(* order until one answers, and every detection frees what it took.        *)
THEOREM GlibDetectionsAreCorrect ==
  App!Spec => [](ServedForKey /\ SourceTruthful /\ FailoverComplete /\ NothingLeaks)
BY DetectionOverGlib, ServedItsKey, SourceIsTruthful, FailoverIsComplete,
   NothingIsLeaked, PTL

(* And the GLib cache is used as MemoryCacheGlib assumes: its client there *)
(* may call in every way da_cloud_detect does, so what is shown of it      *)
(* there, the exclusion in the hash table and the bound on its size, holds *)
(* under da_cloud_detect (dacloud.c:305, 348).                             *)
THEOREM GlibServesDetection == App!Spec => App!Glib!Spec
<1>1. App!Init => App!Glib!Init
  BY DEF App!Init
<1>2. DetectInv /\ [App!Next]_(App!vars) => [App!Glib!Next]_(App!Glib!vars)
  <2> SUFFICES ASSUME DetectInv, [App!Next]_(App!vars)
               PROVE  App!Glib!Next \/ UNCHANGED App!Glib!vars
    OBVIOUS
  <2>1. ASSUME NEW t \in Thread, DetectNext(t), TableUnmoved
        PROVE  App!Glib!Next \/ UNCHANGED App!Glib!vars
    <3>1. CASE \E c \in Calls : Invoke(t, c)
      <4>1. PICK c \in Calls : Invoke(t, c)
        BY <3>1
      <4>2. c \in App!Glib!Calls /\ App!Glib!Invoke(t, c)
        BY <4>1 DEF Calls, GetCall, SetCall, App!Glib!Calls, App!Glib!GetCall,
           App!Glib!SetCall, Invoke, App!Glib!Invoke
      <4>3. App!Glib!Client(t)
        BY <2>1, <4>2 DEF App!Glib!Client, App!Glib!ClientNext, App!Glib!internal,
           TableUnmoved
      <4> QED
        BY <4>3 DEF App!Glib!Next
    <3>2. CASE Collect(t)
      <4>1. App!Glib!Collect(t)
        BY <3>2 DEF Collect, Missed, NoCall, App!Glib!Collect, App!Glib!Missed,
           App!Glib!NoCall
      <4>2. App!Glib!Client(t)
        BY <2>1, <4>1 DEF App!Glib!Client, App!Glib!ClientNext, App!Glib!internal,
           TableUnmoved
      <4> QED
        BY <4>2 DEF App!Glib!Next
    <3>3. CASE UNCHANGED interface
      BY <2>1, <3>3 DEF TableUnmoved, interface, App!Glib!vars, App!Glib!interface,
         App!Glib!internal
    <3> QED
      BY <2>1, <3>1, <3>2, <3>3, DetectionCalls
  <2>2. ASSUME NEW t \in Thread, App!Glib!Provider(t)
        PROVE  App!Glib!Next
    BY <2>2 DEF App!Glib!Next
  <2>3. CASE UNCHANGED App!vars
    BY <2>3 DEF App!vars, App!interface, App!internal, App!Glib!vars,
       App!Glib!interface, App!Glib!internal
  <2> QED
    BY <2>1, <2>2, <2>3, AppSteps DEF App!Next
<1> QED
  BY <1>1, <1>2, DetectionOverGlib, DetectInvCorrect, PTL DEF App!Spec, App!Glib!Spec
=============================================================================
