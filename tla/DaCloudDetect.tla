--------------------------- MODULE DaCloudDetect ---------------------------
(***************************************************************************)
(* da_cloud_detect (dacloud.c:271-436), called by several threads that     *)
(* share one cache, and the caller that frees the result.                  *)
(*                                                                         *)
(* A detection asks the cache; on a miss it asks the servers in their      *)
(* order until one answers, hands the answer to the cache, and makes a     *)
(* list of properties of it.  The cache is left open: this module steps    *)
(* into a call (Invoke) and out of it (Collect), a provider completes it.  *)
(*                                                                         *)
(* A body, the text a server answers with, is [req, kind]: the request it  *)
(* answers, and what the text looks like to the code:                      *)
(*   "properties"  an object with the member properties                    *)
(*   "bare"        an object without it, an error report for instance      *)
(*   "broken"      begins like an object but does not parse                *)
(*   "other"       begins with anything but an opening brace               *)
(* An answer with no body at all is the action EmptyAnswer.                *)
(***************************************************************************)
EXTENDS CacheInterface, Sequences

CONSTANTS
  Request,      \* what the headers of a detection say
  keyOf,        \* keyOf[r]: the cache key da_cloud_header_add derives from them
  NoRequest,
  nb,           \* config->shead->nb, the number of servers
  Kinds,        \* the kinds of bodies servers answer with
  Faults,       \* the allocations that may fail
  MaxDetects    \* bound of the model: detections of each thread

ASSUME DetectAssumption ==
  /\ keyOf \in [Request -> Key]
  /\ NoRequest \notin Request
  /\ nb \in Nat \ {0}
  /\ Kinds \subseteq {"properties", "bare", "broken", "other"}
  /\ Faults \subseteq {"pool", "curl", "reader", "append", "copy", "property"}
  /\ Value = [req : Request, kind : Kinds]
  /\ MaxDetects \in Nat

VARIABLES
  pc,         \* pc[t]: where thread t is
  req,        \* req[t]: the request being detected
  i,          \* i[t]: the server to ask next
  cacheval,   \* cacheval[t]: the body, in the reader's buffer and then in cacheval
  source,     \* source[t]: phead->cachesource
  ret,        \* ret[t]: _ret
  props,      \* props[t]: phead->list, "unset" before it is initialised
  held,       \* held[t]: what the detection has allocated and not freed
  contacts,   \* contacts[t]: what each server asked so far has answered
  served,     \* served[t]: the body the properties came from
  alive,      \* the process has not crashed
  detects     \* detects[t]: the detections started so far

local == <<pc, req, i, cacheval, source, ret, props, held, contacts, served>>
client == <<local, alive, detects>>

Outcome == {"failed", "other", "braced"}
Resource == {"pool", "curl", "reader", "cacheval", "response"}

DetectTypeOK ==
  /\ InterfaceTypeOK
  /\ pc \in [Thread -> {"idle", "get", "try", "set", "parse", "hung", "returned"}]
  /\ req \in [Thread -> Request \cup {NoRequest}]
  /\ i \in [Thread -> 1 .. nb + 1]
  /\ cacheval \in [Thread -> Value \cup {NoValue}]
  /\ source \in [Thread -> {"unset", "none", "cache", "cloud"}]
  /\ ret \in [Thread -> {-1, 0}]
  /\ props \in [Thread -> {"unset", "empty", "partial", "full"}]
  /\ held \in [Thread -> SUBSET Resource]
  /\ contacts \in [Thread -> UNION {[1 .. n -> Outcome] : n \in 0 .. nb}]
  /\ served \in [Thread -> Value \cup {NoValue}]
  /\ alive \in BOOLEAN
  /\ detects \in [Thread -> 0 .. MaxDetects]

DetectInit ==
  /\ InterfaceInit
  /\ pc = [t \in Thread |-> "idle"]
  /\ req = [t \in Thread |-> NoRequest]
  /\ i = [t \in Thread |-> 1]
  /\ cacheval = [t \in Thread |-> NoValue]
  /\ source = [t \in Thread |-> "unset"]
  /\ ret = [t \in Thread |-> -1]
  /\ props = [t \in Thread |-> "unset"]
  /\ held = [t \in Thread |-> {}]
  /\ contacts = [t \in Thread |-> <<>>]
  /\ served = [t \in Thread |-> NoValue]
  /\ alive = TRUE
  /\ detects = [t \in Thread |-> 0]

-----------------------------------------------------------------------------
Goto(t, l) == pc' = [pc EXCEPT ![t] = l]
Acquire(t, R) == held' = [held EXCEPT ![t] = @ \cup R]
Release(t, R) == held' = [held EXCEPT ![t] = @ \ R]

(* What every exit after a transfer frees: the header list and handle of   *)
(* curl, one resource here, and the reader.                                *)
HandleOnly == {"curl"}                                         \* a mutant
Transfer == {"curl", "reader"}

BeginOtherKey(t, r) ==                                         \* a mutant
  /\ pc[t] = "idle" /\ detects[t] < MaxDetects
  /\ detects' = [detects EXCEPT ![t] = @ + 1]
  /\ req' = [req EXCEPT ![t] = r]
  /\ ret' = [ret EXCEPT ![t] = -1]
  /\ source' = [source EXCEPT ![t] = "none"]
  /\ props' = [props EXCEPT ![t] = "empty"]
  /\ Acquire(t, {"pool"})
  /\ Goto(t, "get")
  /\ \E k \in Key : Invoke(t, GetCall(k))
  /\ UNCHANGED <<i, cacheval, contacts, served, alive>>

(* The call up to cops.get: a pool for the properties, and the defaults.   *)
Begin(t, r) ==
  /\ pc[t] = "idle" /\ detects[t] < MaxDetects
  /\ detects' = [detects EXCEPT ![t] = @ + 1]
  /\ req' = [req EXCEPT ![t] = r]
  /\ ret' = [ret EXCEPT ![t] = -1]
  /\ source' = [source EXCEPT ![t] = "none"]
  /\ props' = [props EXCEPT ![t] = "empty"]
  /\ Acquire(t, {"pool"})
  /\ Goto(t, "get")
  /\ Invoke(t, GetCall(keyOf[r]))
  /\ UNCHANGED <<i, cacheval, contacts, served, alive>>

(* No pool: the caller's structure is left as it was (lines 291-294).      *)
NoPool(t, r) ==
  /\ "pool" \in Faults
  /\ pc[t] = "idle" /\ detects[t] < MaxDetects
  /\ detects' = [detects EXCEPT ![t] = @ + 1]
  /\ req' = [req EXCEPT ![t] = r]
  /\ ret' = [ret EXCEPT ![t] = -1]
  /\ Goto(t, "returned")
  /\ UNCHANGED <<i, cacheval, source, props, held, contacts, served, alive, interface>>

(* cops.get has left a value: it is parsed like a fresh answer.            *)
CacheHit(t) ==
  /\ pc[t] = "get" /\ ans[t] # NoValue
  /\ Collect(t)
  /\ cacheval' = [cacheval EXCEPT ![t] = ans[t]]
  /\ Acquire(t, {"cacheval"})
  /\ source' = [source EXCEPT ![t] = "cache"]
  /\ ret' = [ret EXCEPT ![t] = 0]
  /\ Goto(t, "parse")
  /\ UNCHANGED <<req, i, props, contacts, served, alive, detects>>

(* It has not: a curl handle and the headers to send.                      *)
CacheMiss(t) ==
  /\ pc[t] = "get" /\ ans[t] = NoValue
  /\ Collect(t)
  /\ i' = [i EXCEPT ![t] = 1]
  /\ Acquire(t, {"curl"})
  /\ Goto(t, "try")
  /\ UNCHANGED <<req, cacheval, source, ret, props, contacts, served, alive, detects>>

NoHandle(t) ==
  /\ "curl" \in Faults
  /\ pc[t] = "get" /\ ans[t] = NoValue
  /\ Collect(t)
  /\ Goto(t, "returned")
  /\ UNCHANGED <<req, i, cacheval, source, ret, props, held, contacts, served, alive, detects>>
-----------------------------------------------------------------------------
(* The loop over the servers, lines 326-368.                               *)

TryingPastEnd(t) == pc[t] = "try" /\ i[t] <= nb + 1            \* a mutant
Trying(t) == pc[t] = "try" /\ i[t] <= nb
Contact(t, o) == contacts' = [contacts EXCEPT ![t] = Append(@, o)]

(* The transfer fails: the next server is tried.                           *)
ServerFails(t) ==
  /\ Trying(t)
  /\ Contact(t, "failed")
  /\ i' = [i EXCEPT ![t] = @ + 1]
  /\ UNCHANGED <<pc, req, cacheval, source, ret, props, held, served, alive, detects, interface>>

(* The transfer has no time limit: the server need never answer.           *)
ServerHangs(t) ==
  /\ Trying(t)
  /\ Goto(t, "hung")
  /\ UNCHANGED <<req, i, cacheval, source, ret, props, held, contacts, served, alive, detects, interface>>

(* A text that does not begin with a brace ends the detection: no other    *)
(* server is asked and nothing goes to the cache (lines 340-346).          *)
AnyText(v) == TRUE                                             \* a mutant
Braced(v) == v.kind # "other"

ServerRefuses(t) ==
  /\ Trying(t)
  /\ \E v \in Value : v.req = req[t] /\ ~Braced(v)
  /\ Contact(t, "other")
  /\ Release(t, Transfer)
  /\ Goto(t, "returned")
  /\ UNCHANGED <<req, i, cacheval, source, ret, props, served, alive, detects, interface>>

(* Any other text, be it an error report or one that will not parse, goes  *)
(* to the cache under the key of the request: its status is not looked at. *)
ServerAnswers(t) ==
  /\ Trying(t)
  /\ \E v \in Value :
       /\ v.req = req[t] /\ Braced(v)
       /\ cacheval' = [cacheval EXCEPT ![t] = v]
       /\ Invoke(t, SetCall(keyOf[req[t]], v))
  /\ Contact(t, "braced")
  /\ Acquire(t, {"reader"})
  /\ Goto(t, "set")
  /\ UNCHANGED <<req, i, source, ret, props, served, alive, detects>>

(* An answer without a body leaves dr->buf NULL, which line 339 writes     *)
(* through; so does a reader that could not be allocated (line 328).  When *)
(* the buffer cannot grow, realloc frees it and data_reader_free does so   *)
(* again (dacloud_mem.c:19-23).                                            *)
EmptyAnswer(t) == Trying(t)
NoReader(t) == Trying(t) /\ Faults \cap {"reader", "append"} # {}

Crash(t) ==
  /\ EmptyAnswer(t) \/ NoReader(t)
  /\ alive' = FALSE
  /\ UNCHANGED <<local, detects, interface>>

GivesUpEarly(t) ==                                             \* a mutant
  /\ pc[t] = "try" /\ i[t] >= nb
  /\ Release(t, Transfer)
  /\ Goto(t, "parse")
  /\ UNCHANGED <<req, i, cacheval, source, ret, props, contacts, served, alive, detects, interface>>

(* All servers have failed.                                                *)
ServersExhausted(t) ==
  /\ pc[t] = "try" /\ i[t] > nb
  /\ Release(t, Transfer)
  /\ Goto(t, "parse")
  /\ UNCHANGED <<req, i, cacheval, source, ret, props, contacts, served, alive, detects, interface>>

(* cops.set is over, whatever came of it; the answer is copied.            *)
Stored(t) ==
  /\ pc[t] = "set"
  /\ Collect(t)
  /\ held' = [held EXCEPT ![t] = (@ \ Transfer) \cup {"cacheval"}]
  /\ source' = [source EXCEPT ![t] = "cloud"]
  /\ ret' = [ret EXCEPT ![t] = 0]
  /\ Goto(t, "parse")
  /\ UNCHANGED <<req, i, cacheval, props, contacts, served, alive, detects>>

NoCopyUnnoticed(t) ==                                          \* a mutant
  /\ "copy" \in Faults
  /\ pc[t] = "set"
  /\ Collect(t)
  /\ cacheval' = [cacheval EXCEPT ![t] = NoValue]
  /\ Release(t, Transfer)
  /\ source' = [source EXCEPT ![t] = "cloud"]
  /\ Goto(t, "returned")
  /\ UNCHANGED <<req, i, ret, props, contacts, served, alive, detects>>

NoCopy(t) ==
  /\ "copy" \in Faults
  /\ pc[t] = "set"
  /\ Collect(t)
  /\ cacheval' = [cacheval EXCEPT ![t] = NoValue]
  /\ Release(t, Transfer)
  /\ Goto(t, "returned")
  /\ UNCHANGED <<req, i, source, ret, props, contacts, served, alive, detects>>
-----------------------------------------------------------------------------
(* The labels jsoninit, fcache and end, lines 373-435.                     *)

(* Nothing to parse, or a text that does not parse: the list stays empty   *)
(* and _ret as it is.                                                      *)
Parses(v) == v # NoValue /\ v.kind \in {"properties", "bare"}

ParseNothing(t) ==
  /\ pc[t] = "parse" /\ ~Parses(cacheval[t])
  /\ cacheval' = [cacheval EXCEPT ![t] = NoValue]
  /\ Release(t, {"cacheval"})
  /\ Goto(t, "returned")
  /\ UNCHANGED <<req, i, source, ret, props, contacts, served, alive, detects, interface>>

(* An object: its properties become the list, and the document and the     *)
(* text are freed.                                                         *)
ParseObject(t) ==
  /\ pc[t] = "parse" /\ Parses(cacheval[t])
  /\ props' = [props EXCEPT ![t] =
                 IF cacheval[t].kind = "properties" THEN "full" ELSE "empty"]
  /\ served' = [served EXCEPT ![t] = cacheval[t]]
  /\ cacheval' = [cacheval EXCEPT ![t] = NoValue]
  /\ Release(t, {"cacheval", "response"})
  /\ Goto(t, "returned")
  /\ UNCHANGED <<req, i, source, ret, contacts, alive, detects, interface>>

(* A property that finds no room ends the detection at once: neither the   *)
(* document nor the text is freed, and _ret is still 0.                    *)
ParseStops(t) ==
  /\ "property" \in Faults
  /\ pc[t] = "parse" /\ Parses(cacheval[t]) /\ cacheval[t].kind = "properties"
  /\ props' = [props EXCEPT ![t] = "partial"]
  /\ served' = [served EXCEPT ![t] = cacheval[t]]
  /\ cacheval' = [cacheval EXCEPT ![t] = NoValue]
  /\ Acquire(t, {"response"})
  /\ Goto(t, "returned")
  /\ UNCHANGED <<req, i, source, ret, contacts, alive, detects, interface>>

(* The caller has read the result and frees it (da_cloud_properties_free). *)
(* What the detection itself did not free is lost.                         *)
Free(t) ==
  /\ pc[t] = "returned"
  /\ pc' = [pc EXCEPT ![t] = "idle"]
  /\ req' = [req EXCEPT ![t] = NoRequest]
  /\ i' = [i EXCEPT ![t] = 1]
  /\ source' = [source EXCEPT ![t] = "unset"]
  /\ ret' = [ret EXCEPT ![t] = -1]
  /\ props' = [props EXCEPT ![t] = "unset"]
  /\ held' = [held EXCEPT ![t] = {}]
  /\ contacts' = [contacts EXCEPT ![t] = <<>>]
  /\ served' = [served EXCEPT ![t] = NoValue]
  /\ UNCHANGED <<cacheval, alive, detects, interface>>

Detection(t) ==
  \/ CacheHit(t) \/ CacheMiss(t) \/ NoHandle(t)
  \/ ServerFails(t) \/ ServerHangs(t) \/ ServerRefuses(t) \/ ServerAnswers(t)
  \/ Crash(t) \/ ServersExhausted(t) \/ Stored(t) \/ NoCopy(t)
  \/ ParseNothing(t) \/ ParseObject(t) \/ ParseStops(t)

DetectNext(t) ==
  /\ alive
  /\ (\E r \in Request : Begin(t, r) \/ NoPool(t, r)) \/ Detection(t) \/ Free(t)
-----------------------------------------------------------------------------
Returned(t) == pc[t] = "returned"

(* Each text that reaches the cache answers a request with the key it is   *)
(* stored under, and begins with a brace (lines 340-348).  It need hold no *)
(* properties: an error report in JSON and a text cut short are cached.    *)
CachedUnderItsKey ==
  \A entry \in offered : entry[2].kind # "other" /\ keyOf[entry[2].req] = entry[1]

(* The properties a caller gets, fresh or from the cache, come from an     *)
(* answer to a request with the key of its own request.                    *)
ServedForKey ==
  \A t \in Thread : served[t] # NoValue => keyOf[served[t].req] = keyOf[req[t]]

(* A detection that asks the servers is the one whose get missed, and may  *)
(* set exactly that key (lines 305 and 348).                               *)
StoresWhatItMissed ==
  \A t \in Thread :
    pc[t] = "try" => stage[t] = "idle" /\ missed[t] = keyOf[req[t]]

(* cachesource tells where the answer is from: "cache" when no server was  *)
(* asked, "cloud" when the last one asked sent it, and otherwise the       *)
(* detection has failed.                                                   *)
SourceTruthful ==
  \A t \in Thread : Returned(t) =>
    CASE source[t] = "cache" -> ret[t] = 0 /\ contacts[t] = <<>>
      [] source[t] = "cloud" -> /\ ret[t] = 0 /\ contacts[t] # <<>>
                                /\ contacts[t][Len(contacts[t])] = "braced"
      [] OTHER -> ret[t] = -1

(* The servers are asked in order up to the first that answers, and a      *)
(* detection gives them up for failed only when each has failed.           *)
FailoverComplete ==
  \A t \in Thread : Returned(t) /\ contacts[t] # <<>> =>
    LET last == Len(contacts[t])
    IN /\ \A n \in 1 .. last - 1 : contacts[t][n] = "failed"
       /\ contacts[t][last] = "failed" => last = nb

(* Whichever way a detection ends, it has freed what it allocated, but for *)
(* the pool the caller frees.  The way out of a list cut short by a failed *)
(* allocation (lines 385-417) is the exception: it leaks.                  *)
NothingLeaks ==
  \A t \in Thread :
    Returned(t) /\ props[t] # "partial" => held[t] \subseteq {"pool"}
=============================================================================
