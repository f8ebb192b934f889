---------------------------- MODULE MemcachedCache ----------------------------
(***************************************************************************)
(* The cache that asks memcached (memcached_cache_provider.c): a thread    *)
(* takes a client from a pool, asks the server, and puts the client back.  *)
(*                                                                         *)
(* The pool is libmemcached's and the server memcached: external, modelled *)
(* by what the provider relies on.  A pop with the flag to wait hands out  *)
(* an idle client, makes one while there are fewer than the pool may have, *)
(* or waits; a push of NULL does nothing.  The server may fail, and forget *)
(* a value whenever it likes, expired or not.                              *)
(***************************************************************************)
EXTENDS CacheInterface

CONSTANTS
  Client,     \* bound of the model: clients there may be in all
  NoClient,   \* NULL
  Cores,      \* processors sysconf may find; -1 when it fails
  WORD,       \* numbers an uint32_t can be: 2^32; a model takes fewer
  McFaults    \* what may fail: "alloc" (a client), "server" (a request)

ASSUME MemcachedAssumption ==
  /\ NoClient \notin Client /\ IsFiniteSet(Client)
  /\ WORD \in Nat \ {0}
  /\ Cores \subseteq Nat \cup {-1}
  /\ McFaults \subseteq {"alloc", "server"}

VARIABLES
  size,      \* the clients the pool may have; 0 where cfg->cache_obj is NULL
  idle,      \* clients in the pool
  made,      \* clients ever made
  held,      \* held[t]: the local variable client
  turn,      \* turn[t]: "pop", "ask" or "push"
  got,       \* got[t]: what memcached_get has answered
  server     \* server[k]: what memcached holds

pool == <<size, idle, made, held, turn, got, server>>

(* init: of one client, and of as many as there are cores, an int that     *)
(* memcached_pool_create takes as an uint32_t.  It makes no pool for no    *)
(* client, or finds no room for so many; init succeeds all the same.       *)
AsUint32(n) == n % WORD
NumCores == Cores \cup {1}      \* 1 where the system is not known

MemcachedInit ==
  /\ size \in {0} \cup {AsUint32(n) : n \in NumCores}
  /\ made \in {c \in SUBSET Client : Cardinality(c) = (IF size = 0 THEN 0 ELSE 1)}
  /\ idle = made
  /\ held = [t \in Thread |-> NoClient]
  /\ turn = [t \in Thread |-> "pop"]
  /\ got = [t \in Thread |-> NoValue]
  /\ server = [k \in Key |-> NoValue]

InTurn(t, s) == stage[t] = "busy" /\ turn[t] = s

Answered(t) ==
  /\ stage' = [stage EXCEPT ![t] = "done"]
  /\ ans' = [ans EXCEPT ![t] = got[t]]
  /\ UNCHANGED <<call, missed, offered>>

-----------------------------------------------------------------------------
(* get and set, which differ only in what they ask.                        *)
WithoutPool(t) ==
  /\ InTurn(t, "pop") /\ size = 0
  /\ Answered(t)
  /\ UNCHANGED pool

Holds(t, c, s) == held' = [held EXCEPT ![t] = c] /\ turn' = [turn EXCEPT ![t] = s]

PopIdle(t) ==
  /\ InTurn(t, "pop")
  /\ \E c \in idle : Holds(t, c, "ask") /\ idle' = idle \ {c}
  /\ UNCHANGED <<interface, size, made, got, server>>

MayGrow == idle = {} /\ Cardinality(made) < size

PopNew(t) ==
  /\ InTurn(t, "pop") /\ MayGrow
  /\ \E c \in Client \ made : Holds(t, c, "ask") /\ made' = made \cup {c}
  /\ UNCHANGED <<interface, size, idle, got, server>>

PopFails(t) ==
  /\ InTurn(t, "pop") /\ MayGrow
  /\ "alloc" \in McFaults \/ made = Client
  /\ Holds(t, NoClient, "push")
  /\ UNCHANGED <<interface, size, idle, made, got, server>>

AskGet(t) ==
  /\ InTurn(t, "ask") /\ call[t].op = "get"
  /\ \/ got' = [got EXCEPT ![t] = server[call[t].key]]
     \/ "server" \in McFaults /\ UNCHANGED got
  /\ turn' = [turn EXCEPT ![t] = "push"]
  /\ UNCHANGED <<interface, size, idle, made, held, server>>

AskSet(t) ==
  /\ InTurn(t, "ask") /\ call[t].op = "set"
  /\ \/ server' = [server EXCEPT ![call[t].key] = call[t].val]
     \/ "server" \in McFaults /\ UNCHANGED server
  /\ turn' = [turn EXCEPT ![t] = "push"]
  /\ UNCHANGED <<interface, size, idle, made, held, got>>

(* The client goes back whatever the server has answered.                  *)
PushIfFound(t) ==                                              \* a mutant
  /\ InTurn(t, "push")
  /\ idle' = IF got[t] # NoValue THEN idle \cup {held[t]} ELSE idle
  /\ Holds(t, NoClient, "pop")
  /\ Answered(t)
  /\ got' = [got EXCEPT ![t] = NoValue]
  /\ UNCHANGED <<size, made, server>>

Push(t) ==
  /\ InTurn(t, "push")
  /\ idle' = idle \cup ({held[t]} \ {NoClient})
  /\ Holds(t, NoClient, "pop")
  /\ Answered(t)
  /\ got' = [got EXCEPT ![t] = NoValue]
  /\ UNCHANGED <<size, made, server>>

Forget ==
  /\ \E k \in Key : server[k] # NoValue /\ server' = [server EXCEPT ![k] = NoValue]
  /\ UNCHANGED <<interface, size, idle, made, held, turn, got>>

MemcachedProvider(t) ==
  \/ WithoutPool(t) \/ PopIdle(t) \/ PopNew(t) \/ PopFails(t)
  \/ AskGet(t) \/ AskSet(t) \/ Push(t)
-----------------------------------------------------------------------------
MemcachedTypeOK ==
  /\ size \in 0 .. WORD - 1
  /\ made \subseteq Client /\ idle \subseteq made
  /\ held \in [Thread -> Client \cup {NoClient}]
  /\ turn \in [Thread -> {"pop", "ask", "push"}]
  /\ got \in [Thread -> Value \cup {NoValue}]
  /\ server \in [Key -> Value \cup {NoValue}]

(* No client is used by two threads at once, none is lost whatever failed  *)
(* in the call that held it, and there are never more than cores: the pop, *)
(* the request and the push of lines 49-54 and 65-70 belong together.      *)
Holder(c) == {t \in Thread : held[t] = c}

ClientsConserved ==
  /\ Cardinality(made) <= size
  /\ \A c \in made : Cardinality(Holder(c)) = (IF c \in idle THEN 0 ELSE 1)
=============================================================================
