-------------------------- MODULE MemoryCacheGlib ---------------------------
(***************************************************************************)
(* The in-memory cache provider built on a GLib hash table                 *)
(* (memory_cache_provider.c, HAVE_GLIB).                                   *)
(*                                                                         *)
(* get and set run between MTX_LOCK, which locks the mutex of the cache    *)
(* configuration, and MTX_UNLOCK, which unlocks the uninitialised local    *)
(* variable mtx (dacloud_cache.h:78-82, memory_cache_provider.c:64,93).    *)
(* What that does to the configuration's mutex is undefined:               *)
(*   "kept"      it stays locked: where pthread_mutex_t is a structure the *)
(*               local one is another object;                              *)
(*   "released"  it is unlocked: where pthread_mutex_t is a pointer, the   *)
(*               stack slot may still hold the pointer that was locked.    *)
(* A copy of the configuration (examples/dacloud_mt.c:86) has a mutex of   *)
(* its own where the type is a structure, and the same one where it is a   *)
(* pointer; the hash table is shared in both cases.                        *)
(***************************************************************************)
EXTENDS CacheInterface

CONSTANTS
  Mutex,           \* the mutex objects
  mtxOf,           \* mtxOf[t]: the one in the configuration thread t uses
  NoThread,
  UnlockOutcome,   \* what MTX_UNLOCK may do
  HASH_THRESHOLD,  \* 4096
  HASH_MIN,        \* 128
  INT_MAX,
  Configured       \* the number user.cache.config reads as

ASSUME GlibAssumption ==
  /\ mtxOf \in [Thread -> Mutex]
  /\ NoThread \notin Thread
  /\ UnlockOutcome \in (SUBSET {"kept", "released"}) \ {{}}
  /\ "released" \in UnlockOutcome => \A t, u \in Thread : mtxOf[t] = mtxOf[u]
  /\ HASH_THRESHOLD \in Nat \ {0} /\ HASH_MIN \in Nat \ {0}
  /\ INT_MAX \in Nat /\ Configured \in Int

VARIABLES
  at,      \* at[t]: "out" of the critical section, in it ("crit"), leaving ("unlock")
  owner,   \* owner[m]: the thread that holds mutex m
  table,   \* table[k]: the value stored for a key
  value    \* value[t]: the duplicate the get of thread t has made

vars == <<interface, at, owner, table, value>>
internal == <<at, owner, table, value>>

(* The threshold memory_cache_init settles on.                             *)
Threshold ==
  IF Configured >= HASH_MIN /\ Configured < INT_MAX
  THEN Configured ELSE HASH_THRESHOLD

EmptyTable == [k \in Key |-> NoValue]
Stored == {k \in Key : table[k] # NoValue}
FullTooLate == Cardinality(Stored) > Threshold                 \* a mutant
Full == Cardinality(Stored) >= Threshold

TypeOK ==
  /\ InterfaceTypeOK
  /\ at \in [Thread -> {"out", "crit", "unlock"}]
  /\ owner \in [Mutex -> Thread \cup {NoThread}]
  /\ table \in [Key -> Value \cup {NoValue}]
  /\ value \in [Thread -> Value \cup {NoValue}]
  /\ \A t \in Thread : at[t] # "out" => stage[t] = "busy"

Init ==
  /\ InterfaceInit
  /\ at = [t \in Thread |-> "out"]
  /\ owner = [m \in Mutex |-> NoThread]
  /\ table = EmptyTable
  /\ value = [t \in Thread |-> NoValue]

-----------------------------------------------------------------------------
(* MTX_LOCK on a mutex of type PTHREAD_MUTEX_NORMAL: a thread that holds   *)
(* it already waits like any other, for ever.                              *)
NeverLocked(m) == TRUE                                         \* a mutant
Unlocked(m) == owner[m] = NoThread

Lock(t) ==
  /\ stage[t] = "busy" /\ at[t] = "out"
  /\ Unlocked(mtxOf[t])
  /\ owner' = [owner EXCEPT ![mtxOf[t]] = t]
  /\ at' = [at EXCEPT ![t] = "crit"]
  /\ UNCHANGED <<interface, table, value>>

InSection(t, op) == at[t] = "crit" /\ call[t].op = op
ToUnlock(t) == at' = [at EXCEPT ![t] = "unlock"]

(* memory_cache_get on a table that has reached the threshold: everything  *)
(* goes, and the get misses.                                               *)
GetFull(t) ==
  /\ InSection(t, "get")
  /\ Full
  /\ table' = EmptyTable
  /\ ToUnlock(t)
  /\ UNCHANGED <<interface, owner, value>>

(* memory_cache_get otherwise: the value found is duplicated, unless the   *)
(* allocator fails.                                                        *)
LookupAnyKey(t) ==                                             \* a mutant
  /\ InSection(t, "get")
  /\ ~Full
  /\ \E k \in Key : value' = [value EXCEPT ![t] = table[k]]
  /\ ToUnlock(t)
  /\ UNCHANGED <<interface, owner, table>>

GetLookup(t) ==
  /\ InSection(t, "get")
  /\ ~Full
  /\ \E v \in {table[call[t].key], NoValue} : value' = [value EXCEPT ![t] = v]
  /\ ToUnlock(t)
  /\ UNCHANGED <<interface, owner, table>>

(* memory_cache_set: only a key that is not there is inserted; the copies  *)
(* made of another one (lines 95-96) are not freed.                        *)
KeyStored(t) ==                                                \* a mutant
  /\ InSection(t, "set")
  /\ table' = IF call[t].key \in Stored THEN table
              ELSE [table EXCEPT ![call[t].key] = call[t].key]
  /\ ToUnlock(t)
  /\ UNCHANGED <<interface, owner, value>>

SetReplaces(t) ==                                              \* a mutant
  /\ InSection(t, "set")
  /\ table' = [table EXCEPT ![call[t].key] = call[t].val]
  /\ ToUnlock(t)
  /\ UNCHANGED <<interface, owner, value>>

SetInsert(t) ==
  /\ InSection(t, "set")
  /\ table' = IF call[t].key \in Stored THEN table
              ELSE [table EXCEPT ![call[t].key] = call[t].val]
  /\ ToUnlock(t)
  /\ UNCHANGED <<interface, owner, value>>

(* MTX_UNLOCK, and the return to the caller.                               *)
AlwaysReleased == {"released"}                                 \* a mutant
NeverReleased == {"kept"}                                       \* a mutant
Outcomes == UnlockOutcome

Unlock(t) ==
  /\ at[t] = "unlock"
  /\ \E o \in Outcomes :
       owner' = IF o = "released" THEN [owner EXCEPT ![mtxOf[t]] = NoThread] ELSE owner
  /\ at' = [at EXCEPT ![t] = "out"]
  /\ stage' = [stage EXCEPT ![t] = "done"]
  /\ ans' = [ans EXCEPT ![t] = value[t]]
  /\ value' = [value EXCEPT ![t] = NoValue]
  /\ UNCHANGED <<call, missed, offered, table>>

Provider(t) == Lock(t) \/ GetFull(t) \/ GetLookup(t) \/ SetInsert(t) \/ Unlock(t)

Client(t) == ClientNext(t) /\ UNCHANGED internal

Next == \E t \in Thread : Client(t) \/ Provider(t)

Spec == Init /\ [][Next]_vars

-----------------------------------------------------------------------------
(* The table outgrows the threshold by less than the number of threads:    *)
(* set checks nothing, but each thread inserts at most once after a get    *)
(* that found room (lines 67 and 97).                                      *)
SizeBound == Cardinality(Stored) <= Threshold - 1 + Cardinality(Thread)

(* A thread about to write the hash table, which does no locking itself.   *)
Writing(t) ==
  \/ InSection(t, "get") /\ Full
  \/ InSection(t, "set") /\ call[t].key \notin Stored

(* No thread writes the hash table while another one is in it, whatever    *)
(* MTX_UNLOCK does and whether or not threads share the mutex.             *)
NoTableRace ==
  \A t, u \in Thread : t # u /\ at[t] = "crit" /\ at[u] = "crit" => ~Writing(t)

(* What is stored stays as it is until a get clears the whole table: a     *)
(* later set of the same key never replaces it (line 97).                  *)
StoredStays ==
  [][table' = EmptyTable \/ \A k \in Stored : table'[k] = table[k]]_vars

(* When MTX_UNLOCK leaves the mutex locked, nothing is ever stored: the    *)
(* thread that looked a key up never gets into set.                        *)
NothingStored == Stored = {}

(* The provider is a cache in the sense of CacheSpec.                      *)
Cache == INSTANCE CacheSpec
CacheContract == Cache!Spec
=============================================================================
