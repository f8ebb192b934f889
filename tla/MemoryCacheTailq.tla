-------------------------- MODULE MemoryCacheTailq ---------------------------
(***************************************************************************)
(* The memory cache built without GLib (memory_cache_provider.c:117-250):  *)
(* a TAILQ of entries, a counter, and no lock.                             *)
(*                                                                         *)
(* Each step is one write of the macros of sys/queue.h.  next[Root] is the *)
(* head of the list; last and prev name the entry (or Root) whose next     *)
(* field they point to.  Entries are carved from the pool in order and     *)
(* never given back.  Of a pool two threads use at once the same piece may *)
(* be handed out twice: the bump pointer is read and then written.         *)
(***************************************************************************)
EXTENDS CacheInterface, Sequences

CONSTANTS
  User,            \* the threads that call: one, or two
  MaxEntries,      \* bound of the model: entries the pool has room for
  FirstCount,      \* what mc->cnt may hold when it comes from the pool
  HASH_THRESHOLD,
  TailqFaults      \* "alloc": an allocation finds no memory

ASSUME TailqAssumption ==
  /\ User \subseteq Thread
  /\ MaxEntries \in Nat /\ HASH_THRESHOLD \in Nat \ {0}
  /\ FirstCount \subseteq Nat
  /\ TailqFaults \subseteq {"alloc"}

Root == 0
Null == -1
Entry == 1 .. MaxEntries

VARIABLES
  pair,    \* pair[e]: key and value of entry e
  next,    \* next[e]: the entry after e, or Null
  prev,    \* prev[e]: whose next field refers to e
  last,    \* whose next field ends the list
  cnt,
  top,     \* entries taken from the pool
  step,    \* step[t]: where in get or set thread t is
  mce      \* mce[t]: the local variable of that name

list == <<pair, next, prev, last, cnt, top>>
tailqVars == <<list, step, mce>>

(* TAILQ_INIT, and a counter that nothing initialises (lines 164-179).     *)
TailqInit ==
  /\ pair = [e \in Entry |-> <<NoKey, NoValue>>]
  /\ next = [e \in Entry \cup {Root} |-> Null]
  /\ prev = [e \in Entry |-> Root]
  /\ last = Root
  /\ cnt \in FirstCount
  /\ top = 0
  /\ step = [t \in Thread |-> "out"]
  /\ mce = [t \in Thread |-> Null]

At(t, s) == stage[t] = "busy" /\ step[t] = s
Move(t, s, e) == step' = [step EXCEPT ![t] = s] /\ mce' = [mce EXCEPT ![t] = e]

Return(t, v) ==
  /\ stage' = [stage EXCEPT ![t] = "done"]
  /\ ans' = [ans EXCEPT ![t] = v]
  /\ Move(t, "out", Null)
  /\ UNCHANGED <<call, missed, offered>>

-----------------------------------------------------------------------------
(* memory_cache_get.  The counter is compared with the constant, whatever  *)
(* threshold init has read.                                                *)
SpentLate(n) == n > HASH_THRESHOLD                             \* a mutant
Spent(n) == n >= HASH_THRESHOLD

GetSpent(t) ==
  /\ At(t, "out") /\ call[t].op = "get" /\ Spent(cnt)
  /\ Move(t, "empty", next[Root])
  /\ UNCHANGED <<interface, list>>

GetScan(t) ==
  /\ At(t, "out") /\ call[t].op = "get" /\ ~Spent(cnt)
  /\ Move(t, "scan", next[Root])
  /\ UNCHANGED <<interface, list>>

ScanOn(t) ==
  /\ At(t, "scan") /\ mce[t] # Null /\ pair[mce[t]][1] # call[t].key
  /\ Move(t, "scan", next[mce[t]])
  /\ UNCHANGED <<interface, list>>

FoundFirst(t) == mce[t] # Null                                 \* a mutant
Found(t) == mce[t] # Null /\ pair[mce[t]][1] = call[t].key

ScanFound(t) ==
  /\ At(t, "scan") /\ Found(t)
  /\ \/ Return(t, pair[mce[t]][2])
     \/ "alloc" \in TailqFaults /\ Return(t, NoValue)
  /\ UNCHANGED list

ScanMissed(t) ==
  /\ At(t, "scan") /\ mce[t] = Null
  /\ Return(t, NoValue)
  /\ UNCHANGED list

(* memory_cache_removeall: TAILQ_REMOVE of what was first when the loop    *)
(* last looked, in two writes.  With one thread that is an entry whenever  *)
(* the list is not empty; a second thread that fills the list in between   *)
(* would have TAILQ_REMOVE follow NULL, where this model stops.            *)
Emptied(t) ==
  /\ At(t, "empty") /\ next[Root] = Null
  /\ Return(t, NoValue)
  /\ UNCHANGED list

Detach(t) ==
  /\ At(t, "empty") /\ next[Root] # Null /\ mce[t] # Null
  /\ LET e == mce[t]
     IN IF next[e] # Null
        THEN prev' = [prev EXCEPT ![next[e]] = prev[e]] /\ UNCHANGED last
        ELSE last' = prev[e] /\ UNCHANGED prev
  /\ Move(t, "detached", mce[t])
  /\ UNCHANGED <<interface, pair, next, cnt, top>>

Skip(t) ==
  /\ At(t, "detached")
  /\ next' = [next EXCEPT ![prev[mce[t]]] = next[mce[t]]]
  /\ Move(t, "empty", next'[Root])
  /\ UNCHANGED <<interface, pair, prev, last, cnt, top>>
-----------------------------------------------------------------------------
(* memory_cache_set.                                                       *)
Alloc(t) ==
  /\ At(t, "out") /\ call[t].op = "set" /\ top < MaxEntries
  /\ Move(t, "fill", top + 1)
  /\ UNCHANGED <<interface, list>>

NoRoom(t) ==
  /\ At(t, "out") /\ call[t].op = "set"
  /\ "alloc" \in TailqFaults \/ top = MaxEntries
  /\ \E n \in {top, top + 1} \cap 0 .. MaxEntries : top' = n
  /\ Return(t, NoValue)
  /\ UNCHANGED <<pair, next, prev, last, cnt>>

Fill(t) ==
  /\ At(t, "fill")
  /\ top' = mce[t]
  /\ pair' = [pair EXCEPT ![mce[t]] = <<call[t].key, call[t].val>>]
  /\ Move(t, "insert", mce[t])
  /\ UNCHANGED <<interface, next, prev, last, cnt>>

(* TAILQ_INSERT_TAIL: the entry's own fields, the field last points to,    *)
(* and last; then the counter.                                             *)
Insert(t) ==
  /\ At(t, "insert")
  /\ next' = [next EXCEPT ![mce[t]] = Null]
  /\ prev' = [prev EXCEPT ![mce[t]] = last]
  /\ Move(t, "link", mce[t])
  /\ UNCHANGED <<interface, pair, last, cnt, top>>

LinkFirst(t) ==                                                \* a mutant
  /\ At(t, "link")
  /\ next' = [next EXCEPT ![Root] = mce[t]]
  /\ Move(t, "end", mce[t])
  /\ UNCHANGED <<interface, pair, prev, last, cnt, top>>

Link(t) ==
  /\ At(t, "link")
  /\ next' = [next EXCEPT ![last] = mce[t]]
  /\ Move(t, "end", mce[t])
  /\ UNCHANGED <<interface, pair, prev, last, cnt, top>>

End(t) ==
  /\ At(t, "end")
  /\ last' = mce[t]
  /\ cnt' = cnt + 1
  /\ Return(t, NoValue)
  /\ UNCHANGED <<pair, next, prev, top>>

TailqProvider(t) ==
  \/ GetSpent(t) \/ GetScan(t) \/ ScanOn(t) \/ ScanFound(t) \/ ScanMissed(t)
  \/ Emptied(t) \/ Detach(t) \/ Skip(t)
  \/ Alloc(t) \/ NoRoom(t) \/ Fill(t) \/ Insert(t) \/ Link(t) \/ End(t)
-----------------------------------------------------------------------------
Steps == {"out", "scan", "empty", "detached", "fill", "insert", "link", "end"}

TailqTypeOK ==
  /\ InterfaceTypeOK
  /\ pair \in [Entry -> (Key \cup {NoKey}) \X (Value \cup {NoValue})]
  /\ next \in [Entry \cup {Root} -> Entry \cup {Null}]
  /\ prev \in [Entry -> Entry \cup {Root}]
  /\ last \in Entry \cup {Root}
  /\ cnt \in Nat /\ top \in 0 .. MaxEntries
  /\ step \in [Thread -> Steps]
  /\ mce \in [Thread -> Entry \cup {Null}]

(* The entries from the head on.  A list two threads have tied into a loop *)
(* is followed no further than there are entries.                          *)
Path(nx) ==
  LET at[n \in 0 .. MaxEntries + 1] ==
        IF n = 0 THEN Root ELSE IF at[n - 1] = Null THEN Null ELSE nx[at[n - 1]]
  IN [n \in 1 .. Cardinality({m \in 1 .. MaxEntries : at[m] # Null}) |-> at[n]]

Walk == Path(next)

Contents == [n \in DOMAIN Walk |-> pair[Walk[n]]]

Log == INSTANCE KeyedLog WITH log <- Contents

(* However the counter started and whatever threshold was configured, the  *)
(* list never holds more than HASH_THRESHOLD entries; the counter is never *)
(* reset, and once it is past the threshold the cache holds one entry at   *)
(* most, which the next get throws away (lines 195-198, 233).              *)
BoundedUntilSpent ==
  Len(Walk) <= (IF cnt > HASH_THRESHOLD THEN 1 ELSE HASH_THRESHOLD)
=============================================================================
