----------------------- MODULE MemoryCacheGlibProofs -----------------------
(***************************************************************************)
(* What MemoryCacheGlib guarantees for any number of threads, mutexes,     *)
(* keys and values, any threshold and any behaviour of MTX_UNLOCK: the     *)
(* contract of CacheSpec, no race on the table, and the bound on its size. *)
(***************************************************************************)
EXTENDS MemoryCacheGlib, CacheInterfaceProofs, FiniteSetTheorems, TLAPS

-----------------------------------------------------------------------------
(* Type correctness.                                                       *)

(* Every variable of the provider keeps its type.                          *)
THEOREM TypeCorrect == Spec => []TypeOK
<1> USE GlibAssumption
<1>1. Init => TypeOK
  BY DEF Init, InterfaceInit, TypeOK, InterfaceTypeOK, EmptyTable
<1>2. TypeOK /\ [Next]_vars => TypeOK'
  <2> SUFFICES ASSUME TypeOK, [Next]_vars
               PROVE  TypeOK'
    OBVIOUS
  <2> USE DEF TypeOK
  <2>1. ASSUME NEW t \in Thread, Client(t)
        PROVE  TypeOK'
    <3>1. InterfaceTypeOK' /\ UNCHANGED internal
      BY <2>1, ClientTypeStep DEF Client
    <3>2. stage[t] # "busy" /\ \A u \in Thread : u # t => stage'[u] = stage[u]
      BY <2>1 DEF Client, ClientNext, Invoke, Collect, InterfaceTypeOK
    <3> QED
      BY <3>1, <3>2 DEF internal
  <2>2. ASSUME NEW t \in Thread, Lock(t)
        PROVE  TypeOK'
    BY <2>2 DEF Lock, interface, InterfaceTypeOK
  <2>3. ASSUME NEW t \in Thread, GetFull(t)
        PROVE  TypeOK'
    BY <2>3 DEF GetFull, InSection, ToUnlock, EmptyTable, interface, InterfaceTypeOK
  <2>4. ASSUME NEW t \in Thread, GetLookup(t)
        PROVE  TypeOK'
    <3>1. call[t] \in Calls \cup {NoCall} /\ call[t].op = "get"
      BY <2>4 DEF GetLookup, InSection, InterfaceTypeOK
    <3>2. call[t].key \in Key
      BY <3>1, CallFacts DEF NoCall
    <3> QED
      BY <2>4, <3>2 DEF GetLookup, InSection, ToUnlock, interface, InterfaceTypeOK
  <2>5. ASSUME NEW t \in Thread, SetInsert(t)
        PROVE  TypeOK'
    <3>1. call[t] \in Calls \cup {NoCall} /\ call[t].op = "set"
      BY <2>5 DEF SetInsert, InSection, InterfaceTypeOK
    <3>2. call[t].val \in Value
      BY <3>1, CallFacts DEF NoCall
    <3> QED
      BY <2>5, <3>2 DEF SetInsert, InSection, ToUnlock, interface, InterfaceTypeOK
  <2>6. ASSUME NEW t \in Thread, Unlock(t)
        PROVE  TypeOK'
    <3>1. owner' \in [Mutex -> Thread \cup {NoThread}]
      BY <2>6 DEF Unlock
    <3>2. stage[t] = "busy"
      BY <2>6 DEF Unlock
    <3> QED
      BY <2>6, <3>1, <3>2 DEF Unlock, InterfaceTypeOK
  <2>7. CASE UNCHANGED vars
    BY <2>7 DEF vars, interface, InterfaceTypeOK
  <2> QED
    BY <2>1, <2>2, <2>3, <2>4, <2>5, <2>6, <2>7 DEF Next, Provider
<1> QED
  BY <1>1, <1>2, PTL DEF Spec

-----------------------------------------------------------------------------
(* Mutual exclusion, and what a mutex that stays locked leads to.          *)

(* A thread in the critical section holds the mutex it uses.               *)
Holds == \A t \in Thread : at[t] # "out" => owner[mtxOf[t]] = t

(* When MTX_UNLOCK never unlocks, a thread that has been through a get has *)
(* used up its mutex: its set waits outside for ever, the table is empty.  *)
Spent(t) == missed[t] # NoKey \/ call[t].op = "set" \/ stage[t] = "done"

KeptInv ==
  UnlockOutcome = {"kept"} =>
    /\ Stored = {}
    /\ \A t \in Thread : Spent(t) => at[t] = "out" /\ owner[mtxOf[t]] # NoThread

LEMMA HoldsStep ==
  ASSUME TypeOK, Holds, [Next]_vars
  PROVE  Holds'
<1> USE GlibAssumption DEF TypeOK, Holds
<1>1. ASSUME NEW t \in Thread, Client(t)
      PROVE  Holds'
  BY <1>1 DEF Client, internal
<1>2. ASSUME NEW t \in Thread, Lock(t)
      PROVE  Holds'
  BY <1>2 DEF Lock, Unlocked
<1>3. ASSUME NEW t \in Thread, GetFull(t) \/ GetLookup(t) \/ SetInsert(t)
      PROVE  Holds'
  BY <1>3 DEF GetFull, GetLookup, SetInsert, InSection, ToUnlock
<1>4. ASSUME NEW t \in Thread, Unlock(t)
      PROVE  Holds'
  BY <1>4 DEF Unlock
<1>5. CASE UNCHANGED vars
  BY <1>5 DEF vars
<1> QED
  BY <1>1, <1>2, <1>3, <1>4, <1>5 DEF Next, Provider

LEMMA KeptStep ==
  ASSUME TypeOK, Holds, KeptInv, [Next]_vars
  PROVE  KeptInv'
<1> SUFFICES ASSUME UnlockOutcome = {"kept"}
             PROVE  /\ Stored' = {}
                    /\ \A t \in Thread :
                         Spent(t)' => at'[t] = "out" /\ owner'[mtxOf[t]] # NoThread
  BY DEF KeptInv
<1> USE GlibAssumption, InterfaceAssumption DEF TypeOK, InterfaceTypeOK
<1>0. /\ Stored = {}
      /\ \A t \in Thread : Spent(t) => at[t] = "out" /\ owner[mtxOf[t]] # NoThread
  BY DEF KeptInv
<1>1. ASSUME NEW t \in Thread, Client(t)
      PROVE  /\ Stored' = {}
             /\ \A u \in Thread :
                  Spent(u)' => at'[u] = "out" /\ owner'[mtxOf[u]] # NoThread
  <2>1. UNCHANGED <<at, owner, table>>
    BY <1>1 DEF Client, internal
  <2>2. Spent(t)' => Spent(t)
    <3>1. ASSUME NEW c \in Calls, Invoke(t, c)
          PROVE  Spent(t)' => Spent(t)
      BY <3>1, CallFacts DEF Invoke, Spent
    <3>2. ASSUME Collect(t)
          PROVE  Spent(t)' => Spent(t)
      BY <3>2 DEF Collect, Spent, NoCall
    <3> QED
      BY <1>1, <3>1, <3>2 DEF Client, ClientNext
  <2>3. \A u \in Thread : u # t => (Spent(u)' <=> Spent(u))
    BY <1>1 DEF Client, ClientNext, Invoke, Collect, Spent
  <2> QED
    BY <1>0, <2>1, <2>2, <2>3 DEF Stored
<1>2. ASSUME NEW t \in Thread, Lock(t)
      PROVE  /\ Stored' = {}
             /\ \A u \in Thread :
                  Spent(u)' => at'[u] = "out" /\ owner'[mtxOf[u]] # NoThread
  <2>1. ~Spent(t) /\ \A u \in Thread : Spent(u)' <=> Spent(u)
    BY <1>0, <1>2 DEF Lock, Unlocked, interface, Spent
  <2> QED
    BY <1>0, <1>2, <2>1 DEF Lock, Stored
<1>3. ASSUME NEW t \in Thread, GetFull(t) \/ GetLookup(t) \/ SetInsert(t)
      PROVE  /\ Stored' = {}
             /\ \A u \in Thread :
                  Spent(u)' => at'[u] = "out" /\ owner'[mtxOf[u]] # NoThread
  <2>1. at[t] = "crit" /\ ~Spent(t) /\ \A u \in Thread : Spent(u)' <=> Spent(u)
    BY <1>0, <1>3 DEF GetFull, GetLookup, SetInsert, InSection, interface, Spent
  <2>2. ~SetInsert(t)
    BY <2>1 DEF SetInsert, InSection, Spent
  <2>3. Stored' = {}
    BY <1>0, <1>3, <2>2 DEF GetFull, GetLookup, Stored, EmptyTable
  <2>4. \A u \in Thread : u # t => at'[u] = at[u]
    BY <1>3, <2>2 DEF GetFull, GetLookup, ToUnlock
  <2> QED
    BY <1>0, <1>3, <2>1, <2>2, <2>3, <2>4 DEF GetFull, GetLookup
<1>4. ASSUME NEW t \in Thread, Unlock(t)
      PROVE  /\ Stored' = {}
             /\ \A u \in Thread :
                  Spent(u)' => at'[u] = "out" /\ owner'[mtxOf[u]] # NoThread
  <2>1. owner' = owner /\ table' = table /\ at'[t] = "out"
    BY <1>4 DEF Unlock, Outcomes
  <2>2. owner[mtxOf[t]] = t
    BY <1>4 DEF Unlock, Holds
  <2>3. \A u \in Thread : u # t => at'[u] = at[u] /\ (Spent(u)' <=> Spent(u))
    BY <1>4 DEF Unlock, Spent
  <2> QED
    BY <1>0, <2>1, <2>2, <2>3 DEF Stored
<1>5. CASE UNCHANGED vars
  BY <1>0, <1>5 DEF vars, interface, Spent, Stored
<1> QED
  BY <1>1, <1>2, <1>3, <1>4, <1>5 DEF Next, Provider

ExclusionInv == Holds /\ KeptInv

LEMMA ExclusionInvCorrect == Spec => []ExclusionInv
<1>1. Init => ExclusionInv
  <2> SUFFICES ASSUME Init PROVE ExclusionInv
    OBVIOUS
  <2>1. Holds
    BY DEF Init, Holds
  <2>2. Stored = {}
    BY DEF Init, Stored, EmptyTable
  <2>3. \A t \in Thread : ~Spent(t)
    BY DEF Init, InterfaceInit, Spent, NoCall
  <2> QED
    BY <2>1, <2>2, <2>3 DEF ExclusionInv, KeptInv
<1>2. TypeOK /\ ExclusionInv /\ [Next]_vars => ExclusionInv'
  BY HoldsStep, KeptStep DEF ExclusionInv
<1> QED
  BY <1>1, <1>2, TypeCorrect, PTL DEF Spec

LEMMA ThresholdPositive == Threshold \in Nat \ {0}
BY GlibAssumption DEF Threshold

(* No thread writes the hash table while another is in it, whatever        *)
(* MTX_UNLOCK does and however the mutexes are shared (memory_cache_get    *)
(* and memory_cache_set).                                                  *)
THEOREM TableRaceFree == Spec => []NoTableRace
<1>1. TypeOK /\ ExclusionInv => NoTableRace
  <2> SUFFICES ASSUME TypeOK, ExclusionInv,
                      NEW t \in Thread, NEW u \in Thread,
                      t # u, at[t] = "crit", at[u] = "crit", Writing(t)
               PROVE  FALSE
    BY DEF NoTableRace
  <2>1. owner[mtxOf[t]] = t /\ owner[mtxOf[u]] = u
    BY DEF ExclusionInv, Holds
  <2>2. UnlockOutcome = {"kept"}
    BY <2>1, GlibAssumption
  <2>3. Stored = {} /\ call[t].op # "set"
    BY <2>2 DEF ExclusionInv, KeptInv, Spent
  <2>4. Cardinality(Stored) = 0
    BY <2>3, FS_EmptySet
  <2>5. ~Full
    BY <2>4, ThresholdPositive DEF Full
  <2> QED
    BY <2>3, <2>5 DEF Writing, InSection
<1> QED
  BY <1>1, TypeCorrect, ExclusionInvCorrect, PTL

(* With a MTX_UNLOCK that unlocks nothing, the cache never stores a thing. *)
THEOREM KeptMutexStoresNothing ==
  UnlockOutcome = {"kept"} => (Spec => []NothingStored)
<1> SUFFICES ASSUME UnlockOutcome = {"kept"}
             PROVE  Spec => []NothingStored
  OBVIOUS
<1>1. ExclusionInv => NothingStored
  BY DEF ExclusionInv, KeptInv, NothingStored
<1> QED
  BY <1>1, ExclusionInvCorrect, PTL

-----------------------------------------------------------------------------
(* The size of the table.                                                  *)

(* The threads that may still insert without looking at the size again:    *)
(* those whose get is over and whose set has not happened.                 *)
Committed(t) ==
  \/ stage[t] = "idle" /\ missed[t] # NoKey
  \/ call[t].op = "set" /\ stage[t] = "busy" /\ at[t] # "unlock"
  \/ call[t].op = "get" /\ (at[t] = "unlock" \/ stage[t] = "done")

MayInsert == {t \in Thread : Committed(t)}

SizeInv ==
  /\ IsFiniteSet(Stored)
  /\ Cardinality(Stored) + Cardinality(MayInsert)
       <= Threshold - 1 + Cardinality(Thread)

(* A step that stores nothing and commits no further thread.               *)
LEMMA SizeKept ==
  ASSUME IsFiniteSet(Thread), SizeInv, Stored' = Stored, MayInsert' \subseteq MayInsert
  PROVE  SizeInv'
<1>1. IsFiniteSet(MayInsert)
  BY FS_Subset DEF MayInsert
<1>2. /\ Cardinality(MayInsert') <= Cardinality(MayInsert)
      /\ Cardinality(MayInsert') \in Nat /\ Cardinality(MayInsert) \in Nat
  BY <1>1, FS_Subset, FS_CardinalityType
<1>3. Cardinality(Thread) \in Nat /\ Cardinality(Stored) \in Nat
  BY FS_CardinalityType DEF SizeInv
<1> QED
  BY <1>2, <1>3, ThresholdPositive DEF SizeInv, Threshold

(* A step after which the table is below the threshold.                    *)
LEMMA SizeChecked ==
  ASSUME IsFiniteSet(Thread), IsFiniteSet(Stored'), Cardinality(Stored') < Threshold
  PROVE  SizeInv'
<1>1. MayInsert' \subseteq Thread
  BY DEF MayInsert
<1>2. /\ Cardinality(MayInsert') <= Cardinality(Thread)
      /\ Cardinality(MayInsert') \in Nat /\ Cardinality(Thread) \in Nat
  BY <1>1, FS_Subset, FS_CardinalityType
<1>3. Cardinality(Stored') \in Nat
  BY FS_CardinalityType
<1> QED
  BY <1>2, <1>3, ThresholdPositive DEF SizeInv, Threshold

LEMMA SizeStep ==
  ASSUME IsFiniteSet(Thread), TypeOK, SizeInv, [Next]_vars
  PROVE  SizeInv'
<1> USE DEF TypeOK, InterfaceTypeOK
<1>1. ASSUME NEW t \in Thread, Client(t)
      PROVE  SizeInv'
  <2>1. Stored' = Stored /\ at' = at
    BY <1>1 DEF Client, internal, Stored
  <2>2. Committed(t)' => Committed(t)
    <3>1. ASSUME NEW c \in Calls, Invoke(t, c)
          PROVE  Committed(t)' => Committed(t)
      BY <2>1, <3>1, CallFacts, InterfaceAssumption DEF Invoke, Committed
    <3>2. ASSUME Collect(t)
          PROVE  Committed(t)' => Committed(t)
      BY <2>1, <3>2 DEF Collect, Committed, NoCall, Missed
    <3> QED
      BY <1>1, <3>1, <3>2 DEF Client, ClientNext
  <2>3. \A u \in Thread : u # t => (Committed(u)' <=> Committed(u))
    BY <1>1, <2>1 DEF Client, ClientNext, Invoke, Collect, Committed
  <2> QED
    BY <2>1, <2>2, <2>3, SizeKept DEF MayInsert
<1>2. ASSUME NEW t \in Thread, Lock(t)
      PROVE  SizeInv'
  <2>1. \A u \in Thread : Committed(u)' => Committed(u)
    BY <1>2 DEF Lock, interface, Committed
  <2>2. Stored' = Stored
    BY <1>2 DEF Lock, Stored
  <2> QED
    BY <2>1, <2>2, SizeKept DEF MayInsert
<1>3. ASSUME NEW t \in Thread, GetFull(t)
      PROVE  SizeInv'
  <2>1. Stored' = {}
    BY <1>3 DEF GetFull, Stored, EmptyTable
  <2> QED
    BY <2>1, FS_EmptySet, ThresholdPositive, SizeChecked
<1>4. ASSUME NEW t \in Thread, GetLookup(t)
      PROVE  SizeInv'
  <2>1. Stored' = Stored /\ Cardinality(Stored) < Threshold
    <3>1. Cardinality(Stored) \in Nat
      BY FS_CardinalityType DEF SizeInv
    <3> QED
      BY <1>4, <3>1, ThresholdPositive DEF GetLookup, Full, Stored
  <2> QED
    BY <2>1, SizeChecked DEF SizeInv
<1>5. ASSUME NEW t \in Thread, SetInsert(t)
      PROVE  SizeInv'
  <2> DEFINE k == call[t].key
  <2>1. t \in MayInsert
    BY <1>5 DEF SetInsert, InSection, MayInsert, Committed
  <2>2. CASE k \in Stored
    <3>1. Stored' = Stored
      BY <1>5, <2>2 DEF SetInsert, Stored
    <3>2. MayInsert' \subseteq MayInsert
      BY <1>5 DEF SetInsert, InSection, ToUnlock, interface, MayInsert, Committed
    <3> QED
      BY <3>1, <3>2, SizeKept
  <2>3. CASE k \notin Stored
    <3>1. Stored' \subseteq Stored \cup {k}
      BY <1>5, <2>3 DEF SetInsert, Stored
    <3>2. MayInsert' \subseteq MayInsert
      BY <1>5 DEF SetInsert, InSection, ToUnlock, interface, MayInsert, Committed
    <3>3. t \notin MayInsert'
      BY <1>5 DEF SetInsert, InSection, ToUnlock, interface, MayInsert, Committed
    <3>4. MayInsert' \subseteq MayInsert \ {t} /\ IsFiniteSet(MayInsert)
      BY <3>2, <3>3, FS_Subset DEF MayInsert
    <3>5. /\ Cardinality(MayInsert \ {t}) = Cardinality(MayInsert) - 1
          /\ IsFiniteSet(MayInsert \ {t})
      BY <2>1, <3>4, FS_RemoveElement
    <3>6. /\ Cardinality(MayInsert') <= Cardinality(MayInsert) - 1
          /\ Cardinality(MayInsert') \in Nat /\ Cardinality(MayInsert) \in Nat
      BY <3>4, <3>5, FS_Subset, FS_CardinalityType
    <3>7. IsFiniteSet(Stored \cup {k}) /\ Cardinality(Stored \cup {k}) = Cardinality(Stored) + 1
      BY <2>3, FS_AddElement DEF SizeInv
    <3>8. /\ IsFiniteSet(Stored') /\ Cardinality(Stored') <= Cardinality(Stored) + 1
          /\ Cardinality(Stored') \in Nat /\ Cardinality(Stored) \in Nat
      BY <3>1, <3>7, FS_Subset, FS_CardinalityType DEF SizeInv
    <3>9. Cardinality(Thread) \in Nat /\ Threshold' = Threshold
      BY FS_CardinalityType DEF Threshold
    <3> QED
      BY <3>6, <3>8, <3>9, ThresholdPositive DEF SizeInv
  <2> QED
    BY <2>2, <2>3
<1>6. ASSUME NEW t \in Thread, Unlock(t)
      PROVE  SizeInv'
  <2>1. \A u \in Thread : Committed(u)' => Committed(u)
    BY <1>6 DEF Unlock, Committed
  <2>2. Stored' = Stored
    BY <1>6 DEF Unlock, Stored
  <2> QED
    BY <2>1, <2>2, SizeKept DEF MayInsert
<1>7. CASE UNCHANGED vars
  BY <1>7, SizeKept DEF vars, interface, Stored, MayInsert, Committed
<1> QED
  BY <1>1, <1>2, <1>3, <1>4, <1>5, <1>6, <1>7 DEF Next, Provider

(* The table never holds more than Threshold - 1 values plus one for each  *)
(* thread, although set does not look at its size (lines 67 and 97).       *)
THEOREM SizeBounded == IsFiniteSet(Thread) => (Spec => []SizeBound)
<1> SUFFICES ASSUME IsFiniteSet(Thread)
             PROVE  Spec => []SizeBound
  OBVIOUS
<1>1. Init => SizeInv
  <2> SUFFICES ASSUME Init PROVE SizeInv
    OBVIOUS
  <2>1. Stored = {} /\ MayInsert = {}
    BY DEF Init, InterfaceInit, Stored, EmptyTable, MayInsert, Committed, NoCall
  <2>2. Cardinality(Thread) \in Nat /\ IsFiniteSet({}) /\ Cardinality({}) = 0
    BY FS_CardinalityType, FS_EmptySet
  <2> QED
    BY <2>1, <2>2, ThresholdPositive DEF SizeInv
<1>2. TypeOK /\ SizeInv /\ [Next]_vars => SizeInv'
  BY SizeStep
<1>3. SizeInv => SizeBound
  <2> SUFFICES ASSUME SizeInv PROVE SizeBound
    OBVIOUS
  <2>1. /\ Cardinality(Stored) \in Nat /\ Cardinality(Thread) \in Nat
        /\ Cardinality(MayInsert) \in Nat
    BY FS_Subset, FS_CardinalityType DEF SizeInv, MayInsert
  <2> QED
    BY <2>1, ThresholdPositive DEF SizeInv, SizeBound
<1> QED
  BY <1>1, <1>2, <1>3, TypeCorrect, PTL DEF Spec

-----------------------------------------------------------------------------
(* What a step does to the table.                                          *)

(* A value stored for a key is never replaced by another one: it goes only *)
(* when a get finds the table full and clears the whole of it, however     *)
(* many threads set the key again (lines 66-71 and 97).                    *)
THEOREM StoredIsNotReplaced == Spec => StoredStays
<1> DEFINE Kept == table' = EmptyTable \/ \A k \in Stored : table'[k] = table[k]
<1>1. TypeOK /\ [Next]_vars => [Kept]_vars
  <2> SUFFICES ASSUME TypeOK, Next
               PROVE  Kept
    OBVIOUS
  <2>1. ASSUME NEW t \in Thread, Client(t)
        PROVE  Kept
    BY <2>1 DEF Client, internal
  <2>2. ASSUME NEW t \in Thread, Lock(t) \/ GetLookup(t) \/ Unlock(t)
        PROVE  Kept
    BY <2>2 DEF Lock, GetLookup, Unlock
  <2>3. ASSUME NEW t \in Thread, GetFull(t)
        PROVE  Kept
    BY <2>3 DEF GetFull
  <2>4. ASSUME NEW t \in Thread, SetInsert(t)
        PROVE  Kept
    <3>1. table' = IF call[t].key \in Stored THEN table
                   ELSE [table EXCEPT ![call[t].key] = call[t].val]
      BY <2>4 DEF SetInsert
    <3>2. table \in [Key -> Value \cup {NoValue}] /\ Stored \subseteq Key
      BY DEF TypeOK, Stored
    <3> QED
      BY <3>1, <3>2
  <2> QED
    BY <2>1, <2>2, <2>3, <2>4 DEF Next, Provider
<1> QED
  BY <1>1, TypeCorrect, PTL DEF Spec, StoredStays

-----------------------------------------------------------------------------
(* Refinement of CacheSpec.                                                *)

(* Everything on its way to an answer was once offered under its key.      *)
OriginInv ==
  /\ \A k \in Stored : <<k, table[k]>> \in offered
  /\ \A t \in Thread :
       /\ stage[t] = "busy" /\ call[t].op = "set"
            => <<call[t].key, call[t].val>> \in offered
       /\ value[t] # NoValue
            => /\ at[t] = "unlock" /\ call[t].op = "get"
               /\ <<call[t].key, value[t]>> \in offered

LEMMA OriginStep ==
  ASSUME TypeOK, OriginInv, [Next]_vars
  PROVE  OriginInv'
<1> USE DEF TypeOK, InterfaceTypeOK
<1>1. ASSUME NEW t \in Thread, Client(t)
      PROVE  OriginInv'
  <2>1. UNCHANGED <<at, table, value>> /\ Stored' = Stored
    BY <1>1 DEF Client, internal, Stored
  <2>2. ASSUME NEW c \in Calls, Invoke(t, c)
        PROVE  OriginInv'
    <3>1. offered \subseteq offered' /\ (c.op = "set" => <<c.key, c.val>> \in offered')
      BY <2>2 DEF Invoke
    <3>2. value[t] = NoValue
      BY <2>2 DEF OriginInv, Invoke
    <3> QED
      BY <2>1, <2>2, <3>1, <3>2 DEF OriginInv, Invoke
  <2>3. CASE Collect(t)
    BY <2>1, <2>3 DEF OriginInv, Collect
  <2> QED
    BY <1>1, <2>2, <2>3 DEF Client, ClientNext
<1>2. ASSUME NEW t \in Thread, Lock(t)
      PROVE  OriginInv'
  BY <1>2 DEF Lock, interface, OriginInv, Stored
<1>3. ASSUME NEW t \in Thread, GetFull(t)
      PROVE  OriginInv'
  BY <1>3 DEF GetFull, InSection, ToUnlock, interface, OriginInv, Stored, EmptyTable
<1>4. ASSUME NEW t \in Thread, GetLookup(t)
      PROVE  OriginInv'
  <2>1. PICK v \in {table[call[t].key], NoValue} : value' = [value EXCEPT ![t] = v]
    BY <1>4 DEF GetLookup
  <2>2. call[t].key \in Key
    BY <1>4, CallFacts DEF GetLookup, InSection
  <2>3. v # NoValue => <<call[t].key, v>> \in offered
    BY <2>1, <2>2 DEF OriginInv, Stored
  <2> QED
    BY <1>4, <2>1, <2>3 DEF GetLookup, InSection, ToUnlock, interface, OriginInv, Stored
<1>5. ASSUME NEW t \in Thread, SetInsert(t)
      PROVE  OriginInv'
  <2>1. <<call[t].key, call[t].val>> \in offered
    BY <1>5 DEF SetInsert, InSection, OriginInv
  <2>2. \A k \in Key : table'[k] = table[k] \/ (k = call[t].key /\ table'[k] = call[t].val)
    BY <1>5 DEF SetInsert
  <2> QED
    BY <1>5, <2>1, <2>2 DEF SetInsert, InSection, ToUnlock, interface, OriginInv, Stored
<1>6. ASSUME NEW t \in Thread, Unlock(t)
      PROVE  OriginInv'
  BY <1>6 DEF Unlock, OriginInv, Stored
<1>7. CASE UNCHANGED vars
  BY <1>7 DEF vars, interface, OriginInv, Stored
<1> QED
  BY <1>1, <1>2, <1>3, <1>4, <1>5, <1>6, <1>7 DEF Next, Provider

LEMMA OriginCorrect == Spec => []OriginInv
<1>1. Init => OriginInv
  BY DEF Init, InterfaceInit, OriginInv, Stored, EmptyTable, NoCall
<1>2. TypeOK /\ OriginInv /\ [Next]_vars => OriginInv'
  BY OriginStep
<1> QED
  BY <1>1, <1>2, TypeCorrect, PTL DEF Spec

(* Each step of the provider is a step of CacheSpec or leaves the          *)
(* interface alone: a get answers nothing, or a value that was handed to   *)
(* set under the same key.                                                 *)
THEOREM Refinement == Spec => CacheContract
<1>1. Init => Cache!InterfaceInit
  BY DEF Init, InterfaceInit, Cache!InterfaceInit, Cache!NoCall, NoCall
<1>2. TypeOK /\ OriginInv /\ [Next]_vars => [Cache!Next]_(Cache!interface)
  <2> SUFFICES ASSUME TypeOK, OriginInv, [Next]_vars
               PROVE  Cache!Next \/ UNCHANGED Cache!interface
    OBVIOUS
  <2>1. ASSUME NEW t \in Thread, Client(t)
        PROVE  Cache!Next
    <3>1. Cache!ClientNext(t)
      BY <2>1 DEF Client, ClientNext, Invoke, Collect, Calls, GetCall, SetCall,
         NoCall, Missed,
         Cache!ClientNext, Cache!Invoke, Cache!Collect, Cache!Calls, Cache!GetCall,
         Cache!SetCall, Cache!NoCall, Cache!Missed
    <3> QED
      BY <3>1 DEF Cache!Next
  <2>2. ASSUME NEW t \in Thread, Unlock(t)
        PROVE  Cache!Next
    <3>1. value[t] \in Cache!Answers(call[t])
      BY DEF TypeOK, OriginInv, Cache!Answers
    <3>2. stage[t] = "busy"
      BY <2>2 DEF Unlock, TypeOK
    <3>3. Cache!Complete(t)
      BY <2>2, <3>1, <3>2 DEF Unlock, Cache!Complete
    <3> QED
      BY <3>3 DEF Cache!Next
  <2>3. ASSUME NEW t \in Thread, Lock(t) \/ GetFull(t) \/ GetLookup(t) \/ SetInsert(t)
        PROVE  UNCHANGED Cache!interface
    BY <2>3 DEF Lock, GetFull, GetLookup, SetInsert, interface, Cache!interface
  <2>4. CASE UNCHANGED vars
    BY <2>4 DEF vars, interface, Cache!interface
  <2> QED
    BY <2>1, <2>2, <2>3, <2>4 DEF Next, Provider
<1> QED
  BY <1>1, <1>2, TypeCorrect, OriginCorrect, PTL DEF Spec, CacheContract, Cache!Spec
=============================================================================
