------------------------ MODULE CacheProvidersProofs ------------------------
(***************************************************************************)
(* What the mock provider, the list of the memory cache and memcached do,  *)
(* proved for any number of threads, keys, values, clients and entries.    *)
(*                                                                         *)
(* TypeInv, HeldInv and OriginInv hold of every provider and every thread. *)
(* ListInv says which list the pointers tie, whatever write of a macro of  *)
(* sys/queue.h was the last; it is about one thread, as the list is.       *)
(***************************************************************************)
EXTENDS CacheProviders, CacheInterfaceProofs, FiniteSetTheorems, WellFoundedInduction

(* The local variables fit the step a thread is at.                        *)
TailqPlaces ==
  \A t \in Thread :
    /\ step[t] # "out" => cops = "memory"
    /\ step[t] \in {"fill", "insert", "link", "end"}
         => stage[t] = "busy" /\ call[t].op = "set" /\ mce[t] \in Entry
    /\ step[t] \in {"scan", "empty", "detached"} => stage[t] = "busy" /\ call[t].op = "get"
    /\ step[t] = "detached" => mce[t] \in Entry

MemcachedPlaces ==
  \A t \in Thread :
    /\ turn[t] # "pop" => stage[t] = "busy" /\ cops = "memcached"
    /\ held[t] # NoClient => turn[t] \in {"ask", "push"} /\ held[t] \in made
    /\ got[t] # NoValue => turn[t] = "push" /\ call[t].op = "get"
    /\ stage[t] # "done" => ans[t] = NoValue

TypeInv == ProvidersTypeOK /\ TailqPlaces /\ MemcachedPlaces

LEMMA CallValue ==
  \A c \in Calls : c.val \in Value \cup {NoValue}
BY DEF Calls, GetCall, SetCall

(* A number an uint32_t can be.                                            *)
LEMMA Uint32Range ==
  \A n \in Nat \cup {-1} : AsUint32(n) \in 0 .. WORD - 1
BY MemcachedAssumption DEF AsUint32

LEMMA SizeRange ==
  ASSUME size \in {0} \cup {AsUint32(n) : n \in NumCores}
  PROVE  size \in 0 .. WORD - 1
<1>1. NumCores \subseteq Nat \cup {-1}
  BY MemcachedAssumption DEF NumCores
<1>2. 0 \in 0 .. WORD - 1
  BY MemcachedAssumption
<1> QED
  BY <1>1, <1>2, Uint32Range

-----------------------------------------------------------------------------
(* Types.                                                                  *)

LEMMA TypeInit == ProvidersInit => TypeInv
<1> SUFFICES ASSUME ProvidersInit PROVE TypeInv
  OBVIOUS
<1>1. InterfaceTypeOK
  BY InterfaceAssumption DEF ProvidersInit, InterfaceInit, InterfaceTypeOK
<1>2. TailqTypeOK
  BY <1>1, TailqAssumption DEF ProvidersInit, TailqInit, TailqTypeOK, Root, Null,
     Entry, Steps
<1>3. MemcachedTypeOK
  BY SizeRange DEF ProvidersInit, MemcachedInit, MemcachedTypeOK
<1>4. TailqPlaces /\ MemcachedPlaces
  BY DEF ProvidersInit, InterfaceInit, TailqInit, MemcachedInit, TailqPlaces,
     MemcachedPlaces
<1> QED
  BY <1>1, <1>2, <1>3, <1>4 DEF ProvidersInit, ProvidersTypeOK, TypeInv

LEMMA ClientStep ==
  ASSUME TypeInv, NEW t \in Thread, ClientNext(t), UNCHANGED <<tailqVars, pool, cops>>
  PROVE  TypeInv'
<1>1. InterfaceTypeOK'
  BY ClientTypeStep DEF TypeInv, ProvidersTypeOK, TailqTypeOK
<1>2. TailqTypeOK' /\ MemcachedTypeOK' /\ (cops \in Cops)'
  BY <1>1 DEF TypeInv, ProvidersTypeOK, TailqTypeOK, MemcachedTypeOK, tailqVars, list,
     pool
<1>3. stage[t] \in {"idle", "done"} /\ step[t] = "out" /\ turn[t] = "pop"
  BY DEF ClientNext, Invoke, Collect, TypeInv, TailqPlaces, MemcachedPlaces,
     ProvidersTypeOK,
     TailqTypeOK, MemcachedTypeOK, Steps
<1>4. /\ \A u \in Thread : u # t => /\ stage'[u] = stage[u] /\ call'[u] = call[u]
                                    /\ ans'[u] = ans[u]
      /\ stage'[t] # "done" /\ ans'[t] = NoValue
  BY DEF ClientNext, Invoke, Collect, TypeInv, MemcachedPlaces, ProvidersTypeOK,
     TailqTypeOK,
     InterfaceTypeOK
<1>5. UNCHANGED <<step, mce, turn, held, made, got>>
  BY DEF tailqVars, pool
<1>6. TailqPlaces'
  BY <1>3, <1>4, <1>5 DEF TypeInv, TailqPlaces
<1>7. MemcachedPlaces'
  BY <1>3, <1>4, <1>5 DEF TypeInv, MemcachedPlaces
<1> QED
  BY <1>2, <1>6, <1>7 DEF TypeInv, ProvidersTypeOK

(* A step of the list keeps types and places where it does so for the      *)
(* thread that takes it.                                                   *)
LEMMA TailqFrame ==
  ASSUME TypeInv, NEW t \in Thread, NEW s \in Steps, NEW e \in Entry \cup {Null},
         stage[t] = "busy", Move(t, s, e),
         UNCHANGED <<interface, pool, cops>>,
         cops = "memory",
         s \in {"fill", "insert", "link", "end"} => call[t].op = "set" /\ e \in Entry,
         s \in {"scan", "empty", "detached"} => call[t].op = "get",
         s = "detached" => e \in Entry,
         pair' \in [Entry -> (Key \cup {NoKey}) \X (Value \cup {NoValue})],
         next' \in [Entry \cup {Root} -> Entry \cup {Null}],
         prev' \in [Entry -> Entry \cup {Root}],
         last' \in Entry \cup {Root},
         cnt' \in Nat, top' \in 0 .. MaxEntries
  PROVE  TypeInv'
<1>1. step' \in [Thread -> Steps] /\ mce' \in [Thread -> Entry \cup {Null}]
  BY DEF Move, TypeInv, ProvidersTypeOK, TailqTypeOK
<1>2. InterfaceTypeOK'
  BY DEF interface, InterfaceTypeOK, TypeInv, ProvidersTypeOK, TailqTypeOK
<1>3. /\ MemcachedTypeOK' /\ MemcachedPlaces' /\ (cops \in Cops)'
  BY DEF pool, interface, MemcachedTypeOK, MemcachedPlaces, TypeInv, ProvidersTypeOK
<1>4. /\ \A u \in Thread : u # t => step'[u] = step[u] /\ mce'[u] = mce[u]
      /\ step'[t] = s /\ mce'[t] = e
  BY DEF Move, TypeInv, ProvidersTypeOK, TailqTypeOK
<1>5. UNCHANGED <<stage, call>>
  BY DEF interface
<1>6. TailqPlaces'
  <2> SUFFICES ASSUME NEW u \in Thread
               PROVE  (/\ step[u] # "out" => cops = "memory"
                       /\ step[u] \in {"fill", "insert", "link", "end"}
                            => stage[u] = "busy" /\ call[u].op = "set" /\ mce[u] \in Entry
                       /\ step[u] \in {"scan", "empty", "detached"}
                            => stage[u] = "busy" /\ call[u].op = "get"
                       /\ step[u] = "detached" => mce[u] \in Entry)'
    BY DEF TailqPlaces
  <2>1. CASE u = t
    BY <1>4, <1>5, <2>1
  <2>2. CASE u # t
    BY <1>4, <1>5, <2>2 DEF TypeInv, TailqPlaces
  <2> QED
    BY <2>1, <2>2
<1>7. TailqTypeOK'
  BY <1>1, <1>2 DEF TailqTypeOK
<1> QED
  BY <1>3, <1>6, <1>7 DEF TypeInv, ProvidersTypeOK

LEMMA ReturnType ==
  ASSUME TypeInv, NEW t \in Thread, NEW v \in Value \cup {NoValue},
         stage[t] = "busy", Return(t, v), turn[t] = "pop",
         UNCHANGED <<pair, next, prev, pool, cops>>,
         last' \in Entry \cup {Root}, cnt' \in Nat, top' \in 0 .. MaxEntries
  PROVE  TypeInv'
<1>1. InterfaceTypeOK'
  BY DEF Return, InterfaceTypeOK, TypeInv, ProvidersTypeOK, TailqTypeOK
<1>2. step' \in [Thread -> Steps] /\ mce' \in [Thread -> Entry \cup {Null}]
  BY DEF Return, Move, Steps, TypeInv, ProvidersTypeOK, TailqTypeOK
<1>3. MemcachedTypeOK' /\ (cops \in Cops)'
  BY DEF pool, MemcachedTypeOK, TypeInv, ProvidersTypeOK
<1>4. TailqTypeOK'
  BY <1>1, <1>2 DEF TailqTypeOK, TypeInv, ProvidersTypeOK
<1>5. /\ \A u \in Thread : u # t => /\ stage'[u] = stage[u] /\ ans'[u] = ans[u]
                                    /\ step'[u] = step[u] /\ mce'[u] = mce[u]
      /\ stage'[t] = "done" /\ step'[t] = "out" /\ call' = call
  BY DEF Return, Move, TypeInv, ProvidersTypeOK, TailqTypeOK, InterfaceTypeOK
<1>6. TailqPlaces'
  BY <1>5 DEF TypeInv, TailqPlaces
<1>7. MemcachedPlaces'
  BY <1>5 DEF TypeInv, MemcachedPlaces, pool
<1> QED
  BY <1>3, <1>4, <1>6, <1>7 DEF TypeInv, ProvidersTypeOK

(* The list is used where memcached is not.                                *)
LEMMA TailqStep ==
  ASSUME TypeInv, NEW t \in Thread, TailqProvider(t), cops = "memory", UNCHANGED <<pool, cops>>
  PROVE  TypeInv'
<1> USE DEF TypeInv, ProvidersTypeOK, TailqTypeOK, At, list
<1>a. Root \in 0 .. MaxEntries /\ Root \notin Entry /\ Null \notin Entry /\ Null # Root
  BY TailqAssumption DEF Root, Null, Entry
<1>b. stage[t] = "busy" => call[t].key \in Key /\ call[t].val \in Value \cup {NoValue}
  BY CallFacts, CallValue DEF InterfaceTypeOK
<1>c. next[Root] \in Entry \cup {Null} /\ \A e \in Entry : next[e] \in Entry \cup {Null}
  OBVIOUS
<1>d. mce[t] \in Entry \cup {Null} /\ step[t] \in Steps
  OBVIOUS
<1>e. turn[t] = "pop"
  BY DEF MemcachedPlaces, MemcachedTypeOK
<1>1. CASE GetSpent(t) \/ GetScan(t)
  <2>1. PICK s \in {"empty", "scan"} : Move(t, s, next[Root])
    BY <1>1 DEF GetSpent, GetScan
  <2> QED
    BY <1>1, <1>c, <2>1, TailqFrame DEF GetSpent, GetScan, interface, Steps
<1>2. CASE ScanOn(t)
  <2>1. next[mce[t]] \in Entry \cup {Null} /\ call[t].op = "get"
    BY <1>2, <1>c, <1>d DEF ScanOn, TailqPlaces
  <2> QED
    BY <1>2, <2>1, TailqFrame DEF ScanOn, interface, Steps
<1>3. CASE ScanFound(t) \/ ScanMissed(t) \/ Emptied(t)
  <2>1. mce[t] # Null => pair[mce[t]][2] \in Value \cup {NoValue}
    BY <1>d
  <2>2. PICK v \in Value \cup {NoValue} : Return(t, v)
    BY <1>3, <2>1 DEF ScanFound, Found, ScanMissed, Emptied
  <2>3. UNCHANGED list /\ stage[t] = "busy"
    BY <1>3 DEF ScanFound, ScanMissed, Emptied
  <2> QED
    BY <1>e, <2>2, <2>3, ReturnType
<1>4. CASE Detach(t)
  <2>1. mce[t] \in Entry /\ call[t].op = "get"
    BY <1>4, <1>d DEF Detach, TailqPlaces
  <2>2. prev[mce[t]] \in Entry \cup {Root}
    BY <2>1
  <2>3. prev' \in [Entry -> Entry \cup {Root}] /\ last' \in Entry \cup {Root}
    BY <1>4, <2>2 DEF Detach
  <2> QED
    BY <1>4, <2>1, <2>3, TailqFrame DEF Detach, interface, Steps
<1>5. CASE Skip(t)
  <2>1. mce[t] \in Entry /\ call[t].op = "get"
    BY <1>5 DEF Skip, TailqPlaces
  <2>2. next[mce[t]] \in Entry \cup {Null} /\ prev[mce[t]] \in Entry \cup {Root}
    BY <2>1, <1>c
  <2>3. next' \in [Entry \cup {Root} -> Entry \cup {Null}]
    BY <1>5, <2>2 DEF Skip
  <2>4. next'[Root] \in Entry \cup {Null}
    BY <2>3
  <2> QED
    BY <1>5, <2>1, <2>3, <2>4, TailqFrame DEF Skip, interface, Steps
<1>6. CASE Alloc(t)
  <2>1. top + 1 \in Entry
    BY <1>6, TailqAssumption DEF Alloc, Entry
  <2> QED
    BY <1>6, <2>1, TailqFrame DEF Alloc, interface, Steps
<1>7. CASE NoRoom(t)
  BY <1>7, <1>e, ReturnType DEF NoRoom
<1>8. CASE Fill(t)
  <2>1. mce[t] \in Entry /\ call[t].op = "set"
    BY <1>8 DEF Fill, TailqPlaces
  <2>2. pair' \in [Entry -> (Key \cup {NoKey}) \X (Value \cup {NoValue})]
    BY <1>8, <1>b, <2>1 DEF Fill
  <2>3. top' \in 0 .. MaxEntries
    BY <1>8, <2>1, TailqAssumption DEF Fill, Entry
  <2> QED
    BY <1>8, <2>1, <2>2, <2>3, TailqFrame DEF Fill, interface, Steps
<1>9. CASE Insert(t)
  <2>1. mce[t] \in Entry /\ call[t].op = "set"
    BY <1>9 DEF Insert, TailqPlaces
  <2>2. /\ next' \in [Entry \cup {Root} -> Entry \cup {Null}]
        /\ prev' \in [Entry -> Entry \cup {Root}]
    BY <1>9 DEF Insert
  <2> QED
    BY <1>9, <2>1, <2>2, TailqFrame DEF Insert, interface, Steps
<1>10. CASE Link(t)
  <2>1. mce[t] \in Entry /\ call[t].op = "set"
    BY <1>10 DEF Link, TailqPlaces
  <2>2. next' \in [Entry \cup {Root} -> Entry \cup {Null}]
    BY <1>10, <2>1 DEF Link
  <2> QED
    BY <1>10, <2>1, <2>2, TailqFrame DEF Link, interface, Steps
<1>11. CASE End(t)
  <2>1. mce[t] \in Entry
    BY <1>11 DEF End, TailqPlaces
  <2> QED
    BY <1>11, <1>e, <2>1, ReturnType DEF End
<1> QED
  BY <1>1, <1>2, <1>3, <1>4, <1>5, <1>6, <1>7, <1>8, <1>9, <1>10,
     <1>11 DEF TailqProvider

LEMMA AnsweredType ==
  ASSUME TypeInv, NEW t \in Thread, stage[t] = "busy", step[t] = "out", Answered(t),
         UNCHANGED <<tailqVars, cops>>,
         MemcachedTypeOK', turn'[t] = "pop", held'[t] = NoClient, got'[t] = NoValue,
         \A u \in Thread \ {t} : turn'[u] = turn[u] /\ held'[u] = held[u] /\ got'[u] = got[u],
         made' = made
  PROVE  TypeInv'
<1>1. InterfaceTypeOK'
  BY DEF Answered, InterfaceTypeOK, MemcachedTypeOK, TypeInv, ProvidersTypeOK,
     TailqTypeOK
<1>2. TailqTypeOK'
  BY <1>1 DEF TypeInv, ProvidersTypeOK, TailqTypeOK, tailqVars, list
<1>3. /\ \A u \in Thread : u # t => stage'[u] = stage[u] /\ ans'[u] = ans[u]
      /\ stage'[t] = "done" /\ UNCHANGED <<call, step, mce, cops>>
  BY DEF Answered, tailqVars, TypeInv, ProvidersTypeOK, TailqTypeOK, InterfaceTypeOK
<1>4. TailqPlaces'
  BY <1>3 DEF TypeInv, TailqPlaces
<1>5. MemcachedPlaces'
  BY <1>3 DEF TypeInv, MemcachedPlaces
<1> QED
  BY <1>2, <1>4, <1>5 DEF TypeInv, ProvidersTypeOK

LEMMA PoolFrame ==
  ASSUME TypeInv, NEW t \in Thread, stage[t] = "busy", cops = "memcached",
         UNCHANGED <<interface, tailqVars, cops>>,
         MemcachedTypeOK', made \subseteq made',
         \A u \in Thread \ {t} : turn'[u] = turn[u] /\ held'[u] = held[u] /\ got'[u] = got[u],
         held'[t] # NoClient => turn'[t] \in {"ask", "push"} /\ held'[t] \in made',
         got'[t] # NoValue => turn'[t] = "push" /\ call[t].op = "get"
  PROVE  TypeInv'
<1>1. TailqTypeOK' /\ TailqPlaces'
  BY DEF TypeInv, ProvidersTypeOK, TailqTypeOK, InterfaceTypeOK, TailqPlaces,
     tailqVars, list,
     interface
<1>2. MemcachedPlaces'
  <2> SUFFICES ASSUME NEW u \in Thread
               PROVE  (/\ turn[u] # "pop" => stage[u] = "busy" /\ cops = "memcached"
                       /\ held[u] # NoClient => turn[u] \in {"ask", "push"} /\ held[u] \in made
                       /\ got[u] # NoValue => turn[u] = "push" /\ call[u].op = "get"
                       /\ stage[u] # "done" => ans[u] = NoValue)'
    BY DEF MemcachedPlaces
  <2>1. CASE u = t
    BY <2>1 DEF interface, TypeInv, MemcachedPlaces
  <2>2. CASE u # t
    BY <2>2 DEF interface, TypeInv, MemcachedPlaces
  <2> QED
    BY <2>1, <2>2
<1> QED
  BY <1>1, <1>2 DEF TypeInv, ProvidersTypeOK

LEMMA MemcachedStep ==
  ASSUME TypeInv, NEW t \in Thread, MemcachedProvider(t), cops = "memcached",
         UNCHANGED <<tailqVars, cops>>
  PROVE  TypeInv'
<1> USE DEF TypeInv, ProvidersTypeOK, MemcachedTypeOK, InTurn
<1>a. step[t] = "out"
  BY DEF TailqPlaces
<1>b. stage[t] = "busy"
  BY DEF MemcachedProvider, WithoutPool, PopIdle, PopNew, PopFails, AskGet, AskSet, Push
<1>c. call[t].key \in Key /\ (call[t].op = "set" => call[t].val \in Value)
  BY <1>b, CallFacts DEF TailqTypeOK, InterfaceTypeOK
<1>d. turn[t] = "pop" => held[t] = NoClient /\ got[t] = NoValue
  BY DEF MemcachedPlaces
<1>1. CASE WithoutPool(t)
  <2>1. /\ MemcachedTypeOK' /\ turn'[t] = "pop" /\ held'[t] = NoClient /\ got'[t] = NoValue
        /\ UNCHANGED <<turn, held, got, made>>
    BY <1>1, <1>d DEF WithoutPool, pool
  <2> QED
    BY <1>1, <1>a, <1>b, <2>1, AnsweredType DEF WithoutPool
<1>2. CASE PopIdle(t)
  <2>1. PICK c \in idle : Holds(t, c, "ask") /\ idle' = idle \ {c}
    BY <1>2 DEF PopIdle
  <2>2. MemcachedTypeOK' /\ held'[t] = c /\ turn'[t] = "ask" /\ c \in made /\ c \in Client
    BY <1>2, <2>1 DEF PopIdle, Holds
  <2>3. \A u \in Thread \ {t} : turn'[u] = turn[u] /\ held'[u] = held[u] /\ got'[u] = got[u]
    BY <1>2, <2>1 DEF PopIdle, Holds
  <2> QED
    BY <1>2, <1>b, <1>d, <2>2, <2>3, PoolFrame DEF PopIdle
<1>3. CASE PopNew(t)
  <2>1. PICK c \in Client \ made : Holds(t, c, "ask") /\ made' = made \cup {c}
    BY <1>3 DEF PopNew
  <2>2. MemcachedTypeOK' /\ held'[t] = c /\ turn'[t] = "ask" /\ c \in made'
    BY <1>3, <2>1 DEF PopNew, Holds
  <2>3. \A u \in Thread \ {t} : turn'[u] = turn[u] /\ held'[u] = held[u] /\ got'[u] = got[u]
    BY <1>3, <2>1 DEF PopNew, Holds
  <2> QED
    BY <1>3, <1>b, <1>d, <2>1, <2>2, <2>3, PoolFrame DEF PopNew
<1>4. CASE PopFails(t)
  <2>1. MemcachedTypeOK' /\ held'[t] = NoClient /\ turn'[t] = "push"
    BY <1>4 DEF PopFails, Holds
  <2>2. \A u \in Thread \ {t} : turn'[u] = turn[u] /\ held'[u] = held[u] /\ got'[u] = got[u]
    BY <1>4 DEF PopFails, Holds
  <2> QED
    BY <1>4, <1>b, <1>d, <2>1, <2>2, PoolFrame DEF PopFails
<1>5. CASE AskGet(t)
  <2>1. server[call[t].key] \in Value \cup {NoValue}
    BY <1>c
  <2>2. MemcachedTypeOK' /\ turn'[t] = "push" /\ call[t].op = "get"
    BY <1>5, <2>1 DEF AskGet
  <2>4. held[t] # NoClient => held[t] \in made
    BY DEF MemcachedPlaces
  <2>3. \A u \in Thread \ {t} : turn'[u] = turn[u] /\ held'[u] = held[u] /\ got'[u] = got[u]
    BY <1>5 DEF AskGet
  <2> QED
    BY <1>5, <1>b, <2>2, <2>3, <2>4, PoolFrame DEF AskGet
<1>6. CASE AskSet(t)
  <2>1. call[t].val \in Value
    BY <1>6, <1>c DEF AskSet
  <2>2. MemcachedTypeOK' /\ turn'[t] = "push" /\ got[t] = NoValue
    BY <1>6, <1>c, <2>1 DEF AskSet, MemcachedPlaces
  <2>4. held[t] # NoClient => held[t] \in made
    BY DEF MemcachedPlaces
  <2>3. \A u \in Thread \ {t} : turn'[u] = turn[u] /\ held'[u] = held[u] /\ got'[u] = got[u]
    BY <1>6 DEF AskSet
  <2> QED
    BY <1>6, <1>b, <2>2, <2>3, <2>4, PoolFrame DEF AskSet
<1>7. CASE Push(t)
  <2>1. held[t] # NoClient => held[t] \in made
    BY <1>7 DEF Push, MemcachedPlaces
  <2>2. MemcachedTypeOK' /\ turn'[t] = "pop" /\ held'[t] = NoClient /\ got'[t] = NoValue
    BY <1>7, <2>1 DEF Push, Holds
  <2>3. \A u \in Thread \ {t} : turn'[u] = turn[u] /\ held'[u] = held[u] /\ got'[u] = got[u]
    BY <1>7 DEF Push, Holds
  <2> QED
    BY <1>7, <1>a, <1>b, <2>2, <2>3, AnsweredType DEF Push
<1> QED
  BY <1>1, <1>2, <1>3, <1>4, <1>5, <1>6, <1>7 DEF MemcachedProvider

LEMMA MockStep ==
  ASSUME TypeInv, NEW t \in Thread, MockProvider(t)
  PROVE  TypeInv'
<1>1. InterfaceTypeOK'
  BY DEF MockProvider, InterfaceTypeOK, TypeInv, ProvidersTypeOK, TailqTypeOK
<1>2. TailqTypeOK' /\ MemcachedTypeOK' /\ (cops \in Cops)'
  BY <1>1 DEF MockProvider, TypeInv, ProvidersTypeOK, TailqTypeOK, MemcachedTypeOK,
     tailqVars,
     list, pool
<1>3. step[t] = "out" /\ turn[t] = "pop"
  BY DEF MockProvider, TypeInv, TailqPlaces, MemcachedPlaces
<1>4. /\ \A u \in Thread : u # t => stage'[u] = stage[u]
      /\ UNCHANGED <<call, ans, step, mce, turn, held, made, got, cops>>
  BY DEF MockProvider, tailqVars, pool
<1>5. TailqPlaces'
  BY <1>3, <1>4 DEF TypeInv, TailqPlaces
<1>6. MemcachedPlaces'
  <2> SUFFICES ASSUME NEW u \in Thread
               PROVE  (/\ turn[u] # "pop" => stage[u] = "busy" /\ cops = "memcached"
                       /\ held[u] # NoClient => turn[u] \in {"ask", "push"} /\ held[u] \in made
                       /\ got[u] # NoValue => turn[u] = "push" /\ call[u].op = "get"
                       /\ stage[u] # "done" => ans[u] = NoValue)'
    BY DEF MemcachedPlaces
  <2>1. stage[t] = "busy"
    BY DEF MockProvider
  <2> QED
    BY <1>3, <1>4, <2>1 DEF TypeInv, MemcachedPlaces
<1> QED
  BY <1>2, <1>5, <1>6 DEF TypeInv, ProvidersTypeOK

LEMMA ForgetStep ==
  ASSUME TypeInv, Forget, UNCHANGED <<tailqVars, cops>>
  PROVE  TypeInv'
BY DEF Forget, TypeInv, ProvidersTypeOK, TailqTypeOK, MemcachedTypeOK, InterfaceTypeOK,
   TailqPlaces, MemcachedPlaces, tailqVars, list, interface

LEMMA TypeStep ==
  ASSUME TypeInv, [ProvidersNext]_providerVars
  PROVE  TypeInv'
<1>1. ASSUME NEW t \in Users, Provider(t)
      PROVE  TypeInv'
  <2>1. t \in Thread
    BY TailqAssumption DEF Users
  <2> QED
    BY <1>1, <2>1, MockStep, TailqStep, MemcachedStep DEF Provider
<1>2. ASSUME NEW t \in Users, ClientNext(t), UNCHANGED <<tailqVars, pool, cops>>
      PROVE  TypeInv'
  <2>1. t \in Thread
    BY TailqAssumption DEF Users
  <2> QED
    BY <1>2, <2>1, ClientStep
<1>3. CASE Forget /\ UNCHANGED <<tailqVars, cops>>
  BY <1>3, ForgetStep
<1>4. CASE UNCHANGED providerVars
  BY <1>4 DEF providerVars, TypeInv, ProvidersTypeOK, TailqTypeOK, MemcachedTypeOK,
     InterfaceTypeOK, TailqPlaces, MemcachedPlaces, tailqVars, list, pool, interface
<1> QED
  BY <1>1, <1>2, <1>3, <1>4 DEF ProvidersNext

LEMMA TypeInvCorrect == ProvidersSpec => []TypeInv
<1>1. ProvidersInit => TypeInv
  BY TypeInit
<1>2. TypeInv /\ [ProvidersNext]_providerVars => TypeInv'
  BY TypeStep
<1> QED
  BY <1>1, <1>2, PTL DEF ProvidersSpec

(* Whatever provider is chosen, every variable keeps its type              *)
(* (dacloud_cache.c, memory_cache_provider.c:117-250,                      *)
(* memcached_cache_provider.c).                                            *)
THEOREM ProvidersTypeCorrect == ProvidersSpec => []ProvidersTypeOK
<1>1. TypeInv => ProvidersTypeOK
  BY DEF TypeInv
<1> QED
  BY <1>1, TypeInvCorrect, PTL

-----------------------------------------------------------------------------
(* The clients of the pool.                                                *)

(* A client that was made is in the pool or in the hands of one thread,    *)
(* and there are never more than the pool may have.                        *)
HeldInv ==
  /\ Cardinality(made) <= size
  /\ \A t \in Thread : held[t] # NoClient => held[t] \notin idle
  /\ \A t, u \in Thread : held[t] # NoClient /\ held[t] = held[u] => t = u
  /\ \A c \in made \ idle : \E t \in Thread : held[t] = c

LEMMA HeldInit == ProvidersInit => HeldInv
<1> SUFFICES ASSUME ProvidersInit PROVE HeldInv
  OBVIOUS
<1>1. size \in Nat
  BY SizeRange, MemcachedAssumption DEF ProvidersInit, MemcachedInit
<1>2. Cardinality(made) = IF size = 0 THEN 0 ELSE 1
  BY DEF ProvidersInit, MemcachedInit
<1>3. Cardinality(made) <= size
  BY <1>1, <1>2
<1> QED
  BY <1>3 DEF ProvidersInit, MemcachedInit, HeldInv

LEMMA HeldStep ==
  ASSUME TypeInv, HeldInv, [ProvidersNext]_providerVars
  PROVE  HeldInv'
<1> USE DEF TypeInv, ProvidersTypeOK, MemcachedTypeOK
<1>a. ASSUME UNCHANGED pool
      PROVE  HeldInv'
  BY <1>a DEF HeldInv, pool
<1>1. ASSUME NEW t \in Thread, WithoutPool(t)
      PROVE  HeldInv'
  BY <1>1, <1>a DEF WithoutPool
<1>2. ASSUME NEW t \in Thread, PopIdle(t)
      PROVE  HeldInv'
  <2>1. PICK c \in idle : Holds(t, c, "ask") /\ idle' = idle \ {c}
    BY <1>2 DEF PopIdle
  <2>2. held' = [held EXCEPT ![t] = c] /\ UNCHANGED <<size, made>>
    BY <1>2, <2>1 DEF PopIdle, Holds
  <2>3. held[t] = NoClient
    BY <1>2 DEF PopIdle, InTurn, MemcachedPlaces
  <2>4. c # NoClient /\ c \in made
    BY MemcachedAssumption
  <2>5. \A u \in Thread : u # t => held[u] # c
    BY <2>4 DEF HeldInv
  <2>6. \A d \in made' \ idle' : \E u \in Thread : held'[u] = d
    <3> SUFFICES ASSUME NEW d \in made \ (idle \ {c})
                 PROVE  \E u \in Thread : held'[u] = d
      BY <2>1, <2>2
    <3>1. CASE d = c
      BY <2>2, <3>1
    <3>2. CASE d # c
      <4>1. PICK u \in Thread : held[u] = d
        BY <3>2 DEF HeldInv
      <4>2. d # NoClient
        BY MemcachedAssumption
      <4> QED
        BY <2>2, <2>3, <4>1, <4>2
    <3> QED
      BY <3>1, <3>2
  <2>7. \A u, w \in Thread : held'[u] # NoClient /\ held'[u] = held'[w] => u = w
    BY <2>2, <2>5 DEF HeldInv
  <2>8. \A u \in Thread : held'[u] # NoClient => held'[u] \notin idle'
    BY <2>1, <2>2 DEF HeldInv
  <2> QED
    BY <2>2, <2>6, <2>7, <2>8 DEF HeldInv
<1>3. ASSUME NEW t \in Thread, PopNew(t)
      PROVE  HeldInv'
  <2>1. PICK c \in Client \ made : Holds(t, c, "ask") /\ made' = made \cup {c}
    BY <1>3 DEF PopNew
  <2>2. held' = [held EXCEPT ![t] = c] /\ UNCHANGED <<size, idle>>
    BY <1>3, <2>1 DEF PopNew, Holds
  <2>3. held[t] = NoClient /\ c # NoClient
    BY <1>3, MemcachedAssumption DEF PopNew, InTurn, MemcachedPlaces
  <2>4. \A u \in Thread : held[u] # c
    BY <2>3 DEF MemcachedPlaces
  <2>5. /\ IsFiniteSet(made) /\ Cardinality(made) \in Nat
        /\ Cardinality(made \cup {c}) = Cardinality(made) + 1
    BY MemcachedAssumption, FS_Subset, FS_CardinalityType, FS_AddElement
  <2>6. size \in Nat /\ Cardinality(made) < size
    BY <1>3, MemcachedAssumption DEF PopNew, MayGrow
  <2>7. Cardinality(made') <= size'
    BY <2>1, <2>2, <2>5, <2>6
  <2>8. \A d \in made' \ idle' : \E u \in Thread : held'[u] = d
    <3> SUFFICES ASSUME NEW d \in (made \cup {c}) \ idle
                 PROVE  \E u \in Thread : held'[u] = d
      BY <2>1, <2>2
    <3>1. CASE d = c
      BY <2>2, <3>1
    <3>2. CASE d # c
      <4>1. PICK u \in Thread : held[u] = d
        BY <3>2 DEF HeldInv
      <4>2. d # NoClient
        BY <3>2, MemcachedAssumption
      <4> QED
        BY <2>2, <2>3, <4>1, <4>2
    <3> QED
      BY <3>1, <3>2
  <2>9. \A u, w \in Thread : held'[u] # NoClient /\ held'[u] = held'[w] => u = w
    BY <2>2, <2>4 DEF HeldInv
  <2>10. \A u \in Thread : held'[u] # NoClient => held'[u] \notin idle'
    BY <2>2 DEF HeldInv
  <2> QED
    BY <2>7, <2>8, <2>9, <2>10 DEF HeldInv
<1>4. ASSUME NEW t \in Thread, PopFails(t)
      PROVE  HeldInv'
  <2>1. held[t] = NoClient
    BY <1>4 DEF PopFails, InTurn, MemcachedPlaces
  <2>2. UNCHANGED <<held, idle, made, size>>
    BY <1>4, <2>1 DEF PopFails, Holds
  <2> QED
    BY <2>2 DEF HeldInv
<1>5. ASSUME NEW t \in Thread, AskGet(t) \/ AskSet(t)
      PROVE  HeldInv'
  BY <1>5 DEF AskGet, AskSet, HeldInv
<1>6. ASSUME NEW t \in Thread, Push(t)
      PROVE  HeldInv'
  <2>1. /\ idle' = idle \cup ({held[t]} \ {NoClient})
        /\ held' = [held EXCEPT ![t] = NoClient] /\ UNCHANGED <<size, made>>
    BY <1>6 DEF Push, Holds
  <2>2. \A d \in made' \ idle' : \E u \in Thread : held'[u] = d
    <3> SUFFICES ASSUME NEW d \in made, d \notin idle, d # held[t]
                 PROVE  \E u \in Thread : held'[u] = d
      <4>1. \A d \in made : d # NoClient
        BY MemcachedAssumption
      <4> QED
        BY <2>1, <4>1
    <3>1. PICK u \in Thread : held[u] = d
      BY DEF HeldInv
    <3> QED
      BY <2>1, <3>1
  <2>3. \A u, w \in Thread : held'[u] # NoClient /\ held'[u] = held'[w] => u = w
    BY <2>1 DEF HeldInv
  <2>4. \A u \in Thread : held'[u] # NoClient => held'[u] \notin idle'
    BY <2>1 DEF HeldInv
  <2> QED
    BY <2>1, <2>2, <2>3, <2>4 DEF HeldInv
<1>7. CASE Forget
  BY <1>7 DEF Forget, HeldInv
<1>8. ASSUME NEW t \in Thread, MockProvider(t)
      PROVE  HeldInv'
  BY <1>8, <1>a DEF MockProvider
<1>9. Users \subseteq Thread
  BY TailqAssumption DEF Users
<1>10. CASE UNCHANGED providerVars
  BY <1>10, <1>a DEF providerVars
<1> QED
  BY <1>a, <1>1, <1>2, <1>3, <1>4, <1>5, <1>6, <1>7, <1>8, <1>9, <1>10
     DEF ProvidersNext, Provider, MemcachedProvider

LEMMA HeldCorrect == ProvidersSpec => []HeldInv
<1>1. ProvidersInit => HeldInv
  BY HeldInit
<1>2. TypeInv /\ HeldInv /\ [ProvidersNext]_providerVars => HeldInv'
  BY HeldStep
<1> QED
  BY <1>1, <1>2, TypeInvCorrect, PTL DEF ProvidersSpec

(* However the pop, the request and the push of the threads interleave,    *)
(* and whatever fails between them, no client is used by two threads, none *)
(* is lost, and there are never more than cores                            *)
(* (memcached_cache_provider.c:49-54, 65-70).                              *)
THEOREM ClientsAreConserved == ProvidersSpec => []ClientsConserved
<1>1. TypeInv /\ HeldInv => ClientsConserved
  <2> SUFFICES ASSUME TypeInv, HeldInv, NEW c \in made
               PROVE  Cardinality(Holder(c)) = (IF c \in idle THEN 0 ELSE 1)
    BY DEF ClientsConserved, HeldInv
  <2>1. c # NoClient
    BY MemcachedAssumption DEF TypeInv, ProvidersTypeOK, MemcachedTypeOK
  <2>2. CASE c \in idle
    <3>1. Holder(c) = {}
      BY <2>1, <2>2 DEF HeldInv, Holder
    <3> QED
      BY <2>2, <3>1, FS_EmptySet
  <2>3. CASE c \notin idle
    <3>1. PICK t \in Thread : held[t] = c
      BY <2>3 DEF HeldInv
    <3>2. Holder(c) = {t}
      BY <2>1, <3>1 DEF HeldInv, Holder
    <3> QED
      BY <2>3, <3>2, FS_Singleton
  <2> QED
    BY <2>2, <2>3
<1> QED
  BY <1>1, TypeInvCorrect, HeldCorrect, PTL

-----------------------------------------------------------------------------
(* Refinement of CacheSpec.                                                *)

(* Everything a get may come upon was offered under the key it is found    *)
(* under: what the entries and the server hold, and what is on its way.    *)
OriginInv ==
  /\ \A e \in Entry : pair[e] = <<NoKey, NoValue>> \/ pair[e] \in offered
  /\ \A k \in Key : server[k] # NoValue => <<k, server[k]>> \in offered
  /\ \A t \in Thread :
       /\ stage[t] = "busy" /\ call[t].op = "set" => <<call[t].key, call[t].val>> \in offered
       /\ got[t] # NoValue => <<call[t].key, got[t]>> \in offered

LEMMA OriginInit == ProvidersInit => OriginInv
BY DEF ProvidersInit, InterfaceInit, TailqInit, MemcachedInit, OriginInv

LEMMA OriginStep ==
  ASSUME TypeInv, OriginInv, [ProvidersNext]_providerVars
  PROVE  OriginInv'
<1> USE DEF TypeInv, ProvidersTypeOK, TailqTypeOK, InterfaceTypeOK, MemcachedTypeOK
<1>a. Users \subseteq Thread
  BY TailqAssumption DEF Users
<1>b. ASSUME NEW t \in Thread, stage' = [stage EXCEPT ![t] = "done"],
             UNCHANGED <<call, missed, offered, pair, got, server>>
      PROVE  OriginInv'
  BY <1>b DEF OriginInv
<1>c. ASSUME UNCHANGED <<interface, pair, got, server>>
      PROVE  OriginInv'
  BY <1>c DEF OriginInv, interface
<1>1. ASSUME NEW t \in Thread, NEW c \in Calls, Invoke(t, c),
             UNCHANGED <<tailqVars, pool, cops>>
      PROVE  OriginInv'
  <2>1. offered \subseteq offered' /\ (c.op = "set" => <<c.key, c.val>> \in offered')
    BY <1>1 DEF Invoke
  <2>2. UNCHANGED <<pair, server, got>>
    BY <1>1 DEF tailqVars, list, pool
  <2>3. got[t] = NoValue
    BY <1>1 DEF MemcachedPlaces, Invoke
  <2>4. \A u \in Thread : u # t => stage'[u] = stage[u] /\ call'[u] = call[u]
    BY <1>1 DEF Invoke
  <2>5. stage'[t] = "busy" /\ call'[t] = c
    BY <1>1 DEF Invoke
  <2> QED
    BY <2>1, <2>2, <2>3, <2>4, <2>5 DEF OriginInv
<1>2. ASSUME NEW t \in Thread, Collect(t), UNCHANGED <<tailqVars, pool, cops>>
      PROVE  OriginInv'
  <2>1. UNCHANGED <<pair, server, got, offered>>
    BY <1>2 DEF Collect, tailqVars, list, pool
  <2>2. got[t] = NoValue
    BY <1>2 DEF MemcachedPlaces, Collect
  <2>3. \A u \in Thread : u # t => stage'[u] = stage[u] /\ call'[u] = call[u]
    BY <1>2 DEF Collect
  <2>4. stage'[t] = "idle"
    BY <1>2 DEF Collect
  <2> QED
    BY <2>1, <2>2, <2>3, <2>4 DEF OriginInv
<1>3. ASSUME NEW t \in Thread, Fill(t), UNCHANGED <<pool, cops>>
      PROVE  OriginInv'
  <2>1. /\ pair' = [pair EXCEPT ![mce[t]] = <<call[t].key, call[t].val>>]
        /\ UNCHANGED <<interface, got, server>>
    BY <1>3 DEF Fill, pool
  <2>2. <<call[t].key, call[t].val>> \in offered
    BY <1>3 DEF Fill, At, TailqPlaces, OriginInv
  <2> QED
    BY <2>1, <2>2 DEF OriginInv, interface
<1>4. ASSUME NEW t \in Thread, TailqProvider(t), UNCHANGED <<pool, cops>>
      PROVE  OriginInv'
  BY <1>3, <1>4, <1>b, <1>c
     DEF TailqProvider, GetSpent, GetScan, ScanOn, ScanFound, ScanMissed, Emptied, Detach, Skip,
         Alloc, NoRoom, Insert, Link, End, Return, list, pool
<1>5. ASSUME NEW t \in Thread, AskGet(t), UNCHANGED <<tailqVars, cops>>
      PROVE  OriginInv'
  <2>1. call[t].key \in Key
    BY <1>5, CallFacts DEF AskGet, InTurn
  <2>2. /\ UNCHANGED <<interface, server, pair>>
        /\ \A u \in Thread : got'[u] = got[u] \/ (u = t /\ got'[u] = server[call[t].key])
    BY <1>5 DEF AskGet, tailqVars, list
  <2> QED
    BY <2>1, <2>2 DEF OriginInv, interface
<1>6. ASSUME NEW t \in Thread, AskSet(t), UNCHANGED <<tailqVars, cops>>
      PROVE  OriginInv'
  <2>1. <<call[t].key, call[t].val>> \in offered
    BY <1>6 DEF AskSet, InTurn, OriginInv
  <2>2. /\ UNCHANGED <<interface, got, pair>>
        /\ \A k \in Key : \/ server'[k] = server[k]
                          \/ k = call[t].key /\ server'[k] = call[t].val
    BY <1>6 DEF AskSet, tailqVars, list
  <2> QED
    BY <2>1, <2>2 DEF OriginInv, interface
<1>7. ASSUME NEW t \in Thread, Push(t), UNCHANGED <<tailqVars, cops>>
      PROVE  OriginInv'
  <2>1. /\ stage' = [stage EXCEPT ![t] = "done"] /\ got' = [got EXCEPT ![t] = NoValue]
        /\ UNCHANGED <<call, offered, server, pair>>
    BY <1>7 DEF Push, Answered, tailqVars, list
  <2> QED
    BY <2>1 DEF OriginInv
<1>8. ASSUME NEW t \in Thread, MemcachedProvider(t), UNCHANGED <<tailqVars, cops>>
      PROVE  OriginInv'
  BY <1>5, <1>6, <1>7, <1>8, <1>b, <1>c
     DEF MemcachedProvider, WithoutPool, PopIdle, PopNew, PopFails, Answered, tailqVars, list, pool
<1>9. ASSUME NEW t \in Thread, MockProvider(t)
      PROVE  OriginInv'
  BY <1>9, <1>b DEF MockProvider, tailqVars, list, pool
<1>10. CASE Forget /\ UNCHANGED <<tailqVars, cops>>
  <2>1. /\ UNCHANGED <<interface, got, pair>>
        /\ \A k \in Key : server'[k] = server[k] \/ server'[k] = NoValue
    BY <1>10 DEF Forget, tailqVars, list
  <2> QED
    BY <2>1 DEF OriginInv, interface
<1>11. CASE UNCHANGED providerVars
  BY <1>11, <1>c DEF providerVars, tailqVars, list, pool
<1> QED
  BY <1>a, <1>1, <1>2, <1>4, <1>8, <1>9, <1>10, <1>11 DEF ProvidersNext, Provider,
     ClientNext

LEMMA OriginCorrect == ProvidersSpec => []OriginInv
<1>1. ProvidersInit => OriginInv
  BY OriginInit
<1>2. TypeInv /\ OriginInv /\ [ProvidersNext]_providerVars => OriginInv'
  BY OriginStep
<1> QED
  BY <1>1, <1>2, TypeInvCorrect, PTL DEF ProvidersSpec

(* A thread that returns the value v has taken a step of CacheSpec.        *)
LEMMA Completes ==
  ASSUME NEW t \in Thread, NEW v \in Value \cup {NoValue}, stage[t] = "busy",
         v = NoValue \/ (call[t].op = "get" /\ <<call[t].key, v>> \in offered),
         stage' = [stage EXCEPT ![t] = "done"], ans' = [ans EXCEPT ![t] = v],
         UNCHANGED <<call, missed, offered>>
  PROVE  Cache!Next
<1>1. v \in Cache!Answers(call[t])
  BY DEF Cache!Answers
<1>2. Cache!Complete(t)
  BY <1>1 DEF Cache!Complete
<1> QED
  BY <1>2 DEF Cache!Next

(* Each step of a provider is a step of CacheSpec or leaves the interface  *)
(* alone, also where several threads use the list that has no lock: an     *)
(* entry is found by its key and answers what was set with it              *)
(* (memory_cache_provider.c:200-208, memcached_cache_provider.c:49-70).    *)
THEOREM ProvidersKeepContract == ProvidersSpec => CacheContract
<1>1. ProvidersInit => Cache!InterfaceInit
  BY DEF ProvidersInit, InterfaceInit, Cache!InterfaceInit, Cache!NoCall, NoCall
<1>2. TypeInv /\ OriginInv /\ [ProvidersNext]_providerVars => [Cache!Next]_(Cache!interface)
  <2> SUFFICES ASSUME TypeInv, OriginInv, [ProvidersNext]_providerVars
               PROVE  Cache!Next \/ UNCHANGED Cache!interface
    OBVIOUS
  <2> USE DEF TypeInv, ProvidersTypeOK, TailqTypeOK, InterfaceTypeOK, MemcachedTypeOK
  <2>a. Users \subseteq Thread
    BY TailqAssumption DEF Users
  <2>b. UNCHANGED interface => UNCHANGED Cache!interface
    BY DEF interface, Cache!interface
  <2>1. ASSUME NEW t \in Thread, ClientNext(t)
        PROVE  Cache!Next
    <3>1. Cache!ClientNext(t)
      BY <2>1 DEF ClientNext, Invoke, Collect, Calls, GetCall, SetCall, NoCall, Missed,
         Cache!ClientNext, Cache!Invoke, Cache!Collect, Cache!Calls, Cache!GetCall,
         Cache!SetCall, Cache!NoCall, Cache!Missed
    <3> QED
      BY <3>1 DEF Cache!Next
  <2>2. ASSUME NEW t \in Thread, MockProvider(t)
        PROVE  Cache!Next
    <3>1. ans[t] = NoValue /\ ans' = [ans EXCEPT ![t] = NoValue]
      BY <2>2 DEF MockProvider, MemcachedPlaces
    <3> QED
      BY <2>2, <3>1, Completes DEF MockProvider
  <2>3. ASSUME NEW t \in Thread, stage[t] = "busy", Return(t, NoValue)
        PROVE  Cache!Next
    BY <2>3, Completes DEF Return
  <2>4. ASSUME NEW t \in Thread, ScanFound(t)
        PROVE  Cache!Next
    <3> DEFINE e == mce[t]
    <3>1. /\ stage[t] = "busy" /\ e \in Entry /\ pair[e][1] = call[t].key
          /\ call[t].op = "get"
      BY <2>4 DEF ScanFound, Found, At, TailqPlaces
    <3>2. pair[e][1] # NoKey
      BY <3>1, CallFacts, InterfaceAssumption
    <3>3. pair[e] \in offered
      BY <3>1, <3>2 DEF OriginInv
    <3>4. pair[e] = <<call[t].key, pair[e][2]>> /\ pair[e][2] \in Value
      BY <3>1, <3>3
    <3>5. CASE Return(t, pair[e][2])
      BY <3>1, <3>3, <3>4, <3>5, Completes DEF Return
    <3> QED
      BY <2>3, <2>4, <3>1, <3>5 DEF ScanFound
  <2>5. ASSUME NEW t \in Thread, TailqProvider(t)
        PROVE  Cache!Next \/ UNCHANGED interface
    BY <2>3, <2>4, <2>5
       DEF TailqProvider, GetSpent, GetScan, ScanOn, ScanMissed, Emptied, Detach, Skip,
           Alloc, NoRoom, Fill, Insert, Link, End, At
  <2>6. ASSUME NEW t \in Thread, stage[t] = "busy", Answered(t)
        PROVE  Cache!Next
    BY <2>6, Completes DEF Answered, OriginInv, MemcachedPlaces
  <2>7. ASSUME NEW t \in Thread, MemcachedProvider(t)
        PROVE  Cache!Next \/ UNCHANGED interface
    BY <2>6, <2>7 DEF MemcachedProvider, WithoutPool, PopIdle, PopNew, PopFails,
       AskGet, AskSet,
       Push, InTurn
  <2>8. CASE Forget
    BY <2>8, <2>b DEF Forget
  <2>9. CASE UNCHANGED providerVars
    BY <2>9, <2>b DEF providerVars
  <2> QED
    BY <2>a, <2>b, <2>1, <2>2, <2>5, <2>7, <2>8, <2>9 DEF ProvidersNext, Provider
<1> QED
  BY <1>1, <1>2, TypeInvCorrect, OriginCorrect, PTL DEF ProvidersSpec, CacheContract,
     Cache!Spec

-----------------------------------------------------------------------------
(* The list, for one thread that uses it.                                  *)

(* s is the list the next fields tie, entries in the order they were       *)
(* carved; the prev fields of s, and last, agree with it.                  *)
Threaded(s) ==
  /\ next[Root] = IF s = <<>> THEN Null ELSE s[1]
  /\ \A i \in 1 .. Len(s) : next[s[i]] = IF i = Len(s) THEN Null ELSE s[i + 1]

Carved(s) ==
  \A i \in 1 .. Len(s) : i <= s[i] /\ s[i] <= top /\ \A j \in 1 .. i - 1 : s[j] < s[i]

Backed(s) == \A i \in 1 .. Len(s) : prev[s[i]] = IF i = 1 THEN Root ELSE s[i - 1]

Ended(s) == last = IF s = <<>> THEN Root ELSE s[Len(s)]

(* What thread u, between two writes, has left undone.                     *)
TiedInv(u, s) ==
  /\ Carved(s) /\ Threaded(s)
  /\ cops # "memory" => s = <<>>
  /\ step[u] \notin {"detached", "end"} => Backed(s) /\ Ended(s)
  /\ step[u] = "detached" => /\ s # <<>> /\ mce[u] = s[1] /\ prev[s[1]] = Root
                             /\ Backed(Tail(s)) /\ Ended(Tail(s))
  /\ step[u] = "end" => s # <<>> /\ mce[u] = s[Len(s)] /\ Backed(s) /\ last = prev[mce[u]]
  /\ step[u] = "empty" => mce[u] = next[Root]
  /\ step[u] = "scan" =>
       \E i \in 1 .. Len(s) + 1 :
         /\ mce[u] = IF i > Len(s) THEN Null ELSE s[i]
         /\ \A j \in 1 .. i - 1 : pair[s[j]][1] # call[u].key
  /\ step[u] = "fill" => mce[u] = top + 1
  /\ step[u] \in {"insert", "link"} =>
       /\ mce[u] = top /\ \A i \in 1 .. Len(s) : s[i] < top
       /\ pair[mce[u]] = <<call[u].key, call[u].val>>
  /\ step[u] = "link" => next[mce[u]] = Null /\ prev[mce[u]] = last

(* A thread may set only what its get has missed, and a get that misses    *)
(* once the counter is spent has emptied the list.                         *)
MayLink(u) ==
  \/ missed[u] # NoKey
  \/ stage[u] = "done" /\ call[u].op = "get"
  \/ stage[u] = "busy" /\ call[u].op = "set" /\ step[u] # "end"

CountInv(u, s) ==
  /\ stage[u] # "idle" => missed[u] = NoKey
  /\ Spent(cnt) /\ MayLink(u) => s = <<>>
  /\ step[u] = "scan" => ~Spent(cnt)
  /\ step[u] = "end" => Len(s) <= IF Spent(cnt) THEN 1 ELSE cnt + 1
  /\ step[u] # "end" => Len(s) <= IF cnt > HASH_THRESHOLD THEN 1 ELSE cnt
  /\ Len(s) <= HASH_THRESHOLD

ListInv(u) == \E s \in Seq(Entry) : TiedInv(u, s) /\ CountInv(u, s)

-----------------------------------------------------------------------------
(* A set of numbers that is not empty has a least one; this is how what    *)
(* holds along a list is proved from one entry to the next.                *)
LEMMA LeastNumber ==
  ASSUME NEW S, S \subseteq Nat, S # {}
  PROVE  \E n \in S : \A m \in S : n <= m
<1> DEFINE R == OpToRel(<, Nat)
<1>1. IsWellFoundedOn(R, Nat)
  BY NatLessThanWellFounded, Zenon
<1>2. \A m, n \in Nat : m < n => <<m, n>> \in R
  BY DEF OpToRel
<1>3. PICK n \in S : \A m \in S : ~ (<<m, n>> \in R)
  <2> HIDE DEF R
  <2> QED
    BY <1>1, WFMin, Zenon
<1>4. ASSUME NEW m \in S
      PROVE  n <= m
  <2> HIDE DEF R
  <2>1. n \in Nat /\ m \in Nat /\ ~ (m < n)
    BY <1>2, <1>3
  <2> QED
    BY <2>1
<1> QED
  BY <1>4

(* The list that is followed from the head is the one the fields tie.      *)
LEMMA PathIs ==
  ASSUME NEW s \in Seq(Entry), Len(s) <= MaxEntries, NEW nx,
         nx[Root] = IF s = <<>> THEN Null ELSE s[1],
         \A i \in 1 .. Len(s) : nx[s[i]] = IF i = Len(s) THEN Null ELSE s[i + 1]
  PROVE  Path(nx) = s
<1> DEFINE N == 0 .. MaxEntries + 1
           Follow(g, n) == IF n = 0 THEN Root ELSE IF g[n - 1] = Null THEN Null ELSE nx[g[n - 1]]
           at == CHOOSE g : g = [n \in N |-> Follow(g, n)]
           h == [n \in N |-> IF n = 0 THEN Root ELSE IF n <= Len(s) THEN s[n] ELSE Null]
<1>0. /\ Len(s) \in Nat /\ MaxEntries \in Nat /\ \A i \in 1 .. Len(s) : s[i] \in Entry
      /\ s = [i \in 1 .. Len(s) |-> s[i]] /\ (s = <<>> <=> Len(s) = 0)
      /\ Root # Null /\ Null \notin Entry
  BY TailqAssumption DEF Root, Null, Entry
<1>1. h = [n \in N |-> Follow(h, n)]
  <2> SUFFICES ASSUME NEW n \in N
               PROVE  h[n] = Follow(h, n)
    OBVIOUS
  <2>1. CASE n = 0
    BY <2>1
  <2>2. CASE n # 0
    <3>1. n - 1 \in N /\ n \in Nat
      BY <1>0, <2>2
    <3>2. CASE n = 1
      BY <1>0, <3>1, <3>2
    <3>3. CASE n > 1 /\ n - 1 <= Len(s)
      <4>1. h[n - 1] = s[n - 1] /\ n - 1 \in 1 .. Len(s)
        BY <1>0, <3>1, <3>3
      <4>2. nx[s[n - 1]] = IF n - 1 = Len(s) THEN Null ELSE s[n]
        BY <1>0, <3>1, <4>1
      <4>3. h[n] = IF n - 1 = Len(s) THEN Null ELSE s[n]
        BY <1>0, <3>1, <3>3
      <4> QED
        BY <1>0, <2>2, <4>1, <4>2, <4>3
    <3>4. CASE n - 1 > Len(s)
      BY <1>0, <2>2, <3>1, <3>4
    <3> QED
      BY <1>0, <2>2, <3>1, <3>2, <3>3, <3>4
  <2> QED
    BY <2>1, <2>2
<1>2. at = [n \in N |-> Follow(at, n)]
  <2> HIDE DEF h, N
  <2> QED
    BY <1>1, Zenon
<1>3. \A n \in N : at[n] = h[n]
  <2> HIDE DEF at, h
  <2> SUFFICES ASSUME NEW m \in N, at[m] # h[m]
               PROVE  FALSE
    OBVIOUS
  <2> DEFINE S == {n \in N : at[n] # h[n]}
  <2>1. PICK n \in S : \A k \in S : n <= k
    <3>1. S \subseteq Nat /\ S # {}
      BY <1>0
    <3> HIDE DEF S
    <3> QED
      BY <3>1, LeastNumber
  <2>2. n # 0
    BY <1>0, <1>1, <1>2, <2>1
  <2>3. n - 1 \in N /\ n \in Nat /\ n - 1 \notin S
    BY <1>0, <2>1, <2>2
  <2>4. at[n - 1] = h[n - 1]
    BY <2>3
  <2>5. at[n] = Follow(at, n) /\ h[n] = Follow(h, n)
    <3> HIDE DEF Follow
    <3> QED
      BY <1>1, <1>2, <2>1
  <2> QED
    BY <2>1, <2>4, <2>5
<1>4. {m \in 1 .. MaxEntries : at[m] # Null} = 1 .. Len(s)
  <2> HIDE DEF at
  <2>1. \A m \in 1 .. MaxEntries : at[m] = IF m <= Len(s) THEN s[m] ELSE Null
    BY <1>0, <1>3
  <2> QED
    BY <1>0, <2>1
<1>5. Cardinality(1 .. Len(s)) = Len(s)
  <2>1. \A n \in Nat : Cardinality(1 .. n) = IF 1 > n THEN 0 ELSE n - 1 + 1
    BY FS_Interval
  <2>2. \A n \in Nat : (IF 1 > n THEN 0 ELSE n - 1 + 1) = n
    OBVIOUS
  <2> QED
    BY <1>0, <2>1, <2>2
<1>6. Path(nx) = [n \in 1 .. Cardinality({m \in 1 .. MaxEntries : at[m] # Null}) |-> at[n]]
  BY Zenon DEF Path
<1>7. Path(nx) = [n \in 1 .. Len(s) |-> at[n]]
  <2> HIDE DEF at
  <2> QED
    BY <1>4, <1>5, <1>6
<1>8. [n \in 1 .. Len(s) |-> at[n]] = [n \in 1 .. Len(s) |-> s[n]]
  <2> HIDE DEF at
  <2> QED
    BY <1>0, <1>3
<1> QED
  BY <1>0, <1>7, <1>8

LEMMA TailFacts ==
  ASSUME NEW C, NEW s \in Seq(C), s # <<>>
  PROVE  /\ Tail(s) \in Seq(C) /\ Len(Tail(s)) = Len(s) - 1
         /\ \A i \in 1 .. Len(s) - 1 : Tail(s)[i] = s[i + 1]
         /\ (Tail(s) = <<>> <=> Len(s) = 1)
<1>1. Tail(s) \in Seq(C) /\ Len(Tail(s)) = Len(s) - 1 /\ Len(s) \in Nat
  OBVIOUS
<1>2. \A i \in 1 .. Len(s) - 1 : Tail(s)[i] = s[i + 1]
  OBVIOUS
<1>3. Tail(s) = <<>> <=> Len(Tail(s)) = 0
  BY <1>1
<1> QED
  BY <1>1, <1>2, <1>3

LEMMA AppendFacts ==
  ASSUME NEW C, NEW s \in Seq(C), NEW e \in C
  PROVE  /\ Append(s, e) \in Seq(C) /\ Len(Append(s, e)) = Len(s) + 1 /\ Append(s, e) # <<>>
         /\ Append(s, e)[Len(s) + 1] = e
         /\ \A i \in 1 .. Len(s) : Append(s, e)[i] = s[i]
<1>1. Append(s, e) \in Seq(C) /\ Len(Append(s, e)) = Len(s) + 1 /\ Len(s) \in Nat
  OBVIOUS
<1>2. Append(s, e) # <<>>
  BY <1>1
<1>3. Append(s, e)[Len(s) + 1] = e
  OBVIOUS
<1>4. \A i \in 1 .. Len(s) : Append(s, e)[i] = s[i]
  OBVIOUS
<1> QED
  BY <1>1, <1>2, <1>3, <1>4

LEMMA ListFacts ==
  ASSUME NEW s \in Seq(Entry), Carved(s), top \in 0 .. MaxEntries
  PROVE  /\ Len(s) \in Nat /\ (s = <<>> <=> Len(s) = 0) /\ Len(s) <= MaxEntries
         /\ \A i \in 1 .. Len(s) : s[i] \in Entry /\ s[i] \in Nat /\ s[i] <= top
         /\ \A i, j \in 1 .. Len(s) : s[i] = s[j] => i = j
         /\ Root \notin Entry /\ Null \notin Entry /\ Root # Null
<1>1. Len(s) \in Nat /\ (s = <<>> <=> Len(s) = 0) /\ MaxEntries \in Nat
  BY TailqAssumption
<1>2. \A i \in 1 .. Len(s) : s[i] \in Entry /\ s[i] \in Nat /\ s[i] <= top /\ i <= s[i]
  BY <1>1 DEF Carved, Entry
<1>3. \A i \in 1 .. Len(s) : \A j \in 1 .. i - 1 : s[j] < s[i]
  BY DEF Carved
<1>4. ASSUME NEW i \in 1 .. Len(s), NEW j \in 1 .. Len(s), s[i] = s[j]
      PROVE  i = j
  <2>1. i \in Nat /\ j \in Nat /\ s[i] \in Nat
    BY <1>1, <1>2
  <2>2. CASE i < j
    BY <1>1, <1>3, <1>4, <2>1, <2>2
  <2>3. CASE j < i
    BY <1>1, <1>3, <1>4, <2>1, <2>3
  <2> QED
    BY <2>1, <2>2, <2>3
<1>5. Len(s) <= MaxEntries
  BY <1>1, <1>2
<1> QED
  BY <1>1, <1>2, <1>4, <1>5 DEF Root, Null, Entry

LEMMA ListInit ==
  ASSUME NEW u \in User, ProvidersInit
  PROVE  ListInv(u)
<1> DEFINE s == <<>>
<1>1. s \in Seq(Entry) /\ Len(s) = 0 /\ u \in Thread
  BY TailqAssumption
<1>2. cnt \in Nat
  BY TailqAssumption DEF ProvidersInit, TailqInit
<1>3. Carved(s) /\ Threaded(s) /\ Backed(s) /\ Ended(s)
  BY <1>1 DEF Carved, Threaded, Backed, Ended, ProvidersInit, TailqInit
<1>4. step[u] = "out" /\ missed[u] = NoKey /\ stage[u] = "idle"
  BY <1>1 DEF ProvidersInit, TailqInit, InterfaceInit
<1>5. TiedInv(u, s)
  BY <1>3, <1>4 DEF TiedInv
<1>6. CountInv(u, s)
  BY <1>1, <1>2, <1>4, TailqAssumption DEF CountInv, MayLink
<1> QED
  BY <1>1, <1>5, <1>6 DEF ListInv

(* A step that writes no field of an entry or of the list.                 *)
LEMMA TiedKept ==
  ASSUME NEW u \in User, NEW s, UNCHANGED <<next, prev, last, top, cops>>
  PROVE  /\ Threaded(s)' <=> Threaded(s)
         /\ Carved(s)' <=> Carved(s)
         /\ Backed(s)' <=> Backed(s)
         /\ Ended(s)' <=> Ended(s)
BY DEF Threaded, Carved, Backed, Ended

LEMMA ClientListStep ==
  ASSUME TypeInv, NEW u \in User, User = {u}, NEW s \in Seq(Entry), TiedInv(u, s), CountInv(u, s),
         NEW t \in Users, ClientNext(t), UNCHANGED <<tailqVars, pool, cops>>
  PROVE  TiedInv(u, s)' /\ CountInv(u, s)'
<1>0. t \in Thread /\ u \in Thread
  BY TailqAssumption DEF Users
<1> USE DEF TypeInv, ProvidersTypeOK, TailqTypeOK, InterfaceTypeOK, tailqVars, list
<1>1. step[t] = "out" /\ stage[t] \in {"idle", "done"}
  BY <1>0 DEF TailqPlaces, ClientNext, Invoke, Collect, Steps
<1>2. u # t => stage'[u] = stage[u] /\ call'[u] = call[u] /\ missed'[u] = missed[u]
  BY <1>0 DEF ClientNext, Invoke, Collect
<1>3. TiedInv(u, s)'
  <2>1. step[u] # "out" => call'[u] = call[u]
    BY <1>1, <1>2
  <2> QED
    BY <2>1, TiedKept DEF TiedInv
<1> SUFFICES CountInv(u, s)'
  BY <1>3
<1>4. CASE u # t
  BY <1>2, <1>4 DEF CountInv, MayLink
<1>5. CASE u = t
  <2>1. ASSUME NEW c \in Calls, Invoke(u, c)
        PROVE  CountInv(u, s)'
    <3>1. stage'[u] = "busy" /\ call'[u] = c /\ missed'[u] = NoKey
      BY <1>0, <2>1 DEF Invoke
    <3>2. c.op = "set" => missed[u] # NoKey
      BY <2>1, CallFacts, InterfaceAssumption DEF Invoke
    <3>3. step'[u] = "out" /\ step[u] = "out" /\ cnt' = cnt
      BY <1>1, <1>5
    <3>4. MayLink(u)' => MayLink(u)
      BY <3>1, <3>2, <3>3 DEF MayLink
    <3> QED
      BY <3>1, <3>3, <3>4 DEF CountInv
  <2>2. CASE Collect(u)
    <3>1. stage'[u] = "idle" /\ (missed'[u] # NoKey => call[u].op = "get") /\ stage[u] = "done"
      BY <1>0, <2>2 DEF Collect, Missed
    <3>2. step'[u] = "out" /\ step[u] = "out" /\ cnt' = cnt
      BY <1>1, <1>5
    <3>3. MayLink(u)' => MayLink(u)
      BY <3>1 DEF MayLink
    <3> QED
      BY <3>1, <3>2, <3>3 DEF CountInv
  <2> QED
    BY <1>5, <2>1, <2>2 DEF ClientNext
<1> QED
  BY <1>4, <1>5

(* A thread of another provider leaves the list as init has made it.       *)
LEMMA OtherListStep ==
  ASSUME TypeInv, NEW u \in User, NEW s \in Seq(Entry), TiedInv(u, s), CountInv(u, s),
         cops # "memory", UNCHANGED <<tailqVars, cops, missed, call>>,
         NEW t \in Thread, stage[t] = "busy",
         stage' = [stage EXCEPT ![t] = "done"] \/ UNCHANGED stage
  PROVE  TiedInv(u, s)' /\ CountInv(u, s)'
<1> USE DEF TypeInv, ProvidersTypeOK, TailqTypeOK, InterfaceTypeOK, tailqVars, list
<1>0. u \in Thread /\ step[u] = "out" /\ s = <<>> /\ Len(s) = 0
  BY TailqAssumption DEF TailqPlaces, TiedInv
<1>1. TiedInv(u, s)'
  BY <1>0, TiedKept DEF TiedInv
<1>2. stage'[u] # "idle" => stage[u] # "idle"
  BY <1>0
<1>3. CountInv(u, s)'
  BY <1>0, <1>2 DEF CountInv
<1> QED
  BY <1>1, <1>3

(* The scan and its end leave the list alone.                              *)
LEMMA ScanListStep ==
  ASSUME TypeInv, NEW u \in User, NEW s \in Seq(Entry), TiedInv(u, s), CountInv(u, s),
         cops = "memory", cops' = cops, GetSpent(u) \/ GetScan(u) \/ ScanOn(u)
  PROVE  TiedInv(u, s)' /\ CountInv(u, s)'
<1> USE DEF TypeInv, ProvidersTypeOK, TailqTypeOK, list, At
<1>0. u \in Thread
  BY TailqAssumption
<1>1. /\ Len(s) \in Nat /\ (s = <<>> <=> Len(s) = 0)
      /\ \A i \in 1 .. Len(s) : s[i] \in Entry
      /\ Null \notin Entry
  BY ListFacts DEF TiedInv
<1>2. UNCHANGED <<interface, pair, next, prev, last, cnt, top>>
  BY DEF GetSpent, GetScan, ScanOn
<1>3. call[u].op = "get" /\ stage[u] = "busy"
  BY <1>0 DEF GetSpent, GetScan, ScanOn, TailqPlaces
<1>4. step[u] \in {"out", "scan"}
  BY DEF GetSpent, GetScan, ScanOn
<1>5. step'[u] \in {"empty", "scan"}
  BY <1>0 DEF GetSpent, GetScan, ScanOn, Move
<1>6. step'[u] = "empty" => mce'[u] = next[Root]
  BY <1>0 DEF GetSpent, GetScan, ScanOn, Move
<1>7. step'[u] = "scan" => ~Spent(cnt)
  BY <1>0 DEF GetSpent, GetScan, ScanOn, Move, CountInv
<1>8. ASSUME step'[u] = "scan"
      PROVE  \E i \in 1 .. Len(s) + 1 :
               /\ mce'[u] = IF i > Len(s) THEN Null ELSE s[i]
               /\ \A j \in 1 .. i - 1 : pair[s[j]][1] # call[u].key
  <2>1. CASE GetSpent(u) \/ GetScan(u)
    <3>1. mce'[u] = next[Root]
      BY <1>0, <2>1 DEF GetSpent, GetScan, Move
    <3>2. mce'[u] = IF 1 > Len(s) THEN Null ELSE s[1]
      BY <1>1, <3>1 DEF TiedInv, Threaded
    <3>3. 1 \in 1 .. Len(s) + 1 /\ \A j \in 1 .. 1 - 1 : FALSE
      BY <1>1
    <3> QED
      BY <3>2, <3>3
  <2>2. CASE ScanOn(u)
    <3>1. PICK i \in 1 .. Len(s) + 1 :
                 /\ mce[u] = IF i > Len(s) THEN Null ELSE s[i]
                 /\ \A j \in 1 .. i - 1 : pair[s[j]][1] # call[u].key
      BY <2>2 DEF ScanOn, TiedInv
    <3>2. i \in 1 .. Len(s) /\ mce[u] = s[i] /\ i \in Nat
      BY <1>1, <2>2, <3>1 DEF ScanOn
    <3>3. mce'[u] = next[s[i]]
      BY <1>0, <2>2, <3>2 DEF ScanOn, Move
    <3>4. next[s[i]] = IF i = Len(s) THEN Null ELSE s[i + 1]
      BY <3>2 DEF TiedInv, Threaded
    <3>5. mce'[u] = IF i + 1 > Len(s) THEN Null ELSE s[i + 1]
      BY <1>1, <3>2, <3>3, <3>4
    <3>6. pair[s[i]][1] # call[u].key
      BY <2>2, <3>2 DEF ScanOn
    <3>7. \A j \in 1 .. (i + 1) - 1 : j = i \/ j \in 1 .. i - 1
      BY <3>2
    <3>8. i + 1 \in 1 .. Len(s) + 1
      BY <1>1, <3>2
    <3> QED
      BY <3>1, <3>5, <3>6, <3>7, <3>8
  <2> QED
    BY <2>1, <2>2
<1>9. TiedInv(u, s)'
  BY <1>2, <1>4, <1>5, <1>6, <1>8, TiedKept DEF TiedInv, interface
<1>10. CountInv(u, s)'
  <2>1. missed[u] = NoKey
    BY <1>3 DEF CountInv
  <2>2. ~MayLink(u)' /\ UNCHANGED <<stage, missed, cnt>>
    BY <1>2, <1>3, <2>1 DEF MayLink, interface
  <2> QED
    BY <1>4, <1>5, <1>7, <2>1, <2>2 DEF CountInv, Spent
<1> QED
  BY <1>9, <1>10

LEMMA ReturnListStep ==
  ASSUME TypeInv, NEW u \in User, NEW s \in Seq(Entry), TiedInv(u, s), CountInv(u, s),
         cops = "memory", cops' = cops,
         ScanFound(u) \/ ScanMissed(u) \/ Emptied(u) \/ NoRoom(u)
  PROVE  TiedInv(u, s)' /\ CountInv(u, s)'
<1> USE DEF TypeInv, ProvidersTypeOK, TailqTypeOK, list, At
<1>0. u \in Thread
  BY TailqAssumption
<1>1. UNCHANGED <<pair, next, prev, last, cnt>>
  BY DEF ScanFound, ScanMissed, Emptied, NoRoom
<1>2. top' \in {top, top + 1} /\ top \in Nat
  BY TailqAssumption DEF ScanFound, ScanMissed, Emptied, NoRoom
<1>3. /\ step[u] \in {"scan", "empty", "out"} /\ step'[u] = "out"
      /\ stage[u] = "busy" /\ stage'[u] = "done" /\ UNCHANGED <<call, missed>>
  BY <1>0 DEF ScanFound, ScanMissed, Emptied, NoRoom, Return, Move, InterfaceTypeOK
<1>4. Carved(s)'
  <2>1. Len(s) \in Nat /\ \A i \in 1 .. Len(s) : s[i] \in Nat
    BY ListFacts DEF TiedInv
  <2>2. \A i \in 1 .. Len(s) : s[i] <= top => s[i] <= top'
    BY <1>2, <2>1
  <2> QED
    BY <2>2 DEF TiedInv, Carved
<1>5. Threaded(s)' /\ Backed(s)' /\ Ended(s)'
  BY <1>1, <1>3 DEF TiedInv, Threaded, Backed, Ended
<1>6. TiedInv(u, s)'
  BY <1>3, <1>4, <1>5 DEF TiedInv
<1>7. Spent(cnt) /\ MayLink(u)' => s = <<>>
  <2>1. missed[u] = NoKey
    BY <1>3 DEF CountInv
  <2>2. CASE ScanFound(u) \/ ScanMissed(u)
    BY <2>2 DEF ScanFound, ScanMissed, CountInv
  <2>3. CASE Emptied(u)
    <3>1. next[Root] = Null
      BY <2>3 DEF Emptied
    <3>2. Null \notin Entry /\ (s # <<>> => s[1] \in Entry)
      BY ListFacts DEF TiedInv
    <3> QED
      BY <3>1, <3>2 DEF TiedInv, Threaded
  <2>4. CASE NoRoom(u)
    BY <1>3, <2>4 DEF NoRoom, CountInv, MayLink
  <2> QED
    BY <2>2, <2>3, <2>4
<1>8. CountInv(u, s)'
  <2>1. missed[u] = NoKey
    BY <1>3 DEF CountInv
  <2> QED
    BY <1>1, <1>3, <1>7, <2>1 DEF CountInv, Spent
<1> QED
  BY <1>6, <1>8

(* The two writes of TAILQ_REMOVE.                                         *)
LEMMA DetachListStep ==
  ASSUME TypeInv, NEW u \in User, NEW s \in Seq(Entry), TiedInv(u, s), CountInv(u, s),
         cops = "memory", cops' = cops, Detach(u)
  PROVE  TiedInv(u, s)' /\ CountInv(u, s)'
<1> USE DEF TypeInv, ProvidersTypeOK, TailqTypeOK, list, At
<1>0. u \in Thread
  BY TailqAssumption
<1>1. /\ Len(s) \in Nat /\ (s = <<>> <=> Len(s) = 0)
      /\ \A i \in 1 .. Len(s) : s[i] \in Entry
      /\ \A i, j \in 1 .. Len(s) : s[i] = s[j] => i = j
      /\ Null \notin Entry
  BY ListFacts DEF TiedInv
<1>2. UNCHANGED <<interface, pair, next, cnt, top>>
  BY DEF Detach
<1>3. step[u] = "empty" /\ step'[u] = "detached" /\ mce'[u] = mce[u]
  BY <1>0 DEF Detach, Move
<1>4. s # <<>> /\ mce[u] = s[1] /\ 1 \in 1 .. Len(s)
  BY <1>1, <1>3 DEF Detach, TiedInv, Threaded
<1>5. Backed(s) /\ Ended(s)
  BY <1>3 DEF TiedInv
<1>6. prev[s[1]] = Root /\ next[s[1]] = IF 1 = Len(s) THEN Null ELSE s[2]
  <2>1. prev[s[1]] = Root
    BY <1>4, <1>5 DEF Backed
  <2>2. Threaded(s)
    BY DEF TiedInv
  <2>3. next[s[1]] = IF 1 = Len(s) THEN Null ELSE s[1 + 1]
    BY <1>4, <2>2 DEF Threaded
  <2> QED
    BY <2>1, <2>3
<1>7. /\ Tail(s) \in Seq(Entry) /\ Len(Tail(s)) = Len(s) - 1
      /\ \A i \in 1 .. Len(s) - 1 : Tail(s)[i] = s[i + 1]
      /\ (Tail(s) = <<>> <=> Len(s) = 1)
  BY <1>4, TailFacts
<1>8. prev'[s[1]] = Root /\ Backed(Tail(s))' /\ Ended(Tail(s))'
  <2>1. CASE Len(s) = 1
    <3>1. UNCHANGED prev /\ last' = Root
      BY <1>4, <1>6, <2>1 DEF Detach
    <3>2. Backed(Tail(s))'
      <4>1. Len(Tail(s)) = 0
        BY <1>7, <2>1
      <4>2. \A i \in 1 .. 0 : FALSE
        OBVIOUS
      <4>3. \A i \in 1 .. Len(Tail(s)) : FALSE
        BY <4>1, <4>2
      <4> QED
        BY <4>3, Zenon DEF Backed
    <3>3. Ended(Tail(s))'
      BY <1>7, <2>1, <3>1 DEF Ended
    <3> QED
      BY <1>6, <3>1, <3>2, <3>3
  <2>2. CASE Len(s) # 1
    <3>1. 2 \in 1 .. Len(s) /\ s[2] \in Entry /\ s[2] # s[1]
      <4>1. 2 \in 1 .. Len(s)
        <5>1. \A n \in Nat : 1 \in 1 .. n /\ n # 1 => 2 \in 1 .. n
          OBVIOUS
        <5> QED
          BY <1>1, <1>4, <2>2, <5>1
      <4>2. s[2] \in Entry
        BY <1>1, <4>1
      <4>3. s[2] # s[1]
        BY <1>1, <1>4, <4>1
      <4> QED
        BY <4>1, <4>2, <4>3
    <3>2. prev' = [prev EXCEPT ![s[2]] = Root] /\ UNCHANGED last
      BY <1>1, <1>4, <1>6, <2>2, <3>1 DEF Detach
    <3>3. prev'[s[1]] = Root
      BY <1>1, <1>4, <1>6, <3>1, <3>2
    <3>4. Ended(Tail(s))'
      <4>1. Tail(s)[Len(Tail(s))] = s[Len(s)] /\ Tail(s) # <<>>
        BY <1>1, <1>7, <2>2, <3>1
      <4> QED
        BY <1>4, <1>5, <3>2, <4>1 DEF Ended
    <3>5. Backed(Tail(s))'
      <4> SUFFICES ASSUME NEW i \in 1 .. Len(Tail(s))
                   PROVE  prev'[Tail(s)[i]] = IF i = 1 THEN Root ELSE Tail(s)[i - 1]
        BY Zenon DEF Backed
      <4>a. i \in 1 .. Len(s) - 1 /\ i \in Nat
        BY <1>1, <1>7
      <4>b. i # 1 => i - 1 \in 1 .. Len(s) - 1 /\ (i - 1) + 1 = i
        BY <1>1, <4>a
      <4>c. Tail(s)[i] = s[i + 1] /\ (i # 1 => Tail(s)[i - 1] = s[i])
        BY <1>7, <4>a, <4>b
      <4> SUFFICES prev'[s[i + 1]] = IF i = 1 THEN Root ELSE s[i]
        BY <4>c
      <4>1. i + 1 \in 1 .. Len(s) /\ i + 1 # 1 /\ (i + 1) - 1 = i
        BY <1>1, <4>a
      <4>2. prev[s[i + 1]] = s[i]
        BY <1>5, <4>1 DEF Backed
      <4>3. CASE i = 1
        BY <3>1, <3>2, <4>3
      <4>4. CASE i # 1
        <5>1. s[i + 1] # s[2] /\ s[i + 1] \in Entry
          BY <1>1, <3>1, <4>1, <4>4
        <5> QED
          BY <3>2, <4>2, <4>4, <5>1
      <4> QED
        BY <4>3, <4>4
    <3> QED
      BY <3>3, <3>4, <3>5
  <2> QED
    BY <2>1, <2>2
<1>9. Carved(s)' /\ Threaded(s)'
  BY <1>2 DEF TiedInv, Carved, Threaded
<1>10. TiedInv(u, s)'
  BY <1>3, <1>4, <1>8, <1>9 DEF TiedInv
<1>11. CountInv(u, s)'
  <2>1. MayLink(u)' <=> MayLink(u)
    BY <1>2, <1>3 DEF MayLink, interface
  <2> QED
    BY <1>2, <1>3, <2>1 DEF CountInv, Spent, interface
<1> QED
  BY <1>10, <1>11

LEMMA SkipListStep ==
  ASSUME TypeInv, NEW u \in User, NEW s \in Seq(Entry), TiedInv(u, s), CountInv(u, s),
         cops = "memory", cops' = cops, Skip(u)
  PROVE  s # <<>> /\ TiedInv(u, Tail(s))' /\ CountInv(u, Tail(s))'
<1>0. u \in Thread
  BY TailqAssumption
<1>1. /\ Len(s) \in Nat /\ (s = <<>> <=> Len(s) = 0)
      /\ \A i \in 1 .. Len(s) : s[i] \in Entry /\ s[i] \in Nat
      /\ Root \notin Entry /\ Null \notin Entry
  BY ListFacts DEF TypeInv, ProvidersTypeOK, TailqTypeOK, TiedInv
<1>2. UNCHANGED <<interface, pair, prev, last, cnt, top>>
  BY DEF Skip
<1>3. step[u] = "detached" /\ step'[u] = "empty" /\ mce'[u] = next'[Root]
  BY <1>0 DEF Skip, At, Move, TypeInv, ProvidersTypeOK, TailqTypeOK
<1>4. s # <<>> /\ mce[u] = s[1] /\ prev[s[1]] = Root /\ Backed(Tail(s)) /\ Ended(Tail(s))
  BY <1>3 DEF TiedInv
<1>5. 1 \in 1 .. Len(s)
  BY <1>1, <1>4
<1>6. /\ Tail(s) \in Seq(Entry) /\ Len(Tail(s)) = Len(s) - 1
      /\ \A i \in 1 .. Len(s) - 1 : Tail(s)[i] = s[i + 1]
      /\ (Tail(s) = <<>> <=> Len(s) = 1)
  BY <1>4, TailFacts
<1>7. Threaded(s) /\ Carved(s)
  BY DEF TiedInv
<1>8. next' = [next EXCEPT ![Root] = next[s[1]]]
  BY <1>4 DEF Skip
<1>9. /\ next'[Root] = next[s[1]]
      /\ \A e \in Entry : next'[e] = next[e]
  BY <1>1, <1>8 DEF TypeInv, ProvidersTypeOK, TailqTypeOK
<1>10. Threaded(Tail(s))'
  <2>1. next'[Root] = IF Tail(s) = <<>> THEN Null ELSE Tail(s)[1]
    <3>1. next[s[1]] = IF 1 = Len(s) THEN Null ELSE s[1 + 1]
      BY <1>5, <1>7 DEF Threaded
    <3>2. Len(s) # 1 => 1 \in 1 .. Len(s) - 1
      <4>1. \A n \in Nat : 1 \in 1 .. n /\ n # 1 => 1 \in 1 .. n - 1
        OBVIOUS
      <4> QED
        BY <1>1, <1>5, <4>1
    <3> QED
      BY <1>6, <1>9, <3>1, <3>2
  <2>2. ASSUME NEW i \in 1 .. Len(Tail(s))
        PROVE  next'[Tail(s)[i]] = IF i = Len(Tail(s)) THEN Null ELSE Tail(s)[i + 1]
    <3>1. i \in 1 .. Len(s) - 1 /\ i + 1 \in 1 .. Len(s) /\ i \in Nat
      BY <1>1, <1>6
    <3>2. Tail(s)[i] = s[i + 1] /\ s[i + 1] \in Entry
      BY <1>1, <1>6, <3>1
    <3>3. next[s[i + 1]] = IF i + 1 = Len(s) THEN Null ELSE s[(i + 1) + 1]
      BY <1>7, <3>1 DEF Threaded
    <3>4. i # Len(s) - 1 => i + 1 \in 1 .. Len(s) - 1
      BY <1>1, <3>1
    <3>5. i + 1 = Len(s) <=> i = Len(s) - 1
      BY <1>1, <3>1
    <3> QED
      BY <1>6, <1>9, <3>2, <3>3, <3>4, <3>5
  <2> QED
    BY <2>1, <2>2 DEF Threaded
<1>11. Carved(Tail(s))'
  <2> SUFFICES ASSUME NEW i \in 1 .. Len(s) - 1
               PROVE  /\ i <= Tail(s)[i] /\ Tail(s)[i] <= top
                      /\ \A j \in 1 .. i - 1 : Tail(s)[j] < Tail(s)[i]
    BY <1>2, <1>6 DEF Carved
  <2>1. i + 1 \in 1 .. Len(s) /\ i \in Nat
    BY <1>1
  <2>2. /\ i + 1 <= s[i + 1] /\ s[i + 1] <= top
        /\ \A j \in 1 .. (i + 1) - 1 : s[j] < s[i + 1]
    BY <1>7, <2>1 DEF Carved
  <2>3. \A j \in 1 .. i - 1 : j \in 1 .. Len(s) - 1 /\ j + 1 \in 1 .. (i + 1) - 1
    BY <1>1, <2>1
  <2>4. s[i + 1] \in Nat
    BY <1>1, <2>1
  <2> QED
    BY <1>6, <2>1, <2>2, <2>3, <2>4
<1>12. Backed(Tail(s))' /\ Ended(Tail(s))'
  BY <1>2, <1>4 DEF Backed, Ended
<1>13. TiedInv(u, Tail(s))'
  BY <1>3, <1>10, <1>11, <1>12 DEF TiedInv
<1>14. CountInv(u, Tail(s))'
  <2>1. call[u].op = "get" /\ stage[u] = "busy" /\ missed[u] = NoKey
    BY <1>0, <1>3 DEF TypeInv, TailqPlaces, CountInv
  <2>2. ~MayLink(u)' /\ UNCHANGED <<stage, missed, cnt>>
    BY <1>2, <2>1 DEF MayLink, interface
  <2>3. cnt \in Nat /\ HASH_THRESHOLD \in Nat
    BY TailqAssumption DEF TypeInv, ProvidersTypeOK, TailqTypeOK
  <2>4. /\ Len(s) - 1 <= IF cnt > HASH_THRESHOLD THEN 1 ELSE cnt
        /\ Len(s) - 1 <= HASH_THRESHOLD
    BY <1>1, <1>3, <2>3 DEF CountInv
  <2> QED
    BY <1>3, <1>6, <2>1, <2>2, <2>4 DEF CountInv
<1> QED
  BY <1>4, <1>13, <1>14

(* set, up to the link that puts the entry into the list.                  *)
LEMMA FillListStep ==
  ASSUME TypeInv, NEW u \in User, NEW s \in Seq(Entry), TiedInv(u, s), CountInv(u, s),
         cops = "memory", cops' = cops, Alloc(u) \/ Fill(u) \/ Insert(u)
  PROVE  TiedInv(u, s)' /\ CountInv(u, s)'
<1> USE DEF TypeInv, ProvidersTypeOK, TailqTypeOK, list, At
<1>0. u \in Thread
  BY TailqAssumption
<1>1. /\ Len(s) \in Nat /\ (s = <<>> <=> Len(s) = 0)
      /\ \A i \in 1 .. Len(s) : s[i] \in Entry /\ s[i] \in Nat /\ s[i] <= top
      /\ Root \notin Entry /\ Null \notin Entry /\ top \in Nat
  BY ListFacts, TailqAssumption DEF TiedInv
<1>2. /\ step[u] \in {"out", "fill", "insert"} /\ step'[u] \in {"fill", "insert", "link"}
      /\ UNCHANGED <<interface, last, cnt>>
  BY <1>0 DEF Alloc, Fill, Insert, Move
<1>3. Carved(s) /\ Threaded(s) /\ Backed(s) /\ Ended(s)
  BY <1>2 DEF TiedInv
<1>4. CountInv(u, s)'
  <2>1. stage[u] = "busy" /\ call[u].op = "set"
    BY <1>0 DEF Alloc, Fill, Insert, TailqPlaces
  <2>2. MayLink(u)
    BY <1>2, <2>1 DEF MayLink
  <2> QED
    BY <1>2, <2>2 DEF CountInv, Spent, interface
<1> SUFFICES TiedInv(u, s)'
  BY <1>4
<1>5. CASE Alloc(u)
  <2>1. /\ UNCHANGED <<pair, next, prev, last, top>> /\ step'[u] = "fill"
        /\ mce'[u] = top + 1
    BY <1>0, <1>5 DEF Alloc, Move
  <2> QED
    BY <1>3, <2>1, TiedKept DEF TiedInv
<1>6. CASE Fill(u)
  <2>1. /\ UNCHANGED <<next, prev, last, call, mce>> /\ step[u] = "fill" /\ step'[u] = "insert"
        /\ top' = mce[u] /\ mce[u] \in Entry
        /\ pair' = [pair EXCEPT ![mce[u]] = <<call[u].key, call[u].val>>]
    BY <1>0, <1>6 DEF Fill, Move, interface, TailqPlaces
  <2>2. pair'[mce[u]] = <<call[u].key, call[u].val>>
    BY <2>1
  <2>3. top' = top + 1
    BY <2>1 DEF TiedInv
  <2>4. \A i \in 1 .. Len(s) : s[i] < top' /\ s[i] <= top'
    BY <1>1, <2>3
  <2>5. Carved(s)'
    BY <1>3, <2>4 DEF Carved
  <2>6. Threaded(s)' /\ Backed(s)' /\ Ended(s)'
    BY <1>3, <2>1 DEF Threaded, Backed, Ended
  <2> QED
    BY <2>1, <2>2, <2>4, <2>5, <2>6 DEF TiedInv
<1>7. CASE Insert(u)
  <2>1. /\ UNCHANGED <<last, call, mce, top, pair>> /\ step[u] = "insert" /\ step'[u] = "link"
        /\ mce[u] \in Entry
        /\ next' = [next EXCEPT ![mce[u]] = Null] /\ prev' = [prev EXCEPT ![mce[u]] = last]
    BY <1>0, <1>7 DEF Insert, Move, interface, TailqPlaces
  <2>2. /\ mce[u] = top /\ \A i \in 1 .. Len(s) : s[i] < top
        /\ pair[mce[u]] = <<call[u].key, call[u].val>>
    BY <2>1 DEF TiedInv
  <2>3. \A i \in 1 .. Len(s) : s[i] # mce[u]
    BY <1>1, <2>2
  <2>4. /\ next'[mce[u]] = Null /\ prev'[mce[u]] = last /\ next'[Root] = next[Root]
        /\ \A e \in Entry : e # mce[u] => next'[e] = next[e] /\ prev'[e] = prev[e]
    BY <1>1, <2>1
  <2>5. \A i \in 1 .. Len(s) : next'[s[i]] = next[s[i]] /\ prev'[s[i]] = prev[s[i]]
    BY <1>1, <2>3, <2>4
  <2>6. Threaded(s)' /\ Backed(s)' /\ Ended(s)' /\ Carved(s)'
    BY <1>3, <2>1, <2>4, <2>5 DEF Threaded, Backed, Ended, Carved
  <2> QED
    BY <2>1, <2>2, <2>4, <2>6 DEF TiedInv
<1> QED
  BY <1>5, <1>6, <1>7

LEMMA LinkListStep ==
  ASSUME TypeInv, NEW u \in User, NEW s \in Seq(Entry), TiedInv(u, s), CountInv(u, s),
         cops = "memory", cops' = cops, Link(u), NEW e \in Entry, e = mce[u]
  PROVE  TiedInv(u, Append(s, e))' /\ CountInv(u, Append(s, e))'
<1> DEFINE q == Append(s, e)
           n == Len(s)
<1>0. u \in Thread
  BY TailqAssumption
<1>1. /\ n \in Nat /\ (s = <<>> <=> n = 0)
      /\ \A i \in 1 .. n : s[i] \in Entry /\ s[i] \in Nat /\ s[i] <= top
      /\ \A i, j \in 1 .. n : s[i] = s[j] => i = j
      /\ Root \notin Entry /\ Null \notin Entry
  BY ListFacts DEF TypeInv, ProvidersTypeOK, TailqTypeOK, TiedInv
<1>2. /\ step[u] = "link" /\ step'[u] = "end" /\ stage[u] = "busy" /\ call[u].op = "set"
      /\ UNCHANGED <<interface, pair, prev, last, cnt, top>> /\ mce'[u] = e
      /\ next' = [next EXCEPT ![last] = e]
  BY <1>0 DEF Link, At, Move, TypeInv, TailqPlaces, ProvidersTypeOK, TailqTypeOK
<1>3. /\ e = top /\ \A i \in 1 .. n : s[i] < top
      /\ next[e] = Null /\ prev[e] = last
      /\ Carved(s) /\ Threaded(s) /\ Backed(s) /\ Ended(s)
  BY <1>2 DEF TiedInv
<1>4. /\ q \in Seq(Entry) /\ Len(q) = n + 1 /\ q # <<>> /\ q[n + 1] = e
      /\ \A i \in 1 .. n : q[i] = s[i]
  BY AppendFacts
<1>5. top \in Nat /\ n + 1 <= top
  <2>1. top \in Nat /\ top >= 1
    BY <1>2, <1>3, TailqAssumption DEF Entry
  <2>2. n # 0 => n \in 1 .. n /\ n <= s[n] /\ s[n] < top /\ s[n] \in Nat
    <3>1. n # 0 => n \in 1 .. n
      BY <1>1
    <3> QED
      BY <1>1, <1>3, <3>1 DEF Carved
  <2> QED
    BY <1>1, <2>1, <2>2
<1>6. last \in Entry \cup {Root} /\ last # e
  <2>1. n # 0 => n \in 1 .. n
    BY <1>1
  <2>2. last = IF n = 0 THEN Root ELSE s[n]
    BY <1>1, <1>3 DEF Ended
  <2>3. n # 0 => s[n] < top /\ s[n] \in Entry /\ s[n] \in Nat
    BY <1>1, <1>3, <2>1
  <2> QED
    BY <1>1, <1>2, <1>3, <1>5, <2>2, <2>3
<1>7. /\ next'[last] = e /\ next'[e] = Null
      /\ \A d \in Entry \cup {Root} : d # last => next'[d] = next[d]
  BY <1>2, <1>3, <1>6 DEF TypeInv, ProvidersTypeOK, TailqTypeOK
<1>8. Threaded(q)'
  <2>1. next'[Root] = q[1]
    <3>1. CASE n = 0
      BY <1>1, <1>3, <1>4, <1>7, <3>1 DEF Ended
    <3>2. CASE n # 0
      <4>1. n \in 1 .. n /\ 1 \in 1 .. n
        BY <1>1, <3>2
      <4>2. last # Root /\ next[Root] = s[1]
        BY <1>1, <1>3, <3>2, <4>1 DEF Ended, Threaded
      <4> QED
        BY <1>4, <1>7, <4>1, <4>2
    <3> QED
      BY <3>1, <3>2
  <2>2. ASSUME NEW i \in 1 .. n + 1
        PROVE  next'[q[i]] = IF i = n + 1 THEN Null ELSE q[i + 1]
    <3>1. CASE i = n + 1
      BY <1>4, <1>7, <3>1
    <3>2. CASE i = n
      <4>1. i \in 1 .. n /\ n # 0 /\ i # n + 1
        BY <1>1, <3>2
      <4>2. q[i] = last
        BY <1>1, <1>3, <1>4, <3>2, <4>1 DEF Ended
      <4> QED
        BY <1>4, <1>7, <3>2, <4>1, <4>2
    <3>3. CASE i # n /\ i # n + 1
      <4>1. i \in 1 .. n /\ i + 1 \in 1 .. n /\ n \in 1 .. n /\ n # 0
        BY <1>1, <3>3
      <4>2. s[i] # last /\ s[i] \in Entry
        BY <1>1, <1>3, <3>3, <4>1 DEF Ended
      <4>3. next[s[i]] = s[i + 1]
        BY <1>3, <3>3, <4>1 DEF Threaded
      <4> QED
        BY <1>4, <1>7, <3>3, <4>1, <4>2, <4>3
    <3> QED
      BY <3>1, <3>2, <3>3
  <2> HIDE DEF q
  <2> QED
    BY <1>4, <2>1, <2>2 DEF Threaded
<1>9. Carved(q)'
  <2> SUFFICES ASSUME NEW i \in 1 .. n + 1
               PROVE  i <= q[i] /\ q[i] <= top /\ \A j \in 1 .. i - 1 : q[j] < q[i]
    <3> HIDE DEF q
    <3> QED
      BY <1>2, <1>4 DEF Carved
  <2>1. CASE i = n + 1
    <3>1. \A j \in 1 .. i - 1 : j \in 1 .. n
      BY <1>1, <2>1
    <3> QED
      BY <1>3, <1>4, <1>5, <2>1, <3>1
  <2>2. CASE i # n + 1
    <3>1. i \in 1 .. n /\ \A j \in 1 .. i - 1 : j \in 1 .. n
      BY <1>1, <2>2
    <3> QED
      BY <1>3, <1>4, <3>1 DEF Carved
  <2> QED
    BY <2>1, <2>2
<1>10. Backed(q)'
  <2> SUFFICES ASSUME NEW i \in 1 .. n + 1
               PROVE  prev[q[i]] = IF i = 1 THEN Root ELSE q[i - 1]
    <3> HIDE DEF q
    <3> QED
      BY <1>2, <1>4 DEF Backed
  <2>1. CASE i = n + 1
    <3>1. n # 0 => n \in 1 .. n
      BY <1>1
    <3>2. i = 1 <=> n = 0
      BY <1>1, <2>1
    <3>3. i - 1 = n
      BY <1>1, <2>1
    <3> QED
      BY <1>1, <1>3, <1>4, <2>1, <3>1, <3>2, <3>3 DEF Ended
  <2>2. CASE i # n + 1
    <3>1. i \in 1 .. n /\ (i # 1 => i - 1 \in 1 .. n)
      BY <1>1, <2>2
    <3> QED
      BY <1>3, <1>4, <3>1 DEF Backed
  <2> QED
    BY <2>1, <2>2
<1>11. TiedInv(u, q)'
  <2> HIDE DEF q
  <2>1. cops' = "memory" /\ last' = prev'[mce'[u]] /\ mce'[u] = q[Len(q)]
    BY <1>2, <1>3, <1>4
  <2> QED
    BY <1>2, <1>4, <1>8, <1>9, <1>10, <2>1 DEF TiedInv
<1>12. CountInv(u, q)'
  <2>1. MayLink(u) /\ missed[u] = NoKey
    BY <1>2 DEF MayLink, CountInv
  <2>2. ~MayLink(u)' /\ UNCHANGED <<stage, missed, cnt>>
    BY <1>2, <2>1 DEF MayLink, interface
  <2>3. cnt \in Nat /\ HASH_THRESHOLD \in Nat \ {0}
    BY TailqAssumption DEF TypeInv, ProvidersTypeOK, TailqTypeOK
  <2>4. /\ n + 1 <= IF Spent(cnt) THEN 1 ELSE cnt + 1
        /\ n + 1 <= HASH_THRESHOLD
    <3>1. CASE Spent(cnt)
      BY <1>1, <2>1, <2>3, <3>1 DEF CountInv
    <3>2. CASE ~Spent(cnt)
      BY <1>1, <1>2, <2>3, <3>2 DEF CountInv, Spent
    <3> QED
      BY <3>1, <3>2
  <2> HIDE DEF q
  <2> QED
    BY <1>2, <1>4, <2>1, <2>2, <2>4 DEF CountInv, Spent
<1> QED
  BY <1>4, <1>11, <1>12

LEMMA EndListStep ==
  ASSUME TypeInv, NEW u \in User, NEW s \in Seq(Entry), TiedInv(u, s), CountInv(u, s),
         cops = "memory", cops' = cops, End(u)
  PROVE  TiedInv(u, s)' /\ CountInv(u, s)'
<1>0. u \in Thread
  BY TailqAssumption
<1>1. /\ step[u] = "end" /\ step'[u] = "out" /\ stage[u] = "busy" /\ stage'[u] = "done"
      /\ call[u].op = "set" /\ UNCHANGED <<pair, next, prev, top, call, missed>>
      /\ last' = mce[u] /\ cnt' = cnt + 1
  BY <1>0 DEF End, At, Return, Move, TypeInv, TailqPlaces, ProvidersTypeOK, TailqTypeOK,
     InterfaceTypeOK
<1>2. s # <<>> /\ mce[u] = s[Len(s)] /\ Backed(s) /\ Carved(s) /\ Threaded(s)
  BY <1>1 DEF TiedInv
<1>3. Ended(s)' /\ Backed(s)' /\ Carved(s)' /\ Threaded(s)'
  BY <1>1, <1>2 DEF Ended, Backed, Carved, Threaded
<1>4. TiedInv(u, s)'
  BY <1>1, <1>3 DEF TiedInv
<1>5. missed[u] = NoKey
  BY <1>1 DEF CountInv
<1>6. ~MayLink(u)'
  BY <1>1, <1>5 DEF MayLink
<1>7. cnt \in Nat /\ HASH_THRESHOLD \in Nat \ {0} /\ Len(s) \in Nat
  BY TailqAssumption DEF TypeInv, ProvidersTypeOK, TailqTypeOK
<1>8. Len(s) <= IF cnt + 1 > HASH_THRESHOLD THEN 1 ELSE cnt + 1
  BY <1>1, <1>7 DEF CountInv, Spent
<1>9. CountInv(u, s)'
  BY <1>1, <1>5, <1>6, <1>8 DEF CountInv
<1> QED
  BY <1>4, <1>9

LEMMA ListStep ==
  ASSUME TypeInv, NEW u \in User, User = {u}, ListInv(u), [ProvidersNext]_providerVars
  PROVE  ListInv(u)'
<1>0. PICK s \in Seq(Entry) : TiedInv(u, s) /\ CountInv(u, s)
  BY DEF ListInv
<1> SUFFICES \E q \in Seq(Entry) : TiedInv(u, q)' /\ CountInv(u, q)'
  BY DEF ListInv
<1>a. Users \subseteq Thread /\ u \in Thread
  BY TailqAssumption DEF Users
<1>1. ASSUME NEW t \in Users, ClientNext(t), UNCHANGED <<tailqVars, pool, cops>>
      PROVE  TiedInv(u, s)' /\ CountInv(u, s)'
  BY <1>0, <1>1, ClientListStep
<1>2. ASSUME NEW t \in Users, MockProvider(t)
      PROVE  TiedInv(u, s)' /\ CountInv(u, s)'
  <2>1. /\ cops # "memory" /\ UNCHANGED <<tailqVars, cops, missed, call>>
        /\ stage[t] = "busy" /\ stage' = [stage EXCEPT ![t] = "done"] /\ t \in Thread
    BY <1>a, <1>2 DEF MockProvider
  <2> QED
    BY <1>0, <2>1, OtherListStep
<1>3. ASSUME NEW t \in Users, cops = "memcached", MemcachedProvider(t),
             UNCHANGED <<tailqVars, cops>>
      PROVE  TiedInv(u, s)' /\ CountInv(u, s)'
  <2>1. /\ cops # "memory" /\ t \in Thread /\ stage[t] = "busy"
        /\ UNCHANGED <<missed, call>>
        /\ stage' = [stage EXCEPT ![t] = "done"] \/ UNCHANGED stage
    BY <1>a, <1>3 DEF MemcachedProvider, WithoutPool, PopIdle, PopNew, PopFails,
       AskGet, AskSet,
       Push, InTurn, Answered, interface
  <2> QED
    BY <1>0, <1>3, <2>1, OtherListStep
<1>4. ASSUME cops = "memory", TailqProvider(u), UNCHANGED <<pool, cops>>
      PROVE  \E q \in Seq(Entry) : TiedInv(u, q)' /\ CountInv(u, q)'
  <2>1. CASE GetSpent(u) \/ GetScan(u) \/ ScanOn(u)
    BY <1>0, <1>4, <2>1, ScanListStep
  <2>2. CASE ScanFound(u) \/ ScanMissed(u) \/ Emptied(u) \/ NoRoom(u)
    BY <1>0, <1>4, <2>2, ReturnListStep
  <2>3. CASE Detach(u)
    BY <1>0, <1>4, <2>3, DetachListStep
  <2>4. CASE Skip(u)
    <3>1. s # <<>> /\ TiedInv(u, Tail(s))' /\ CountInv(u, Tail(s))'
      BY <1>0, <1>4, <2>4, SkipListStep
    <3>2. Tail(s) \in Seq(Entry)
      BY <3>1, TailFacts
    <3> QED
      BY <3>1, <3>2
  <2>5. CASE Alloc(u) \/ Fill(u) \/ Insert(u)
    BY <1>0, <1>4, <2>5, FillListStep
  <2>6. CASE Link(u)
    <3>1. PICK e \in Entry : e = mce[u]
      BY <1>a, <2>6 DEF Link, At, TypeInv, TailqPlaces
    <3>2. TiedInv(u, Append(s, e))' /\ CountInv(u, Append(s, e))'
      BY <1>0, <1>4, <2>6, <3>1, LinkListStep
    <3>3. Append(s, e) \in Seq(Entry)
      BY AppendFacts
    <3> QED
      BY <3>2, <3>3
  <2>7. CASE End(u)
    BY <1>0, <1>4, <2>7, EndListStep
  <2> QED
    BY <1>4, <2>1, <2>2, <2>3, <2>4, <2>5, <2>6, <2>7 DEF TailqProvider
<1>5. ASSUME UNCHANGED <<interface, tailqVars, cops>>
      PROVE  TiedInv(u, s)' /\ CountInv(u, s)'
  <2>1. UNCHANGED <<stage, call, missed, step, mce, pair, next, prev, last, top, cnt, cops>>
    BY <1>5 DEF interface, tailqVars, list
  <2>2. TiedInv(u, s)'
    BY <1>0, <2>1, TiedKept DEF TiedInv
  <2>3. CountInv(u, s)'
    BY <1>0, <2>1 DEF CountInv, MayLink, Spent
  <2> QED
    BY <2>2, <2>3
<1>6. CASE UNCHANGED providerVars
  BY <1>0, <1>5, <1>6 DEF providerVars
<1>7. CASE Forget /\ UNCHANGED <<tailqVars, cops>>
  BY <1>0, <1>5, <1>7 DEF Forget
<1>8. ASSUME NEW t \in Users, Provider(t)
      PROVE  \E q \in Seq(Entry) : TiedInv(u, q)' /\ CountInv(u, q)'
  <2>1. cops = "memory" => t = u
    BY DEF Users
  <2> QED
    BY <1>0, <1>2, <1>3, <1>4, <1>8, <2>1 DEF Provider
<1> QED
  BY <1>0, <1>1, <1>6, <1>7, <1>8 DEF ProvidersNext

LEMMA ListCorrect ==
  ASSUME NEW u \in User, User = {u}
  PROVE  ProvidersSpec => []ListInv(u)
<1>1. ProvidersInit => ListInv(u)
  BY ListInit
<1>2. TypeInv /\ ListInv(u) /\ [ProvidersNext]_providerVars => ListInv(u)'
  BY ListStep
<1> QED
  BY <1>1, <1>2, TypeInvCorrect, PTL DEF ProvidersSpec

(* Used by one thread, the list never holds more than HASH_THRESHOLD       *)
(* entries, whatever the counter held when it came from the pool, and one  *)
(* at most once the counter is past it: each get then empties the list     *)
(* before the set that may follow it (memory_cache_provider.c:195-198,     *)
(* 233).                                                                   *)
THEOREM ListIsBounded ==
  ASSUME NEW u \in User, User = {u}
  PROVE  ProvidersSpec => []BoundedUntilSpent
<1>1. TypeInv /\ ListInv(u) => BoundedUntilSpent
  <2> SUFFICES ASSUME TypeInv, ListInv(u)
               PROVE  BoundedUntilSpent
    OBVIOUS
  <2>1. PICK s \in Seq(Entry) : TiedInv(u, s) /\ CountInv(u, s)
    BY DEF ListInv
  <2>2. Len(s) <= MaxEntries /\ Len(s) \in Nat
    BY <2>1, ListFacts DEF TypeInv, ProvidersTypeOK, TailqTypeOK, TiedInv
  <2>3. Walk = s
    BY <2>1, <2>2, PathIs DEF Walk, TiedInv, Threaded
  <2>4. cnt \in Nat /\ HASH_THRESHOLD \in Nat \ {0}
    BY TailqAssumption DEF TypeInv, ProvidersTypeOK, TailqTypeOK
  <2>5. Len(s) <= IF cnt > HASH_THRESHOLD THEN 1 ELSE HASH_THRESHOLD
    BY <2>1, <2>2, <2>4 DEF CountInv, Spent
  <2> QED
    BY <2>3, <2>5 DEF BoundedUntilSpent
<1> QED
  BY <1>1, TypeInvCorrect, ListCorrect, PTL

-----------------------------------------------------------------------------
(* Refinement of KeyedLog, for one thread that uses the list.              *)

(* The pairs of the entries s.                                             *)
Pairs(p, s) == [n \in 1 .. Len(s) |-> p[s[n]]]

LEMMA ContentsAre ==
  ASSUME TypeInv, NEW u, NEW s \in Seq(Entry), TiedInv(u, s)
  PROVE  Contents = Pairs(pair, s)
<1>1. Len(s) <= MaxEntries /\ Len(s) \in Nat
  BY ListFacts DEF TypeInv, ProvidersTypeOK, TailqTypeOK, TiedInv
<1>2. Walk = s
  BY <1>1, PathIs DEF Walk, TiedInv, Threaded
<1>3. DOMAIN s = 1 .. Len(s)
  OBVIOUS
<1> QED
  BY <1>2, <1>3 DEF Contents, Pairs

LEMMA ContentsBecome ==
  ASSUME NEW u, NEW s \in Seq(Entry), TiedInv(u, s)', Len(s) <= MaxEntries
  PROVE  Contents' = Pairs(pair', s)
<1>1. Walk' = s
  BY PathIs DEF Walk, TiedInv, Threaded
<1>2. DOMAIN s = 1 .. Len(s)
  OBVIOUS
<1> QED
  BY <1>1, <1>2 DEF Contents, Pairs

LEMMA PairsKept ==
  ASSUME NEW s \in Seq(Entry), NEW p, NEW q, \A i \in 1 .. Len(s) : q[s[i]] = p[s[i]]
  PROVE  Pairs(q, s) = Pairs(p, s)
BY DEF Pairs

LEMMA PairsAppend ==
  ASSUME NEW s \in Seq(Entry), NEW p, NEW e \in Entry
  PROVE  Pairs(p, Append(s, e)) = Append(Pairs(p, s), p[e])
<1> DEFINE q == Append(s, e)
<1>1. /\ Len(q) = Len(s) + 1 /\ q[Len(s) + 1] = e /\ Len(s) \in Nat
      /\ \A i \in 1 .. Len(s) : q[i] = s[i]
  BY AppendFacts
<1> HIDE DEF q
<1>2. Pairs(p, q) = [n \in 1 .. Len(s) + 1 |-> IF n = Len(s) + 1 THEN p[e] ELSE p[s[n]]]
  BY <1>1 DEF Pairs
<1>3. Append(Pairs(p, s), p[e])
        = [n \in 1 .. Len(s) + 1 |-> IF n = Len(s) + 1 THEN p[e] ELSE p[s[n]]]
  BY <1>1 DEF Pairs
<1> QED
  BY <1>2, <1>3 DEF q

LEMMA PairsTail ==
  ASSUME NEW s \in Seq(Entry), NEW p, s # <<>>
  PROVE  Pairs(p, s) # <<>> /\ Pairs(p, Tail(s)) = Tail(Pairs(p, s))
<1>1. /\ Len(Tail(s)) = Len(s) - 1 /\ Len(s) \in Nat /\ Len(s) # 0
      /\ \A i \in 1 .. Len(s) - 1 : Tail(s)[i] = s[i + 1]
  BY TailFacts
<1>2. Pairs(p, Tail(s)) = [n \in 1 .. Len(s) - 1 |-> p[s[n + 1]]]
  BY <1>1 DEF Pairs
<1>3. Tail(Pairs(p, s)) = [n \in 1 .. Len(s) - 1 |-> p[s[n + 1]]]
  BY <1>1 DEF Pairs
<1>4. Pairs(p, s) # <<>>
  BY <1>1 DEF Pairs
<1> QED
  BY <1>2, <1>3, <1>4

LEMMA LogAnswers ==
  ASSUME NEW t \in Thread, NEW v, stage[t] = "busy", Return(t, v), UNCHANGED Contents,
         v = NoValue \/ (/\ call[t].op = "get"
                         /\ \E i \in DOMAIN Contents : /\ Log!FirstOfKey(call[t].key, i)
                                                       /\ v = Contents[i][2])
  PROVE  Log!LogNext
<1>1. Log!Answer(t, v)
  BY DEF Return, Log!Answer
<1>2. CASE v = NoValue
  BY <1>1, <1>2 DEF Log!AnswerNothing, Log!LogNext
<1>3. CASE v # NoValue
  <2>1. Log!Find(t)
    BY <1>1, <1>3 DEF Log!Find
  <2> QED
    BY <2>1 DEF Log!LogNext
<1> QED
  BY <1>2, <1>3

(* The first entry of a key that the scan comes upon is the oldest.        *)
LEMMA ScanFindsFirst ==
  ASSUME TypeInv, NEW u \in User, NEW s \in Seq(Entry), TiedInv(u, s), ScanFound(u)
  PROVE  \E i \in DOMAIN Contents : /\ Log!FirstOfKey(call[u].key, i)
                                    /\ pair[mce[u]][2] = Contents[i][2]
<1>1. /\ Len(s) \in Nat /\ \A i \in 1 .. Len(s) : s[i] \in Entry
      /\ Null \notin Entry
  BY ListFacts DEF TypeInv, ProvidersTypeOK, TailqTypeOK, TiedInv
<1>2. step[u] = "scan" /\ mce[u] # Null /\ pair[mce[u]][1] = call[u].key
  BY DEF ScanFound, Found, At
<1>3. PICK i \in 1 .. Len(s) + 1 :
             /\ mce[u] = IF i > Len(s) THEN Null ELSE s[i]
             /\ \A j \in 1 .. i - 1 : pair[s[j]][1] # call[u].key
  BY <1>2 DEF TiedInv
<1>4. i \in 1 .. Len(s) /\ mce[u] = s[i]
  BY <1>1, <1>2, <1>3
<1>5. Contents = Pairs(pair, s)
  BY ContentsAre
<1>6. /\ DOMAIN Contents = 1 .. Len(s)
      /\ \A j \in 1 .. Len(s) : Contents[j] = pair[s[j]]
  BY <1>5 DEF Pairs
<1>7. \A j \in 1 .. i - 1 : j \in 1 .. Len(s)
  BY <1>1, <1>4
<1>8. Log!FirstOfKey(call[u].key, i)
  BY <1>2, <1>3, <1>4, <1>6, <1>7 DEF Log!FirstOfKey
<1> QED
  BY <1>4, <1>6, <1>8

LEMMA LogStep ==
  ASSUME TypeInv, NEW u \in User, NEW s \in Seq(Entry), TiedInv(u, s), CountInv(u, s),
         cops = "memory", cops' = cops, TailqProvider(u)
  PROVE  Log!LogNext \/ UNCHANGED <<interface, Contents>>
<1>0. u \in Thread
  BY TailqAssumption
<1>1. /\ Len(s) \in Nat /\ Len(s) <= MaxEntries
      /\ \A i \in 1 .. Len(s) : s[i] \in Entry /\ s[i] \in Nat
  BY ListFacts DEF TypeInv, ProvidersTypeOK, TailqTypeOK, TiedInv
<1>2. Contents = Pairs(pair, s)
  BY ContentsAre
<1>3. ASSUME TiedInv(u, s)', UNCHANGED pair
      PROVE  UNCHANGED Contents
  BY <1>1, <1>2, <1>3, ContentsBecome
<1>4. CASE GetSpent(u) \/ GetScan(u) \/ ScanOn(u) \/ Detach(u) \/ Alloc(u) \/ Insert(u)
  <2>1. TiedInv(u, s)'
    BY <1>4, ScanListStep, DetachListStep, FillListStep
  <2> QED
    BY <1>3, <1>4, <2>1 DEF GetSpent, GetScan, ScanOn, Detach, Alloc, Insert, list
<1>5. CASE ScanFound(u) \/ ScanMissed(u) \/ Emptied(u) \/ NoRoom(u)
  <2>1. TiedInv(u, s)'
    BY <1>5, ReturnListStep
  <2>2. UNCHANGED Contents /\ stage[u] = "busy"
    BY <1>3, <1>5, <2>1 DEF ScanFound, ScanMissed, Emptied, NoRoom, list, At
  <2>3. CASE Return(u, NoValue)
    BY <1>0, <2>2, <2>3, LogAnswers
  <2>4. CASE ScanFound(u) /\ Return(u, pair[mce[u]][2])
    <3>1. call[u].op = "get"
      BY <1>0, <2>4 DEF ScanFound, At, TypeInv, TailqPlaces
    <3> QED
      BY <1>0, <2>2, <2>4, <3>1, LogAnswers, ScanFindsFirst
  <2> QED
    BY <1>5, <2>3, <2>4 DEF ScanFound, ScanMissed, Emptied, NoRoom
<1>6. CASE Skip(u)
  <2>1. s # <<>> /\ TiedInv(u, Tail(s))' /\ UNCHANGED <<interface, pair>>
    BY <1>6, SkipListStep DEF Skip
  <2>2. Tail(s) \in Seq(Entry) /\ Len(Tail(s)) <= MaxEntries
    <3>1. Tail(s) \in Seq(Entry) /\ Len(Tail(s)) = Len(s) - 1
      BY <2>1, TailFacts
    <3>2. MaxEntries \in Nat
      BY TailqAssumption
    <3> QED
      BY <1>1, <3>1, <3>2
  <2>3. Contents' = Tail(Contents) /\ Contents # <<>>
    BY <1>2, <2>1, <2>2, ContentsBecome, PairsTail
  <2>4. stage[u] = "busy" /\ call[u].op = "get"
    BY <1>0, <1>6 DEF Skip, At, TypeInv, TailqPlaces
  <2>5. Log!DropFirst(u)
    BY <2>1, <2>3, <2>4 DEF Log!DropFirst, interface, Log!interface
  <2> QED
    BY <1>0, <2>5 DEF Log!LogNext
<1>7. CASE Fill(u)
  <2>1. TiedInv(u, s)' /\ UNCHANGED interface /\ step[u] = "fill"
    BY <1>7, FillListStep DEF Fill, At
  <2>2. pair' = [pair EXCEPT ![mce[u]] = <<call[u].key, call[u].val>>] /\ mce[u] = top + 1
    BY <1>7, <2>1 DEF Fill, TiedInv
  <2>3. \A i \in 1 .. Len(s) : s[i] # mce[u]
    <3>1. \A i \in 1 .. Len(s) : s[i] <= top
      BY DEF TiedInv, Carved
    <3>2. top \in Nat
      BY TailqAssumption DEF TypeInv, ProvidersTypeOK, TailqTypeOK
    <3> QED
      BY <1>1, <2>2, <3>1, <3>2
  <2>4. \A i \in 1 .. Len(s) : pair'[s[i]] = pair[s[i]]
    BY <1>1, <2>2, <2>3 DEF TypeInv, ProvidersTypeOK, TailqTypeOK
  <2>5. Contents' = Contents
    BY <1>1, <1>2, <2>1, <2>4, ContentsBecome, PairsKept
  <2> QED
    BY <2>1, <2>5
<1>8. CASE Link(u)
  <2>1. PICK e \in Entry : e = mce[u]
    BY <1>0, <1>8 DEF Link, At, TypeInv, TailqPlaces
  <2>2. TiedInv(u, Append(s, e))'
    BY <1>8, <2>1, LinkListStep
  <2>3. Append(s, e) \in Seq(Entry) /\ Len(Append(s, e)) = Len(s) + 1
    BY AppendFacts
  <2>4. Len(s) + 1 <= MaxEntries
    <3>1. Carved(Append(s, e))'
      BY <2>2 DEF TiedInv
    <3>2. Len(s) + 1 <= Append(s, e)[Len(s) + 1]
      BY <1>1, <2>3, <3>1 DEF Carved
    <3>3. Append(s, e)[Len(s) + 1] = e
      BY AppendFacts
    <3> QED
      BY <1>1, <3>2, <3>3, TailqAssumption DEF Entry
  <2>5. /\ step[u] = "link" /\ stage[u] = "busy" /\ call[u].op = "set"
        /\ UNCHANGED <<interface, pair>>
    BY <1>0, <1>8 DEF Link, At, TypeInv, TailqPlaces
  <2>6. pair[e] = <<call[u].key, call[u].val>>
    BY <2>1, <2>5 DEF TiedInv
  <2>7. Contents' = Append(Contents, <<call[u].key, call[u].val>>)
    BY <1>2, <2>2, <2>3, <2>4, <2>5, <2>6, ContentsBecome, PairsAppend
  <2>8. Log!AppendPair(u)
    BY <2>5, <2>7 DEF Log!AppendPair, interface, Log!interface
  <2> QED
    BY <1>0, <2>8 DEF Log!LogNext
<1>9. CASE End(u)
  <2>1. TiedInv(u, s)'
    BY <1>9, EndListStep
  <2>2. UNCHANGED Contents
    BY <1>3, <1>9, <2>1 DEF End
  <2> QED
    BY <1>0, <1>9, <2>2, LogAnswers DEF End, At
<1> QED
  BY <1>4, <1>5, <1>6, <1>7, <1>8, <1>9 DEF TailqProvider

(* Used by one thread, the list is a log whichever write of a macro of     *)
(* sys/queue.h was the last: set appends a pair in one step, get answers   *)
(* with the oldest pair of its key, and removeall takes the oldest pair    *)
(* away (memory_cache_provider.c:131-138, 184-238).                        *)
THEOREM MemoryIsALog ==
  ASSUME NEW u \in User, User = {u}
  PROVE  ProvidersSpec => MemoryImplementsLog
<1>1. ProvidersInit => (cops = "memory" => Log!LogInit)
  <2> SUFFICES ASSUME ProvidersInit
               PROVE  Log!LogInit
    OBVIOUS
  <2>1. TypeInv
    BY TypeInit
  <2>2. PICK s \in Seq(Entry) : TiedInv(u, s)
    BY ListInit DEF ListInv
  <2>3. next[Root] = Null
    BY DEF ProvidersInit, TailqInit
  <2>4. s = <<>>
    BY <2>1, <2>2, <2>3, ListFacts DEF TiedInv, Threaded, TypeInv, ProvidersTypeOK,
       TailqTypeOK
  <2>5. Contents = <<>>
    <3>1. Contents = Pairs(pair, <<>>)
      BY <2>1, <2>2, <2>4, ContentsAre
    <3>2. Pairs(pair, <<>>) = <<>>
      BY DEF Pairs
    <3> QED
      BY <3>1, <3>2
  <2> QED
    BY <2>5 DEF ProvidersInit, InterfaceInit, Log!LogInit, Log!InterfaceInit, NoCall,
       Log!NoCall
<1>2. TypeInv /\ ListInv(u) /\ [ProvidersNext]_providerVars
        => [cops = "memory" => Log!LogNext]_<<interface, Contents>>
  <2> SUFFICES ASSUME TypeInv, ListInv(u), [ProvidersNext]_providerVars, cops = "memory"
               PROVE  Log!LogNext \/ UNCHANGED <<interface, Contents>>
    OBVIOUS
  <2>1. PICK s \in Seq(Entry) : TiedInv(u, s) /\ CountInv(u, s)
    BY DEF ListInv
  <2>2. Users = {u} /\ u \in Thread
    BY TailqAssumption DEF Users
  <2>3. UNCHANGED list => UNCHANGED Contents
    BY DEF list, Contents, Walk
  <2>4. CASE Provider(u)
    BY <2>1, <2>4, LogStep DEF Provider, MockProvider
  <2>5. CASE ClientNext(u) /\ UNCHANGED <<tailqVars, pool, cops>>
    <3>1. UNCHANGED Contents
      BY <2>3, <2>5 DEF tailqVars
    <3>2. Log!ClientNext(u)
      BY <2>5 DEF ClientNext, Invoke, Collect, Calls, GetCall, SetCall, NoCall, Missed,
         Log!ClientNext, Log!Invoke, Log!Collect, Log!Calls, Log!GetCall,
         Log!SetCall, Log!NoCall, Log!Missed
    <3> QED
      BY <2>2, <3>1, <3>2 DEF Log!LogNext
  <2>6. CASE Forget /\ UNCHANGED <<tailqVars, cops>>
    BY <2>3, <2>6 DEF Forget, tailqVars
  <2>7. CASE UNCHANGED providerVars
    BY <2>3, <2>7 DEF providerVars, tailqVars
  <2> QED
    BY <2>2, <2>4, <2>5, <2>6, <2>7 DEF ProvidersNext
<1> QED
  BY <1>1, <1>2, TypeInvCorrect, ListCorrect, PTL DEF ProvidersSpec, MemoryImplementsLog
=============================================================================
