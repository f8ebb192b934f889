--------------------------- MODULE CallersProofs ---------------------------
(***************************************************************************)
(* What da_cloud_init makes of any configuration and any answers of the    *)
(* servers, and what the programs that use the library make of that:       *)
(*   RankInv   the list of servers, in ServerRanking alone and among the   *)
(*             steps of da_cloud_init and its callers;                     *)
(*   HeapInv   what is allocated, freed and not yet assigned of a          *)
(*             configuration, at each place of da_cloud_init and after it; *)
(*   PoolInv   where each program has headers and properties to free.      *)
(***************************************************************************)
EXTENDS Callers, WellFoundedInduction, NaturalsInduction, TLAPS

-----------------------------------------------------------------------------
(* The list of servers while it is read, asked and ranked.                 *)

Hosts == IF entries = <<>> THEN DefaultHosts ELSE entries

InOrder ==
  /\ Len(servers) = Len(Hosts)
  /\ \A n \in 1 .. Len(Hosts) : servers[n].id = n /\ servers[n].host \in Copies(Hosts[n])

(* While qsort works only this much is sure.                               *)
Listed(l, hosts) ==
  /\ Len(l) = Len(hosts)
  /\ \A n \in 1 .. Len(hosts) :
       \E m \in 1 .. Len(l) : l[m].id = n /\ l[m].host \in Copies(hosts[n])

RankInv ==
  /\ TypeOK
  /\ manual = OneBit(setting)
  /\ pc = "read" =>
       /\ i = 1 /\ ret = -1 /\ Len(servers) = nservers
       /\ \A n \in 1 .. nservers : servers[n].id = n /\ servers[n].host \in Copies(entries[n])
  /\ pc = "probe" \/ (pc = "rank" /\ ~Sorting) => InOrder
  /\ pc = "rank" => Listed(servers, Hosts)
  /\ EachServerOnce
  /\ Ranked

(* An exchange loses and repeats no element of a list.                     *)
LEMMA ExchangeKeeps ==
  ASSUME NEW l \in Seq(Server), NEW hosts, Listed(l, hosts),
         NEW m \in DOMAIN l, NEW n \in DOMAIN l, m # n,
         NEW r, r = [l EXCEPT ![m] = l[n], ![n] = l[m]]
  PROVE  r \in Seq(Server) /\ Len(r) = Len(l) /\ Listed(r, hosts)
<1>1. l[m] \in Server /\ l[n] \in Server /\ DOMAIN l = 1 .. Len(l) /\ Len(l) \in Nat
  OBVIOUS
<1>2. r \in Seq(Server) /\ Len(r) = Len(l)
  BY <1>1
<1>3. r[m] = l[n] /\ r[n] = l[m] /\ \A k \in 1 .. Len(l) : k # m /\ k # n => r[k] = l[k]
  BY <1>1
<1>4. ASSUME NEW k \in 1 .. Len(hosts)
      PROVE  \E q \in 1 .. Len(r) : r[q].id = k /\ r[q].host \in Copies(hosts[k])
  <2>1. PICK q \in 1 .. Len(l) : l[q].id = k /\ l[q].host \in Copies(hosts[k])
    BY <1>4 DEF Listed
  <2>2. PICK u \in 1 .. Len(l) : r[u] = l[q]
    BY <1>1, <1>3
  <2> QED
    BY <1>2, <2>1, <2>2
<1> QED
  BY <1>2, <1>4 DEF Listed

(* A set of numbers that is not empty has a least one.                     *)
LEMMA LeastNumber ==
  ASSUME NEW S, S \subseteq Nat, S # {}
  PROVE  \E n \in S : \A m \in S : n <= m
<1> DEFINE Less == OpToRel(<, Nat)
<1>1. IsWellFoundedOn(Less, Nat)
  BY NatLessThanWellFounded, Zenon
<1>2. \A m, n \in Nat : m < n => <<m, n>> \in Less
  BY DEF OpToRel
<1>3. PICK n \in S : \A m \in S : ~ (<<m, n>> \in Less)
  <2> HIDE DEF Less
  <2> QED
    BY <1>1, WFMin, Zenon
<1>4. ASSUME NEW m \in S
      PROVE  n <= m
  <2> HIDE DEF Less
  <2>1. n \in Nat /\ m \in Nat /\ ~ (m < n)
    BY <1>2, <1>3
  <2> QED
    BY <2>1
<1> QED
  BY <1>4

(* In a list of which no server compares greater than its neighbour none   *)
(* takes longer than any that follows it.                                  *)
LEMMA NeighboursSuffice ==
  ASSUME NEW l \in Seq(Server),
         \A n \in 1 .. Len(l) - 1 : Cmp(l[n], l[n + 1]) <= 0
  PROVE  \A m, n \in DOMAIN l : m < n => l[m].time <= l[n].time
<1>1. DOMAIN l = 1 .. Len(l) /\ Len(l) \in Nat
  OBVIOUS
<1>2. \A n \in 1 .. Len(l) : l[n].time \in Int
  <2>1. Time \cup {Unreached} \subseteq Int
    BY RankingAssumption DEF Unreached
  <2>2. \A n \in 1 .. Len(l) : l[n] \in Server
    BY <1>1
  <2>3. \A s \in Server : s.time \in Time \cup {Unreached}
    BY DEF Server
  <2> QED
    BY <2>1, <2>2, <2>3
<1>3. \A n \in 1 .. Len(l) - 1 : l[n].time <= l[n + 1].time
  BY <1>1, <1>2 DEF Cmp
<1>4. SUFFICES ASSUME NEW m \in 1 .. Len(l)
               PROVE  \A n \in 1 .. Len(l) : m < n => l[m].time <= l[n].time
  BY <1>1
<1> DEFINE Late == {n \in 1 .. Len(l) : m < n /\ ~ (l[m].time <= l[n].time)}
<1>5. SUFFICES ASSUME Late # {} PROVE FALSE
  OBVIOUS
<1>6. PICK n \in Late : \A k \in Late : n <= k
  <2>1. Late \subseteq Nat
    BY <1>1
  <2> HIDE DEF Late
  <2> QED
    BY <1>5, <2>1, LeastNumber
<1>7. n \in 2 .. Len(l) /\ n - 1 \in 1 .. Len(l) - 1 /\ n - 1 \notin Late
  BY <1>1, <1>4, <1>6
<1>8. l[m].time <= l[n - 1].time
  BY <1>1, <1>2, <1>6, <1>7
<1>9. l[n - 1].time <= l[n].time
  BY <1>1, <1>3, <1>7
<1> QED
  BY <1>1, <1>2, <1>6, <1>7, <1>8, <1>9

LEMMA AnsweredServer ==
  ASSUME NEW s \in Server, NEW t \in Time
  PROVE  /\ Answered(s, t) \in Server
         /\ Answered(s, t).id = s.id /\ Answered(s, t).host = s.host
BY DEF Server, Answered

LEMMA InitRankInv == Init => RankInv
<1> SUFFICES ASSUME Init PROVE RankInv
  OBVIOUS
<1>1. entries \in Seq(Host \cup {NoHost}) /\ Len(entries) <= MaxEntries
  BY RankingAssumption DEF Init
<1>2. TypeOK
  BY <1>1, RankingAssumption DEF Init, TypeOK, OneBit, Server
<1> QED
  BY <1>2 DEF Init, RankInv, EachServerOnce, Ranked, Returned

LEMMA RankStep ==
  ASSUME RankInv, Step \/ ExchangeTied
  PROVE  RankInv'
<1> USE RankingAssumption DEF RankInv, TypeOK, Unreached, settings
<1>1. CASE ReadServer
  <2>1. PICK h \in Copies(entries[nservers + 1]) :
          servers' = Append(servers, NewServer(nservers + 1, h))
    BY <1>1 DEF ReadServer
  <2>2. h \in Host \cup {NoHost}
    BY <1>1 DEF ReadServer, More, Copies
  <2>3. /\ NewServer(nservers + 1, h) \in Server
        /\ NewServer(nservers + 1, h).id = nservers + 1
        /\ NewServer(nservers + 1, h).host = h
    BY <2>2 DEF NewServer, Server, Unreached
  <2>4. TypeOK'
    BY <1>1, <2>1, <2>3 DEF ReadServer, More
  <2>5. \A n \in 1 .. nservers' : servers'[n].id = n /\ servers'[n].host \in Copies(entries[n])
    BY <1>1, <2>1, <2>3 DEF ReadServer, More
  <2>6. Len(servers') = nservers'
    BY <1>1, <2>1, <2>3 DEF ReadServer, More
  <2> QED
    BY <1>1, <2>4, <2>5, <2>6 DEF ReadServer, More, EachServerOnce, Ranked, Returned, Copies
<1>2. CASE ReadHostless
  BY <1>2 DEF ReadHostless, vars, EachServerOnce, Ranked, Returned, InOrder, Hosts,
     Reached, Sorting, More, Copies
<1>3. CASE ReadFails
  BY <1>3 DEF ReadFails, More, EachServerOnce, Ranked, Returned
<1>13. CASE ReadCrashes
  BY <1>13 DEF ReadCrashes, EachServerOnce, Ranked, Returned
<1>4. CASE ReadDone
  <2>1. Defaults \in Seq(Server) /\ Len(Defaults) = Len(DefaultHosts)
        /\ \A n \in 1 .. Len(DefaultHosts) :
             Defaults[n].id = n /\ Defaults[n].host \in Copies(DefaultHosts[n])
    BY DEF Defaults, NewServer, Server, Unreached, Copies
  <2>2. TypeOK'
    BY <1>4, <2>1 DEF ReadDone
  <2>3. InOrder'
    <3>1. CASE nservers = 0
      <4>2. Len(entries) = 0 /\ servers' = Defaults /\ entries' = entries
        BY <1>4, <3>1 DEF ReadDone
      <4>3. entries = <<>>
        BY <4>2
      <4>1. Hosts' = DefaultHosts /\ servers' = Defaults
        BY <4>2, <4>3 DEF Hosts
      <4> QED
        BY <2>1, <4>1 DEF InOrder, Copies
    <3>2. CASE nservers # 0
      <4>1. Hosts' = entries /\ servers' = servers /\ Len(servers) = Len(entries)
        BY <1>4, <3>2 DEF ReadDone, Hosts
      <4>2. \A n \in 1 .. Len(entries) : servers[n].id = n /\ servers[n].host \in Copies(entries[n])
        BY <1>4 DEF ReadDone
      <4> QED
        BY <4>1, <4>2 DEF InOrder, Copies
    <3> QED
      BY <3>1, <3>2
  <2> QED
    BY <1>4, <2>2, <2>3 DEF ReadDone, EachServerOnce, Ranked, Returned
<1>5. CASE ProbeAnswered
  <2>1. PICK t \in Time : servers' = [servers EXCEPT ![i] = Answered(servers[i], t)]
    BY <1>5 DEF ProbeAnswered
  <2>2. /\ servers[i] \in Server /\ Answered(servers[i], t) \in Server
        /\ Answered(servers[i], t).id = servers[i].id
        /\ Answered(servers[i], t).host = servers[i].host
    BY <1>5, AnsweredServer DEF ProbeAnswered, Probing
  <2>3. /\ servers' \in Seq(Server) /\ Len(servers') = Len(servers)
        /\ \A n \in 1 .. Len(servers) :
             servers'[n].id = servers[n].id /\ servers'[n].host = servers[n].host
    BY <1>5, <2>1, <2>2 DEF ProbeAnswered, Probing
  <2>4. TypeOK'
    BY <1>5, <2>3 DEF ProbeAnswered, Probing
  <2>5. InOrder'
    BY <1>5, <2>3 DEF ProbeAnswered, Probing, InOrder, Hosts, Copies
  <2> QED
    BY <1>5, <2>4, <2>5 DEF ProbeAnswered, Probing, EachServerOnce, Ranked, Returned
<1>6. CASE ProbeFailed
  <2>1. InOrder' /\ pc' = "probe"
    BY <1>6 DEF ProbeFailed, Probing, InOrder, Hosts, Copies
  <2> QED
    BY <1>6, <2>1 DEF ProbeFailed, Probing, EachServerOnce, Ranked, Returned
<1>12. CASE ProbeHangs
  BY <1>12 DEF ProbeHangs, Probing, EachServerOnce, Ranked, Returned
<1>7. CASE ProbeAborted
  BY <1>7 DEF ProbeAborted, Probing, EachServerOnce, Ranked, Returned
<1>8. CASE ProbeDone
  <2>1. InOrder /\ InOrder'
    BY <1>8 DEF ProbeDone, InOrder, Hosts, Copies
  <2>2. Listed(servers', Hosts')
    BY <1>8, <2>1 DEF ProbeDone, InOrder, Listed, Hosts, Copies
  <2> QED
    BY <1>8, <2>1, <2>2 DEF ProbeDone, EachServerOnce, Ranked, Returned
<1>9. CASE Exchange \/ ExchangeTied
  <2>1. Sorting /\ UNCHANGED <<settings, pc, nservers, i, ret>> /\ Sorting'
    BY <1>9 DEF Exchange, ExchangeTied, Sorting
  <2>2. PICK m, n \in DOMAIN servers : m < n /\ servers' = Swapped(m, n)
    BY <1>9 DEF Exchange, ExchangeTied
  <2>3. m # n
    BY <2>2
  <2>7. servers \in Seq(Server) /\ Listed(servers, Hosts)
    BY <2>1 DEF Sorting
  <2>8. servers' = [servers EXCEPT ![m] = servers[n], ![n] = servers[m]]
    BY <2>2 DEF Swapped
  <2>4. servers' \in Seq(Server) /\ Len(servers') = Len(servers) /\ Listed(servers', Hosts)
    <3>1. \A r : r = [servers EXCEPT ![m] = servers[n], ![n] = servers[m]]
                => r \in Seq(Server) /\ Len(r) = Len(servers) /\ Listed(r, Hosts)
      <4> HIDE DEF RankInv, TypeOK
      <4> QED
        BY <2>3, <2>7, ExchangeKeeps
    <3> QED
      BY <2>8, <3>1
  <2>5. TypeOK'
    BY <2>1, <2>4
  <2>6. Listed(servers', Hosts')
    BY <2>1, <2>4 DEF Hosts
  <2> QED
    BY <2>1, <2>5, <2>6 DEF Sorting, EachServerOnce, Ranked, Returned
<1>10. CASE RankDone
  <2>1. UNCHANGED <<settings, servers, nservers, i, ret>> /\ pc = "rank" /\ pc' = "returned"
    BY <1>10 DEF RankDone
  <2>2. DOMAIN Hosts = 1 .. Len(Hosts)
    BY DEF Hosts
  <2>3. EachServerOnce'
    <3>1. Listed(servers, Hosts)
      BY <2>1
    <3>2. DOMAIN servers = 1 .. Len(servers)
      OBVIOUS
    <3> QED
      BY <2>1, <2>2, <3>1, <3>2 DEF Listed, EachServerOnce, Hosts, Copies
  <2>4. Ranked'
    <3>1. CASE Sorting
      <4>1. \A n \in 1 .. Len(servers) - 1 : Cmp(servers[n], servers[n + 1]) <= 0
        BY <1>10, <3>1 DEF RankDone
      <4>2. \A m, n \in DOMAIN servers : m < n => servers[m].time <= servers[n].time
        BY <4>1, NeighboursSuffice
      <4>3. setting % 2 # 1
        BY <3>1 DEF Sorting, OneBit
      <4> QED
        BY <2>1, <4>2, <4>3 DEF Ranked, Reached
    <3>2. CASE ret # 0
      BY <2>1, <3>2 DEF Ranked
    <3>3. CASE ~Sorting /\ ret = 0
      <4>1. InOrder
        BY <2>1, <3>3
      <4>2. setting % 2 = 1
        BY <2>1, <3>3 DEF Sorting, OneBit
      <4> QED
        BY <2>1, <4>1, <4>2 DEF Ranked, InOrder
    <3> QED
      BY <3>1, <3>2, <3>3
  <2> QED
    BY <2>1, <2>3, <2>4
<1> QED
  BY <1>1, <1>2, <1>3, <1>4, <1>5, <1>6, <1>7, <1>8, <1>9, <1>10, <1>12, <1>13
     DEF Step, Progress, Failure

LEMMA RankStutter ==
  ASSUME RankInv, UNCHANGED vars
  PROVE  RankInv'
BY DEF RankInv, TypeOK, vars, EachServerOnce, Ranked, Returned, InOrder, Hosts, Reached,
   Sorting, Listed, Copies

(* Every variable of the ranking keeps its type: no more entries are read  *)
(* than there are, and no server is asked twice (dacloud.c:128-173,        *)
(* 210-247).                                                               *)
THEOREM RankingTypeCorrect == Spec => []TypeOK
<1>1. RankInv /\ [Next]_vars => RankInv'
  BY RankStep, RankStutter DEF Next, Done
<1>2. RankInv => TypeOK
  BY DEF RankInv
<1> QED
  BY <1>1, <1>2, InitRankInv, PTL DEF Spec

-----------------------------------------------------------------------------
(* Among the steps of da_cloud_init and its callers.                       *)

(* Only da_cloud_init changes the list.                                    *)
LEMMA ListOfInit ==
  CallerNext => (phase = "servers" /\ (Step \/ ExchangeTied)) \/ UNCHANGED vars
BY DEF CallerNext, InitStep, ServersTied, AllocHead, NoHead, ConfigUnread, ConfigRead, Licence,
   NoLicence,
   NoCache, BadCache, CacheReady, CacheFails, Servers, Return, Choose, HeaderInit, Detect,
   ReadProperties, Release, NewId, CallFini, CallId, Exit, Static

LEMMA RankInvCorrect == CallerSpec => []RankInv
<1>1. CallersInit => RankInv
  BY InitRankInv DEF CallersInit, LifecycleInit
<1>2. RankInv /\ [CallerNext]_callerVars => RankInv'
  BY RankStep, RankStutter, ListOfInit DEF callerVars
<1> QED
  BY <1>1, <1>2, PTL DEF CallerSpec

(* When da_cloud_init succeeds each entry of the configuration, or each    *)
(* default server, is in the list once: reading leaves none out, and       *)
(* sorting loses and repeats none (dacloud.c:128-173, 243-244).            *)
THEOREM ListIsComplete == CallerSpec => []EachServerOnce
BY RankInvCorrect, PTL DEF RankInv

(* The list is in the order of the configuration with manual ranking, and  *)
(* otherwise none that has answered comes before a faster one: neighbours  *)
(* of which _servers_cmp calls none greater are enough, although it never  *)
(* calls two equal (dacloud.c:109, 175-187, 240-245).                      *)
THEOREM ListIsRanked == CallerSpec => []Ranked
BY RankInvCorrect, PTL DEF RankInv

-----------------------------------------------------------------------------
(* The programs.                                                           *)

Closed(p) ==
  /\ "init" \in DOMAIN p
  /\ \A l \in DOMAIN p : \A n \in {1, 2} : p[l][n] \in (DOMAIN p \ {"init"}) \cup {"exit"}

(* A call of a program is followed by a call of the same program, or by    *)
(* its end.                                                                *)
LEMMA ProgramsClosed ==
  ASSUME NEW c \in DOMAIN Program
  PROVE  Closed(Program[c])
<1>1. Closed(Batch)
  BY DEF Closed, Batch, Then
<1>2. Closed(SimpleBench)
  BY DEF Closed, SimpleBench, Then
<1>3. Closed(Talloc)
  BY DEF Closed, Talloc, Then
<1>4. Closed(Mt)
  BY DEF Closed, Mt, Then
<1>5. Closed(Fcgi)
  BY DEF Closed, Fcgi, Then
<1>6. Closed(CppClient)
  BY DEF Closed, CppClient, Then
<1>7. Closed(Fuzz)
  BY DEF Closed, Fuzz, Then
<1>8. Closed(Tests)
  BY DEF Closed, Tests, Then
<1>9. Closed(CppWrapper)
  BY DEF Closed, CppWrapper, CppDetect, Then
<1>10. Closed(Python)
  BY DEF Closed, Python, Then
<1>11. Closed(Go)
  BY DEF Closed, Go, Then
<1> QED
  BY <1>1, <1>2, <1>3, <1>4, <1>5, <1>6, <1>7, <1>8, <1>9, <1>10, <1>11 DEF Program

(* Only the fuzz target and the Go wrapper go on after a da_cloud_fini.    *)
FiniEnds(p) == p["fini"] = <<"exit", "exit">> /\ "fini2" \notin DOMAIN p

LEMMA FiniIsLast ==
  ASSUME NEW c \in DOMAIN Program, c \notin {"fuzz", "go"}
  PROVE  FiniEnds(Program[c])
<1>1. FiniEnds(Batch) /\ FiniEnds(SimpleBench) /\ FiniEnds(Talloc) /\ FiniEnds(Mt)
  BY DEF FiniEnds, Batch, SimpleBench, Talloc, Mt, Then
<1>2. FiniEnds(Fcgi) /\ FiniEnds(CppClient) /\ FiniEnds(Tests)
  BY DEF FiniEnds, Fcgi, CppClient, Tests, Then
<1>3. FiniEnds(CppWrapper) /\ FiniEnds(Python)
  BY DEF FiniEnds, CppWrapper, Python, Then
<1> QED
  BY <1>1, <1>2, <1>3 DEF Program

-----------------------------------------------------------------------------
(* The objects of a configuration.                                         *)

Undecided ==
  caller = "undecided" =>
    /\ label = "init" /\ failed = {} /\ leaked = {} /\ bad = {} /\ finis = 0
    /\ \A o \in Request : status[o] = "garbage"

InitFirst == caller # "undecided" => phase = "called" /\ label # "init"

(* Nothing is read before its place in da_cloud_init is reached.           *)
InPhase ==
  /\ phase \notin {"servers", "called", "ended"} => pc = "read"
  /\ phase = "ended" => pc \in {"read", "crashed"}
  /\ phase = "servers" => pc \notin {"returned", "crashed"}
  /\ phase = "called" => pc \in {"read", "returned"}

(* What da_cloud_init has not assigned yet is garbage only where the       *)
(* caller has not cleared it, and no more once the cache is configured.    *)
Assigned ==
  \A o \in Frees : status[o] = "garbage" =>
    /\ ~zeroed /\ pc = "read" /\ o \in {"shead", "efp", "licence"}
    /\ phase \notin {"cache", "servers"}
    /\ o = "shead" => phase \in {"shead", "ended"}
    /\ o = "efp" => phase \in {"shead", "file", "ended"}

(* What is freed on the way is not referred to, but for the servers that a *)
(* failed realloc has freed.                                               *)
DeadServers == "servers" \in Frees /\ pc = "returned" /\ ret # 0 /\ i = 1

FreedOnce ==
  finis = 0 => \A o \in Frees : status[o] = "dead" => o = "servers" /\ DeadServers

(* The string of the cache is freed by the cache, config_t by              *)
(* da_cloud_init where it gets to the servers.                             *)
TakenOver ==
  /\ status["cfgstr"] # "live"
  /\ pc \in {"probe", "rank"} \/ (pc = "returned" /\ ret = 0) => status["config_t"] # "live"

(* The client of memcached is freed together with its pool of clients, or  *)
(* where the list of hosts could not be parsed; no other cache has one.    *)
DataFollowed ==
  /\ status["data"] # "garbage"
  /\ phase \in {"shead", "file", "licence"} => status["data"] = "null"
  /\ finis = 0 /\ status["provider"] # "null" => status["data"] # "dead"
  /\ status["data"] = "live" =>
       status["provider"] = "live" \/ (cache = "memcached" /\ status["provider"] = "null")

(* The id can be asked for once a cache is configured.                     *)
IdSet ==
  phase = "servers" \/ (phase = "called" /\ pc # "read") => cache = "none" \/ status["id"] = "live"

Gone == finis > 0 => \A o \in Frees : status[o] # "live"

Last == finis > 0 /\ caller \notin {"fuzz", "go"} => label \in {"exit", "gone"}

HeapInv ==
  /\ CallersTypeOK
  /\ Undecided /\ InitFirst /\ InPhase
  /\ Assigned /\ FreedOnce /\ TakenOver /\ DataFollowed /\ IdSet /\ Gone
  /\ Last
  /\ FiniSafe

LEMMA RankInvStep == RankInv /\ [CallerNext]_callerVars => RankInv'
BY RankStep, RankStutter, ListOfInit DEF callerVars

LEMMA HeapInvInit == CallersInit => HeapInv
<1> SUFFICES ASSUME CallersInit PROVE HeapInv
  OBVIOUS
<1>1. RankInv
  BY InitRankInv DEF CallersInit, LifecycleInit
<1>2. LifecycleTypeOK
  BY <1>1 DEF CallersInit, LifecycleInit, LifecycleTypeOK, RankInv, Config,
     CacheConfig, Request,
     Status, Cleared
<1>3. CallersTypeOK
  BY <1>2 DEF CallersInit, CallersTypeOK
<1>4. Undecided /\ InitFirst /\ InPhase /\ Gone /\ Last /\ FiniSafe
  BY DEF CallersInit, LifecycleInit, Init, Request, Config, CacheConfig, Undecided,
     InitFirst, InPhase, Gone, Last, FiniSafe
<1>5. Assigned /\ FreedOnce /\ TakenOver /\ DataFollowed /\ IdSet
  BY DEF CallersInit, LifecycleInit, Init, Assigned, FreedOnce, TakenOver, DataFollowed, IdSet,
     Frees, Config,
     CacheConfig, Request, Cleared
<1> QED
  BY <1>3, <1>4, <1>5 DEF HeapInv

(* The steps of da_cloud_init.                                             *)
InitKeeps ==
  /\ LifecycleTypeOK' /\ InPhase' /\ Assigned' /\ FreedOnce' /\ TakenOver'
  /\ DataFollowed' /\ IdSet'
  /\ finis' = finis /\ bad' = bad
  /\ \A o \in Request : status'[o] = status[o]
  /\ caller = "undecided"

(* Where a step of the ranking leads.                                      *)
PlaceStep ==
  /\ pc # "read" => pc' # "read"
  /\ pc' = "probe" => pc \in {"read", "probe"}
  /\ pc' = "rank" => pc \in {"probe", "rank"}
  /\ pc' = "returned" /\ ret' = 0 => pc = "rank"
  /\ pc' = "crashed" => pc \in {"read", "crashed"}
  /\ pc = "read" /\ pc' \in {"returned", "crashed"} => i' = i /\ ret' = ret
  /\ nservers' > nservers => pc = "read"

LEMMA StepPlaces ==
  ASSUME RankInv, Step
  PROVE  PlaceStep
<1> USE DEF PlaceStep
<1>1. nservers \in Nat /\ ~(nservers > nservers)
  BY DEF RankInv, TypeOK
<1>2. pc = "read" => ret = -1
  BY DEF RankInv
<1>3. CASE ReadServer
  BY <1>3 DEF ReadServer, More
<1>4. CASE ReadHostless
  BY <1>1, <1>2, <1>4 DEF ReadHostless, More, vars
<1>5. CASE ReadFails
  BY <1>2, <1>5 DEF ReadFails, More
<1>6. CASE ReadDone
  BY <1>1, <1>6 DEF ReadDone
<1>7. CASE ProbeAnswered
  BY <1>1, <1>7 DEF ProbeAnswered, Probing
<1>8. CASE ProbeFailed
  BY <1>1, <1>8 DEF ProbeFailed, Probing
<1>9. CASE ProbeAborted
  BY <1>1, <1>9 DEF ProbeAborted, Probing
<1>10. CASE ProbeDone
  BY <1>1, <1>10 DEF ProbeDone
<1>11. CASE Exchange
  BY <1>1, <1>11 DEF Exchange, Sorting
<1>12. CASE RankDone
  BY <1>1, <1>12 DEF RankDone
<1>13. CASE ReadCrashes
  BY <1>1, <1>13 DEF ReadCrashes
<1>14. CASE ProbeHangs
  BY <1>1, <1>14 DEF ProbeHangs, Probing
<1> QED
  BY <1>3, <1>4, <1>5, <1>6, <1>7, <1>8, <1>9, <1>10, <1>11, <1>12, <1>13, <1>14
     DEF Step, Progress, Failure

LEMMA InitStepKeeps ==
  ASSUME RankInv, RankInv', HeapInv, InitStep
  PROVE  InitKeeps
<1> USE DEF InitKeeps, LifecycleTypeOK, InPhase, Assigned, FreedOnce, TakenOver,
   DataFollowed, IdSet, DeadServers, Goto,
        vars, Frees, Config, CacheConfig, Request, Status
<1>1. /\ phase \notin {"called", "ended"} /\ caller = "undecided" /\ finis = 0 /\ TypeOK /\ TypeOK'
      /\ LifecycleTypeOK /\ InPhase /\ Assigned /\ FreedOnce /\ TakenOver /\ DataFollowed
      /\ IdSet
  BY DEF InitStep, AllocHead, NoHead, ConfigUnread, ConfigRead, Licence, NoLicence,
     NoCache,
     BadCache, CacheReady, CacheFails, Servers, HeapInv, CallersTypeOK, Undecided, InitFirst, RankInv
<1>2. CASE AllocHead
  BY <1>1, <1>2 DEF AllocHead, Becomes
<1>3. CASE NoHead
  BY <1>1, <1>3 DEF NoHead
<1>4. CASE ConfigUnread
  BY <1>1, <1>4 DEF ConfigUnread
<1>5. CASE ConfigRead
  BY <1>1, <1>5 DEF ConfigRead
<1>6. CASE Licence
  <2>1. PICK s \in {"live", "null"} : status' = [status EXCEPT !["licence"] = s]
    BY <1>6 DEF Licence
  <2> QED
    BY <1>1, <1>6, <2>1, LifecycleAssumption DEF Licence
<1>7. CASE NoLicence
  <2>1. CASE status' = [status EXCEPT !["licence"] = "live"] /\ Goto("cache")
    BY <1>1, <1>7, <2>1 DEF NoLicence
  <2>2. CASE UNCHANGED status /\ Goto("ended")
    BY <1>1, <1>7, <2>2 DEF NoLicence
  <2> QED
    BY <1>7, <2>1, <2>2 DEF NoLicence
<1>8. CASE NoCache
  BY <1>1, <1>8 DEF NoCache
<1>9. CASE BadCache
  BY <1>1, <1>9 DEF BadCache
<1>10. CASE CacheReady
  <2>1. PICK s \in String, q \in Left(TRUE) :
          status' = [status EXCEPT !["cfgstr"] = s, !["id"] = IdOf,
                                   !["provider"] = q.provider, !["data"] = q.data]
    BY <1>10 DEF CacheReady
  <2>2. /\ s \in {"null", "dead"} /\ q.provider \in {"null", "live"} /\ q.data \in {"null", "live"}
        /\ q.data = "live" => cache = "memcached"
    BY <2>1 DEF String, Left
  <2> QED
    BY <1>1, <1>10, <2>1, <2>2 DEF CacheReady, IdOf
<1>11. CASE CacheFails
  <2>1. PICK s \in String \cup (IF cache = "memcached" THEN {"null"} ELSE {}), q \in Left(FALSE) :
          status' = [status EXCEPT !["cfgstr"] = s, !["id"] = IdOf, !["config_t"] = "dead",
                                   !["provider"] = q.provider, !["data"] = q.data]
    BY <1>11 DEF CacheFails
  <2>2. /\ s \in {"null", "dead"} /\ q.provider \in {"null", "live"} /\ q.data \in {"null", "dead"}
        /\ q.data = "dead" => q.provider = "null"
    BY <1>11, <2>1 DEF CacheFails, String, Left
  <2> QED
    BY <1>1, <1>11, <2>1, <2>2 DEF CacheFails, IdOf
<1>12. CASE Servers
  <2>1. Step /\ phase = "servers" /\ status' = Heap
    BY <1>12 DEF Servers
  <2>2. pc = "read" => i = 1 /\ ret = -1
    BY DEF RankInv
  <2>3. PlaceStep
    BY <2>1, <1>1, StepPlaces
  <2>5. /\ pc = "read" /\ pc' = "returned"
        => status' = status \/ status' = [status EXCEPT !["servers"] = "dead"]
    BY <2>1, <1>1 DEF Heap, Reallocated, Becomes
  <2>6. /\ pc = "read" /\ pc' = "probe"
        => status' = [status EXCEPT !["servers"] = "live", !["config_t"] = "dead"]
    BY <2>1, <1>1 DEF Heap, Becomes
  <2>7. /\ ~(pc = "read" /\ pc' \in {"returned", "probe"})
        => \/ status' = status
           \/ pc = "read" /\ status' = [status EXCEPT !["servers"] = "live", !["hosts"] = "live"]
           \/ pc = "read" /\ status' = [status EXCEPT !["servers"] = "live"]
    BY <2>1, <1>1, <2>3 DEF Heap, Becomes, PlaceStep, HostsOf
  <2>8. finis' = finis /\ bad' = bad /\ zeroed' = zeroed /\ cache' = cache
        /\ phase' = IF pc' = "returned" THEN "called"
                    ELSE IF pc' = "crashed" THEN "ended" ELSE "servers"
    BY <1>12 DEF Servers
  <2> QED
    BY <1>1, <2>1, <2>2, <2>3, <2>5, <2>6, <2>7, <2>8 DEF PlaceStep
<1> QED
  BY <1>2, <1>3, <1>4, <1>5, <1>6, <1>7, <1>8, <1>9, <1>10, <1>11, <1>12 DEF InitStep

(* The calls that follow.                                                  *)
LEMMA AfterCall ==
  ASSUME CallersTypeOK, caller # "undecided", label \in DOMAIN Program[caller],
         caller' = caller, NEW ok \in BOOLEAN, To(ok)
  PROVE  label' \in (DOMAIN Program[caller] \ {"init"}) \cup {"exit", "gone"}
<1>1. Closed(Program[caller])
  BY ProgramsClosed DEF CallersTypeOK
<1> QED
  BY <1>1 DEF Closed, To

(* What a call of a program leaves as it is.                               *)
CallFrame ==
  /\ caller # "undecided" /\ phase = "called" /\ bad = {}
  /\ UNCHANGED <<vars, zeroed, phase, cache, caller>>
  /\ label' \in (DOMAIN Program[caller] \ {"init"}) \cup {"exit", "gone"}
  /\ failed' \subseteq {"init", "hinit", "detect", "pool", "found"}
  /\ leaked' \subseteq {"headers", "properties"}
  /\ status' \in [Config \cup Request -> Status]
  /\ label \in {"exit", "gone"} => label' \in {"exit", "gone"}

LEMMA CallTypes ==
  ASSUME HeapInv, 
         Choose \/ HeaderInit \/ Detect \/ ReadProperties \/ Release \/ NewId \/ CallFini
           \/ CallId \/ Exit
  PROVE  CallFrame
<1> USE DEF CallFrame, Static, Calling
<1>1. /\ caller # "undecided" /\ phase = "called" /\ bad = {}
      /\ UNCHANGED <<vars, zeroed, phase, cache, caller>>
  BY DEF HeapInv, InitFirst, Choose, HeaderInit, Detect, ReadProperties, Release,
     NewId, CallFini,
     CallId, Exit
<1>2. /\ CallersTypeOK /\ LifecycleTypeOK /\ status \in [Config \cup Request -> Status]
      /\ failed \subseteq {"init", "hinit", "detect", "pool", "found"}
      /\ leaked \subseteq {"headers", "properties"}
      /\ label \in DOMAIN Program[caller] \cup {"exit", "gone"}
  BY <1>1 DEF HeapInv, CallersTypeOK, LifecycleTypeOK
<1>3. \A ok \in BOOLEAN : label \notin {"exit", "gone"} /\ To(ok)
                          => label' \in (DOMAIN Program[caller] \ {"init"}) \cup {"exit", "gone"}
  BY <1>1, <1>2, AfterCall
<1> USE DEF Config, CacheConfig, Request, Status
<1>4. CASE Choose
  BY <1>1, <1>2, <1>3, <1>4 DEF Choose
<1>5. CASE HeaderInit
  BY <1>1, <1>2, <1>3, <1>5 DEF HeaderInit, Becomes, Lost
<1>6. CASE Detect
  BY <1>1, <1>2, <1>3, <1>6 DEF Detect, Becomes, Lost
<1>7. CASE ReadProperties
  BY <1>1, <1>2, <1>3, <1>7 DEF ReadProperties
<1>8. CASE Release
  BY <1>1, <1>2, <1>3, <1>8 DEF Release, Freed
<1>9. CASE NewId
  BY <1>1, <1>2, <1>3, <1>9 DEF NewId, Becomes
<1>10. CASE CallFini
  BY <1>1, <1>2, <1>3, <1>10 DEF CallFini, Fini, Freed
<1>11. CASE CallId
  BY <1>1, <1>2, <1>3, <1>11 DEF CallId, CacheId
<1>12. CASE Exit
  BY <1>1, <1>2, <1>12 DEF Exit
<1> QED
  BY <1>4, <1>5, <1>6, <1>7, <1>8, <1>9, <1>10, <1>11, <1>12

(* Of all calls only da_cloud_fini touches the objects of a configuration. *)
QuietCall ==
  /\ finis' = finis
  /\ \A o \in Config : status'[o] = status[o]
  /\ \A b \in bad' : b.op # "fini"

LEMMA QuietCalls ==
  ASSUME HeapInv, CallFrame,
         Choose \/ HeaderInit \/ Detect \/ ReadProperties \/ Release \/ NewId \/ CallId \/ Exit
  PROVE  QuietCall
<1> USE DEF QuietCall, CallFrame, Calling, Config, CacheConfig, Request
<1>1. status \in [Config \cup Request -> Status]
  BY DEF HeapInv, CallersTypeOK, LifecycleTypeOK
<1>2. CASE Choose
  BY <1>1, <1>2 DEF Choose
<1>3. CASE HeaderInit
  BY <1>1, <1>3 DEF HeaderInit, Becomes
<1>4. CASE Detect
  <2>1. status' = status \/ status' = Becomes({"properties"}, "live")
    BY <1>4 DEF Detect
  <2>2. finis' = finis /\ bad' = Misused("detect", Uses)
    BY <1>4 DEF Detect
  <2>3. \A b \in bad' : b.op # "fini"
    BY <2>2 DEF Misused
  <2> QED
    BY <1>1, <2>1, <2>2, <2>3 DEF Becomes
<1>5. CASE ReadProperties
  BY <1>1, <1>5 DEF ReadProperties, Misused
<1>6. CASE Release
  <2>1. ObjectOf(label) \in Request
    BY DEF ObjectOf
  <2>2. label # "fini"
    BY <1>6 DEF Release
  <2> QED
    BY <1>1, <1>6, <2>1, <2>2 DEF Release, Freed, Misused
<1>7. CASE NewId
  BY <1>1, <1>7 DEF NewId, Becomes
<1>8. CASE CallId
  BY <1>1, <1>8 DEF CallId, CacheId
<1>9. CASE Exit
  BY <1>1, <1>9 DEF Exit
<1> QED
  BY <1>2, <1>3, <1>4, <1>5, <1>6, <1>7, <1>8, <1>9

LEMMA QuietCallKeeps ==
  ASSUME RankInv, RankInv', HeapInv, CallFrame, QuietCall
  PROVE  HeapInv'
<1> USE DEF CallFrame, QuietCall, HeapInv, vars
<1>1. LifecycleTypeOK' /\ CallersTypeOK'
  BY DEF CallersTypeOK, LifecycleTypeOK, RankInv
<1>2. Undecided' /\ InitFirst' /\ InPhase' /\ Last' /\ FiniSafe'
  BY DEF Undecided, InitFirst, InPhase, Last, FiniSafe
<1>3. Assigned' /\ FreedOnce' /\ TakenOver' /\ DataFollowed' /\ IdSet' /\ Gone'
  BY DEF Assigned, FreedOnce, TakenOver, DataFollowed, IdSet, Gone, DeadServers, Frees, Config,
     CacheConfig
<1> QED
  BY <1>1, <1>2, <1>3

LEMMA FiniKeeps ==
  ASSUME RankInv, RankInv', HeapInv, CallFrame, CallFini
  PROVE  HeapInv'
<1> USE DEF CallFrame, HeapInv, vars
<1>0. /\ Fini /\ label \in {"fini", "fini2"} /\ To(TRUE) /\ caller \in DOMAIN Program
      /\ status \in [Config \cup Request -> Status] /\ finis \in 0 .. 2
  BY DEF CallFini, Calling, CallersTypeOK, LifecycleTypeOK
<1>1. LifecycleTypeOK' /\ CallersTypeOK'
  BY <1>0 DEF CallersTypeOK, LifecycleTypeOK, RankInv, Fini
<1>2. Undecided' /\ InitFirst' /\ InPhase'
  BY DEF Undecided, InitFirst, InPhase
<1>3. /\ Assigned' /\ TakenOver' /\ DataFollowed' /\ IdSet' /\ Gone'
      /\ finis' > 0
  BY <1>0 DEF Fini, Freed, Followed, Assigned, TakenOver, DataFollowed, IdSet, Gone, Frees,
     Config, CacheConfig, Request, Status
<1>4. Last'
  <2>1. label \in DOMAIN Program[caller]
    BY <1>0 DEF CallersTypeOK
  <2>2. ASSUME caller \notin {"fuzz", "go"}
        PROVE  label' = "exit"
    <3>1. FiniEnds(Program[caller])
      BY <1>0, <2>2, FiniIsLast
    <3> QED
      BY <1>0, <2>1, <3>1 DEF FiniEnds, To
  <2> QED
    BY <2>2 DEF Last
<1>5. FiniSafe'
  <2>1. ASSUME NEW o \in Followed, status[o] \in {"garbage", "dead"}
        PROVE  \/ o = "servers" /\ pc = "returned" /\ ret # 0 /\ i = 1
               \/ status[o] = "garbage" /\ ~zeroed /\ ~InitOk
               \/ finis' > 1 /\ caller \in {"fuzz", "go"}
    <3>1. CASE status[o] = "garbage"
      BY <2>1, <3>1 DEF Followed, DataFollowed, Assigned, InitOk
    <3>2. CASE status[o] = "dead" /\ finis = 0
      BY <2>1, <3>2 DEF Followed, DataFollowed, FreedOnce, DeadServers
    <3>3. CASE finis > 0
      BY <1>0, <3>3 DEF Last, Fini
    <3> QED
      BY <1>0, <2>1, <3>1, <3>2, <3>3
  <2>2. \A b \in bad' : \E o \in Followed : /\ status[o] \in {"garbage", "dead"}
                                         /\ b.obj = o /\ b.was = status[o]
    BY <1>0 DEF Fini, Misused
  <2>3. UNCHANGED <<pc, ret, i, zeroed, caller>> /\ InitOk' = InitOk
    BY DEF InitOk
  <2> QED
    BY <2>1, <2>2, <2>3 DEF FiniSafe
<1> QED
  BY <1>1, <1>2, <1>3, <1>4, <1>5 DEF FreedOnce

LEMMA ReturnKeeps ==
  ASSUME RankInv, RankInv', HeapInv, Return
  PROVE  HeapInv'
<1> USE DEF HeapInv, vars
<1>1. PICK c \in DOMAIN Program :
        caller' = c /\ label' = Program[c]["init"][IF InitOk THEN 1 ELSE 2]
  BY DEF Return
<1>2. Closed(Program[c])
  BY <1>1, ProgramsClosed
<1>3. label' \in (DOMAIN Program[c] \ {"init"}) \cup {"exit"}
  BY <1>1, <1>2 DEF Closed
<1>4. caller' # "undecided"
  BY <1>1 DEF Program
<1>5. label = "init" /\ caller = "undecided" /\ phase = "called" /\ failed = {} /\ leaked = {}
  BY DEF Return, InitFirst, Undecided
<1>6. finis = 0 /\ bad = {}
  BY <1>5 DEF Undecided
<1>7. UNCHANGED <<vars, zeroed, phase, cache, finis, bad, leaked>>
  BY DEF Return
<1>8. status \in [Config \cup Request -> Status]
  BY DEF CallersTypeOK, LifecycleTypeOK
<1>9. /\ status' \in [Config \cup Request -> Status]
      /\ \A o \in Config : status'[o] = status[o]
  BY <1>8 DEF Return, Becomes, Config, CacheConfig, Request, Status
<1>10. LifecycleTypeOK' /\ CallersTypeOK'
  <2>1. failed' \subseteq {"init", "hinit", "detect", "pool", "found"}
    BY <1>5 DEF Return
  <2> QED
    BY <1>1, <1>3, <1>5, <1>7, <1>9, <2>1 DEF CallersTypeOK, LifecycleTypeOK, RankInv
<1>11. Undecided' /\ InitFirst' /\ InPhase' /\ Last' /\ FiniSafe'
  BY <1>3, <1>4, <1>5, <1>6, <1>7 DEF Undecided, InitFirst, InPhase, Last, FiniSafe
<1>12. Assigned' /\ FreedOnce' /\ TakenOver' /\ DataFollowed' /\ IdSet' /\ Gone'
  BY <1>7, <1>9 DEF Assigned, FreedOnce, TakenOver, DataFollowed, IdSet, Gone, DeadServers, Frees,
     Config, CacheConfig
<1> QED
  BY <1>10, <1>11, <1>12

LEMMA HeapInvStep == RankInv /\ RankInv' /\ HeapInv /\ [CallerNext]_callerVars => HeapInv'
<1> SUFFICES ASSUME RankInv, RankInv', HeapInv, [CallerNext]_callerVars PROVE HeapInv'
  OBVIOUS
<1>1. CASE InitStep /\ UNCHANGED calls
  <2>1. InitKeeps
    BY <1>1, InitStepKeeps
  <2>2. label = "init" /\ failed = {} /\ leaked = {} /\ bad = {} /\ finis = 0
        /\ \A o \in Request : status[o] = "garbage"
    BY <2>1 DEF InitKeeps, HeapInv, Undecided
  <2> QED
    BY <1>1, <2>1, <2>2 DEF InitKeeps, HeapInv, CallersTypeOK, Undecided, InitFirst,
       Gone, Last,
       FiniSafe, calls
<1>6. CASE ServersTied /\ UNCHANGED calls
  BY <1>6 DEF ServersTied, ExchangeTied, settings, cycle, calls, RankInv, HeapInv,
     CallersTypeOK, LifecycleTypeOK, Undecided, InitFirst, InPhase, Assigned, FreedOnce,
     DeadServers, TakenOver, DataFollowed, IdSet, Gone, Last, FiniSafe, InitOk
<1>2. CASE Return
  BY <1>2, ReturnKeeps
<1>3. CASE Choose \/ HeaderInit \/ Detect \/ ReadProperties \/ Release \/ NewId \/ CallId \/ Exit
  <2>1. CallFrame
    BY <1>3, CallTypes
  <2>2. QuietCall
    BY <1>3, <2>1, QuietCalls
  <2> QED
    BY <2>1, <2>2, QuietCallKeeps
<1>4. CASE CallFini
  BY <1>4, CallTypes, FiniKeeps
<1>5. CASE UNCHANGED callerVars
  BY <1>5 DEF callerVars, vars, cycle, calls, HeapInv, CallersTypeOK, LifecycleTypeOK,
     TypeOK,
     Undecided, InitFirst, InPhase, Assigned, FreedOnce, DeadServers, TakenOver, DataFollowed,
     IdSet, Gone, Last, FiniSafe, InitOk
<1> QED
  BY <1>1, <1>2, <1>3, <1>4, <1>5, <1>6 DEF CallerNext

LEMMA CallersInvCorrect == CallerSpec => [](RankInv /\ HeapInv)
<1>1. CallersInit => RankInv /\ HeapInv
  BY InitRankInv, HeapInvInit DEF CallersInit, LifecycleInit
<1>2. RankInv /\ HeapInv /\ [CallerNext]_callerVars => (RankInv /\ HeapInv)'
  BY RankInvStep, HeapInvStep
<1> QED
  BY <1>1, <1>2, PTL DEF CallerSpec

(* The objects of a configuration, what a program has called and what has  *)
(* failed keep their types, whatever the configuration asks for: in        *)
(* particular a program never makes a call it has not got.                 *)
THEOREM CallersTypeCorrect == CallerSpec => []CallersTypeOK
BY CallersInvCorrect, PTL DEF HeapInv

(* What da_cloud_init has allocated with success da_cloud_fini frees, in   *)
(* every program and with every cache (dacloud.c:70-177, 438-459), but for *)
(* the client of memcached whose pool of clients could not be made         *)
(* (memcached_cache_provider.c:35, 78).                                    *)
THEOREM NothingIsLeft == CallerSpec => []NothingLeft
<1>1. RankInv /\ HeapInv => NothingLeft
  BY DEF HeapInv, TakenOver, DataFollowed, Gone, NothingLeft, InitOk, Frees, Config,
     CacheConfig
<1> QED
  BY <1>1, CallersInvCorrect, PTL

(* A da_cloud_fini follows no pointer that was freed before or never       *)
(* assigned, wherever da_cloud_init gave up and whichever program calls    *)
(* it, but for the cases FiniSafe names (dacloud.c:114-148, 440-459).      *)
THEOREM FiniIsSafe == CallerSpec => []FiniSafe
BY CallersInvCorrect, PTL DEF HeapInv

-----------------------------------------------------------------------------
(* The pools of a program.  Where it has headers to free, and where none:  *)
(* simplebench and mt make them once for all detections.                   *)

WithHeaders(c) ==
  {"detect", "read", "found", "pfree", "hfree", "hfree2", "locale"}
    \cup (IF c \in {"simplebench", "mt"} THEN {"next"} ELSE {})
    \cup (IF c \in {"fcgi", "cppclient", "fuzz"} THEN {"id"} ELSE {})

NoHeaders(c) ==
  {"hinit", "hinit2", "fini", "fini2", "again", "ask", "askid", "dropid", "newid", "exit"}
    \cup (IF c \in {"simplebench", "mt"} THEN {} ELSE {"next"})
    \cup (IF c \in {"cppwrapper", "python"} THEN {"id"} ELSE {})

(* Where it has properties to read or to free, and where none.             *)
WithProperties(c) ==
  {"read", "found", "pfree"} \cup (IF c \in {"cppclient", "fuzz"} THEN {"id"} ELSE {})

NoProperties(c) ==
  {"next", "locale", "again", "ask", "askid", "dropid", "newid", "hinit", "hinit2", "detect",
   "hfree", "hfree2", "fini", "fini2", "exit"}
    \cup (IF c \in {"cppclient", "fuzz"} THEN {} ELSE {"id"})

(* These free the properties whatever da_cloud_detect has returned; the    *)
(* first four read them, too.                                              *)
Unasking == {"batch", "simplebench", "talloc", "mt"}
Freeing == Unasking \cup {"cppwrapper"}

(* What PoolsFreed forgives.                                               *)
Forgiven ==
  \/ "detect" \in failed
  \/ caller \in {"tests", "go"} /\ "pool" \in failed
  \/ caller = "tests" /\ "found" \in failed

InPlace ==
  caller # "undecided" /\ bad = {} =>
    /\ label \in WithHeaders(caller) /\ "hinit" \notin failed => status["headers"] = "live"
    /\ label \in NoHeaders(caller) /\ ~(caller \in {"tests", "go"} /\ Forgiven)
       => status["headers"] # "live"
    /\ label \in WithProperties(caller) /\ ~(caller \in Unasking /\ "pool" \in failed)
       => status["properties"] = "live" \/ (caller = "cppwrapper" /\ status["properties"] = "null")
    /\ label \in NoProperties(caller) /\ (caller \in Freeing \/ ~Forgiven)
       => status["properties"] # "live"
    /\ caller = "cppwrapper" /\ label \in {"id", "hinit", "detect"}
       => status["properties"] = "null"

(* What is called after a da_cloud_init that has failed.                   *)
AfterFailure ==
  caller # "undecided" /\ ~InitOk =>
    /\ "init" \in failed
    /\ \/ caller = "go"
       \/ caller = "tests" /\ label = "fini"
       \/ caller = "cppwrapper" /\ label \in {"hinit2", "hfree2"}
       \/ label \in {"exit", "gone"}

GoEnds == caller = "go" /\ finis > 0 => label \in {"again", "fini2", "exit", "gone"}

PoolInv == InPlace /\ AfterFailure /\ GoEnds /\ PoolsFreed /\ CallsOnWhatExists

(* What the order of the calls of a program must be for that: m is what    *)
(* follows the call l when it has succeeded (n = 1) or failed (n = 2).     *)
Loses(c, l, n) ==
  \/ c \in {"tests", "go"} /\ l = "detect" /\ n = 2
  \/ c = "tests" /\ l = "found" /\ n = 2

HeadersInOrder(c, l, n, m) ==
  /\ m \in NoHeaders(c) =>
       l \in {"hfree", "hfree2"} \/ (l \in NoHeaders(c) /\ ~(l \in {"hinit", "hinit2"} /\ n = 1))
         \/ Loses(c, l, n)
  /\ m \in WithHeaders(c) =>
       l \in {"hinit", "hinit2"} \/ l \in WithHeaders(c) \ {"hfree", "hfree2"}

PropertiesInOrder(c, l, n, m) ==
  /\ m \in NoProperties(c) =>
       \/ l = "pfree" \/ Loses(c, l, n)
       \/ l \in NoProperties(c) /\ ~(l = "detect" /\ (n = 1 \/ c \in Freeing))
  /\ m \in WithProperties(c) =>
       \/ l \in WithProperties(c) \ {"pfree"}
       \/ l = "detect" /\ (n = 1 \/ c \in Freeing)
  /\ c = "cppwrapper" /\ m \in {"id", "hinit", "detect"} => l \in {"id", "hinit"}

EndsInOrder(c, l, m) ==
  /\ c = "tests" /\ l = "fini" => m = "exit"
  /\ c = "cppwrapper" /\ l \in {"hinit2", "hfree2"} => m \in {"hfree2", "exit"}
  /\ c = "go" /\ l \in {"fini", "fini2", "again"} => m \in {"again", "fini2", "exit"}

InOrderOf(c, p) ==
  \A l \in DOMAIN p \ {"init"} : \A n \in {1, 2} :
    /\ HeadersInOrder(c, l, n, p[l][n])
    /\ PropertiesInOrder(c, l, n, p[l][n])
    /\ EndsInOrder(c, l, p[l][n])

(* And what it starts with.                                                *)
Starts(c, p) ==
  /\ \A n \in {1, 2} : p["init"][n] \notin WithHeaders(c) \cup WithProperties(c)
  /\ c \notin {"tests", "cppwrapper", "go"} => p["init"][2] = "exit"
  /\ c = "tests" => p["init"][2] = "fini"
  /\ c = "cppwrapper" => p["init"][2] = "hinit2"
  /\ c # "python" => "askid" \notin DOMAIN p /\ "dropid" \notin DOMAIN p

Ordered(c, p) == InOrderOf(c, p) /\ Starts(c, p)

LEMMA ProgramsOrdered ==
  ASSUME NEW c \in DOMAIN Program
  PROVE  Ordered(c, Program[c])
<1> USE DEF Ordered, InOrderOf, Starts, HeadersInOrder, PropertiesInOrder,
   EndsInOrder, Loses,
        WithHeaders, NoHeaders, WithProperties, NoProperties, Freeing, Unasking, Then
<1>1. Ordered("batch", Batch)
  BY DEF Batch
<1>2. Ordered("simplebench", SimpleBench)
  BY DEF SimpleBench
<1>3. Ordered("talloc", Talloc)
  BY DEF Talloc
<1>4. Ordered("mt", Mt)
  BY DEF Mt
<1>5. Ordered("fcgi", Fcgi)
  BY DEF Fcgi
<1>6. Ordered("cppclient", CppClient)
  BY DEF CppClient
<1>7. Ordered("fuzz", Fuzz)
  BY DEF Fuzz
<1>8. Ordered("tests", Tests)
  BY DEF Tests
<1>9. Ordered("cppwrapper", CppWrapper)
  BY DEF CppWrapper, CppDetect
<1>10. Ordered("python", Python)
  BY DEF Python
<1>11. Ordered("go", Go)
  BY DEF Go
<1> HIDE DEF Ordered
<1> QED
  BY <1>1, <1>2, <1>3, <1>4, <1>5, <1>6, <1>7, <1>8, <1>9, <1>10, <1>11 DEF Program

LEMMA FollowsInOrder ==
  ASSUME HeapInv, caller # "undecided", label \notin {"exit", "gone"}, NEW ok \in BOOLEAN, To(ok)
  PROVE  LET n == IF ok THEN 1 ELSE 2
         IN /\ label' = Program[caller][label][n]
            /\ HeadersInOrder(caller, label, n, label')
            /\ PropertiesInOrder(caller, label, n, label')
            /\ EndsInOrder(caller, label, label')
<1>1. caller \in DOMAIN Program /\ label \in DOMAIN Program[caller] \ {"init"}
  BY DEF HeapInv, CallersTypeOK, InitFirst
<1>2. InOrderOf(caller, Program[caller])
  BY <1>1, ProgramsOrdered DEF Ordered
<1> QED
  BY <1>1, <1>2 DEF InOrderOf, To

LEMMA InPlaceStep ==
  ASSUME HeapInv, CallFrame, InPlace,
         Choose \/ HeaderInit \/ Detect \/ ReadProperties \/ Release \/ NewId \/ CallFini
           \/ CallId \/ Exit
  PROVE  InPlace'
<1>1. /\ caller # "undecided" /\ caller' = caller /\ bad = {}
      /\ DOMAIN status = Config \cup Request
  BY DEF CallFrame, HeapInv, CallersTypeOK, LifecycleTypeOK
<1> DEFINE Next1(ok) ==
             LET n == IF ok THEN 1 ELSE 2
             IN /\ HeadersInOrder(caller, label, n, label')
                /\ PropertiesInOrder(caller, label, n, label')
<1>2. ASSUME NEW ok \in BOOLEAN, To(ok), label \notin {"exit", "gone"}
      PROVE  Next1(ok)
  BY <1>1, <1>2, FollowsInOrder
<1> USE DEF InPlace, Forgiven, Freeing, Unasking, Config, CacheConfig, Request,
   HeadersInOrder,
        PropertiesInOrder, Loses, Calling
<1>3. CASE Choose
  <2>1. PICK ok \in BOOLEAN : /\ To(ok)
                              /\ failed' = IF label = "found" /\ ~ok THEN failed \cup {"found"} ELSE failed
    BY <1>3 DEF Choose
  <2>2. Next1(ok)
    BY <1>2, <1>3, <2>1 DEF Choose
  <2>3. status' = status /\ label \in {"next", "locale", "again", "ask", "found"}
    BY <1>3 DEF Choose
  <2> QED
    BY <1>1, <2>1, <2>2, <2>3
<1>4. CASE HeaderInit
  <2>1. CASE status' = Becomes({"headers"}, "live") /\ To(TRUE) /\ UNCHANGED failed
    BY <1>1, <1>2, <1>4, <2>1 DEF HeaderInit, Becomes
  <2>2. CASE failed' = failed \cup {"hinit"} /\ To(FALSE) /\ UNCHANGED status
    BY <1>1, <1>2, <1>4, <2>2 DEF HeaderInit
  <2> QED
    BY <1>4, <2>1, <2>2 DEF HeaderInit
<1>5. CASE Detect
  <2>0. /\ label = "detect"
        /\ "detect" \in NoProperties(caller) \ WithProperties(caller)
        /\ "detect" \in WithHeaders(caller) \ NoHeaders(caller)
    BY <1>5 DEF Detect, NoProperties, WithProperties, NoHeaders, WithHeaders
  <2>1. CASE status' = Becomes({"properties"}, "live") /\ To(TRUE) /\ UNCHANGED failed
    <3>1. Next1(TRUE)
      BY <1>2, <2>0, <2>1
    <3>2. /\ status'["headers"] = status["headers"] /\ status'["properties"] = "live"
          /\ label' \notin NoHeaders(caller) /\ label' \notin NoProperties(caller)
          /\ caller = "cppwrapper" => label' \notin {"id", "hinit", "detect"}
      BY <1>1, <2>0, <2>1, <3>1 DEF Becomes
    <3> QED
      BY <1>1, <2>0, <2>1, <3>2
  <2>2. CASE /\ status' = Becomes({"properties"}, "live") /\ To(FALSE)
             /\ failed' = failed \cup {"detect"}
    BY <1>1, <1>2, <2>0, <2>2 DEF Becomes
  <2>3. CASE failed' = failed \cup {"pool"} /\ To(FALSE) /\ UNCHANGED status
    <3>1. Next1(FALSE)
      BY <1>2, <2>0, <2>3
    <3>2. label' \in NoHeaders(caller) => caller \in {"tests", "go"}
      BY <2>0, <3>1
    <3>3. /\ label' \in WithProperties(caller) => caller \in Freeing
          /\ caller = "cppwrapper" => /\ label' \notin {"id", "hinit", "detect"}
                                      /\ status["properties"] = "null"
      BY <1>1, <2>0, <3>1
    <3>4. caller \in Freeing \/ ~Forgiven => status["properties"] # "live"
      BY <1>1, <2>0
    <3> QED
      BY <1>1, <2>0, <2>3, <3>2, <3>3, <3>4
  <2> QED
    BY <1>5, <2>1, <2>2, <2>3 DEF Detect
<1>6. CASE ReadProperties
  BY <1>1, <1>2, <1>6 DEF ReadProperties
<1>7. CASE Release
  <2>1. To(TRUE) /\ status' = Freed({ObjectOf(label)}) /\ failed' = failed
    BY <1>7 DEF Release
  <2>2. Next1(TRUE)
    BY <1>2, <1>7, <2>1 DEF Release
  <2>3. CASE label = "pfree"
    BY <1>1, <2>1, <2>2, <2>3 DEF Freed, ObjectOf
  <2>4. CASE label \in {"hfree", "hfree2"}
    BY <1>1, <2>1, <2>2, <2>4 DEF Freed, ObjectOf
  <2>5. CASE label \in {"askid", "dropid"}
    BY <1>1, <2>1, <2>2, <2>5 DEF Freed, ObjectOf
  <2> QED
    BY <1>7, <2>3, <2>4, <2>5 DEF Release
<1>8. CASE NewId
  BY <1>1, <1>2, <1>8 DEF NewId, Becomes
<1>9. CASE CallFini
  BY <1>1, <1>2, <1>9 DEF CallFini, Fini, Freed, Followed, Frees
<1>10. CASE CallId
  BY <1>1, <1>2, <1>10 DEF CallId, CacheId
<1>11. CASE Exit
  BY <1>1, <1>11 DEF Exit, WithHeaders, NoHeaders, WithProperties, NoProperties
<1> QED
  BY <1>3, <1>4, <1>5, <1>6, <1>7, <1>8, <1>9, <1>10, <1>11

LEMMA ReturnInPlace ==
  ASSUME HeapInv, Return
  PROVE  InPlace' /\ AfterFailure' /\ GoEnds'
<1>1. PICK c \in DOMAIN Program :
        caller' = c /\ label' = Program[c]["init"][IF InitOk THEN 1 ELSE 2]
  BY DEF Return
<1>2. Starts(c, Program[c])
  BY <1>1, ProgramsOrdered DEF Ordered
<1>3. finis' = 0 /\ InitOk' = InitOk /\ (~InitOk => failed' = {"init"})
      /\ (InitOk => failed' = failed)
  BY DEF HeapInv, InitFirst, Undecided, Return, InitOk, vars
<1>4. label' \notin WithHeaders(c) \cup WithProperties(c)
  BY <1>1, <1>2 DEF Starts
<1>5. /\ status'["headers"] # "live" /\ status'["properties"] # "live"
      /\ caller' = "cppwrapper" => status'["properties"] = "null"
  <2>1. \A o \in Request : status[o] = "garbage"
    BY DEF HeapInv, InitFirst, Undecided, Return
  <2>2. DOMAIN status = Config \cup Request
    BY DEF HeapInv, CallersTypeOK, LifecycleTypeOK
  <2> QED
    BY <2>1, <2>2 DEF Return, Becomes, Request
<1>6. InPlace'
  BY <1>1, <1>4, <1>5 DEF InPlace
<1>7. AfterFailure'
  BY <1>1, <1>2, <1>3 DEF AfterFailure, Starts
<1> QED
  BY <1>3, <1>6, <1>7 DEF GoEnds

LEMMA EndsStep ==
  ASSUME HeapInv, CallFrame, AfterFailure, GoEnds,
         Choose \/ HeaderInit \/ Detect \/ ReadProperties \/ Release \/ NewId \/ CallFini
           \/ CallId \/ Exit
  PROVE  AfterFailure' /\ GoEnds'
<1>1. /\ caller # "undecided" /\ caller' = caller /\ InitOk' = InitOk
      /\ failed \subseteq failed'
  BY DEF CallFrame, InitOk, vars, Choose, HeaderInit, Detect, ReadProperties, Release,
     NewId,
     CallFini, CallId, Exit
<1>2. \/ label = "exit" /\ label' = "gone"
      \/ label \notin {"exit", "gone"} /\ \E ok \in BOOLEAN : To(ok)
  <2>1. CASE Exit
    BY <2>1 DEF Exit, Calling
  <2>2. CASE Choose \/ HeaderInit \/ Detect
    BY <2>2 DEF Choose, HeaderInit, Detect, Calling
  <2>3. CASE ReadProperties \/ Release \/ NewId \/ CallFini \/ CallId
    BY <2>3 DEF ReadProperties, Release, NewId, CallFini, CallId, Calling
  <2> QED
    BY <2>1, <2>2, <2>3
<1>3. EndsInOrder(caller, label, label') \/ label' = "gone"
  BY <1>1, <1>2, FollowsInOrder
<1>4. AfterFailure'
  BY <1>1, <1>2, <1>3 DEF AfterFailure, EndsInOrder
<1>5. label \in {"fini", "fini2"} \/ finis' = finis
  <2>1. CASE CallFini
    BY <2>1 DEF CallFini, Calling
  <2>2. CASE ~CallFini
    BY <2>2 DEF Choose, HeaderInit, Detect, ReadProperties, Release, NewId, CallId,
       CacheId, Exit
  <2> QED
    BY <2>1, <2>2
<1> QED
  BY <1>1, <1>2, <1>3, <1>4, <1>5 DEF GoEnds, EndsInOrder

LEMMA PoolsFreedStep ==
  ASSUME HeapInv, CallFrame, InPlace, PoolsFreed,
         Choose \/ HeaderInit \/ Detect \/ ReadProperties \/ Release \/ NewId \/ CallFini
           \/ CallId \/ Exit
  PROVE  PoolsFreed'
<1>1. /\ caller # "undecided" /\ caller' = caller /\ bad = {} /\ caller \in DOMAIN Program
      /\ failed \subseteq failed'
  BY DEF CallFrame, HeapInv, CallersTypeOK, Choose, HeaderInit, Detect,
     ReadProperties, Release,
     NewId, CallFini, CallId, Exit
<1>2. caller \notin Freeing => caller \in {"fcgi", "cppclient", "fuzz", "tests", "python", "go"}
  BY <1>1 DEF Program, Freeing, Unasking
<1>3. \/ leaked' = leaked
      \/ label \in {"hinit", "hinit2", "exit"} /\ status["headers"] = "live"
         /\ leaked' = leaked \cup {"headers"}
      \/ label \in {"detect", "exit"} /\ status["properties"] = "live"
         /\ leaked' = leaked \cup {"properties"}
      \/ label = "exit" /\ status["headers"] = "live" /\ status["properties"] = "live"
         /\ leaked' = leaked \cup {"headers", "properties"}
  <2>1. CASE HeaderInit
    BY <2>1 DEF HeaderInit, Calling, Lost
  <2>2. CASE Detect
    BY <2>2 DEF Detect, Calling, Lost
  <2>3. CASE Exit
    <3>1. leaked' = leaked \cup {o \in {"headers", "properties"} : status[o] = "live"}
          /\ label = "exit"
      BY <2>3 DEF Exit, Calling
    <3> QED
      BY <3>1
  <2>4. CASE Choose \/ ReadProperties \/ Release \/ NewId \/ CallFini \/ CallId
    BY <2>4 DEF Choose, ReadProperties, Release, NewId, CallFini, CallId
  <2> QED
    BY <2>1, <2>2, <2>3, <2>4
<1>4. label \in {"hinit", "hinit2", "exit"} /\ status["headers"] = "live"
      => caller \in {"tests", "go"} /\ Forgiven
  BY <1>1 DEF InPlace, NoHeaders
<1>5. label \in {"detect", "exit"} /\ status["properties"] = "live"
      => caller \notin Freeing /\ Forgiven
  BY <1>1 DEF InPlace, NoProperties
<1>6. Forgiven => Forgiven'
  BY <1>1 DEF Forgiven
<1>7. leaked # {} => Forgiven
  BY DEF PoolsFreed, Forgiven
<1>8. leaked' # {} => Forgiven'
  BY <1>3, <1>4, <1>5, <1>6, <1>7
<1>9. /\ "properties" \in leaked' => "properties" \in leaked \/ caller \notin Freeing
      /\ "headers" \in leaked' => "headers" \in leaked \/ caller \in {"tests", "go"}
  BY <1>3, <1>4, <1>5
<1> QED
  BY <1>1, <1>2, <1>8, <1>9 DEF PoolsFreed, Forgiven

LEMMA CallsStep ==
  ASSUME HeapInv, CallFrame, InPlace, AfterFailure, GoEnds, CallsOnWhatExists,
         Choose \/ HeaderInit \/ Detect \/ ReadProperties \/ Release \/ NewId \/ CallFini
           \/ CallId \/ Exit
  PROVE  CallsOnWhatExists'
<1>1. /\ caller # "undecided" /\ caller' = caller /\ bad = {} /\ caller \in DOMAIN Program
      /\ failed \subseteq failed' /\ InitOk' = InitOk /\ cache' = cache
  BY DEF CallFrame, vars, InitOk, HeapInv, CallersTypeOK, Choose, HeaderInit, Detect,
     ReadProperties, Release, NewId, CallFini, CallId, Exit
<1> USE DEF Calling
<1>2. CASE Detect
  <2>1. label = "detect" /\ finis' = finis
    BY <1>2 DEF Detect
  <2>2. InitOk \/ (caller = "go" /\ "init" \in failed)
    BY <1>1, <2>1 DEF AfterFailure
  <2>3. ASSUME NEW o \in Frees, status[o] \in {"garbage", "dead"}, InitOk
        PROVE  caller = "fuzz" /\ finis > 0
    <3>1. finis # 0
      BY <2>3 DEF HeapInv, Assigned, FreedOnce, DeadServers, InitOk
    <3>2. finis > 0
      BY <3>1 DEF HeapInv, CallersTypeOK, LifecycleTypeOK
    <3> QED
      BY <1>1, <2>1, <3>2 DEF HeapInv, Last, GoEnds
  <2>4. status["headers"] \in {"garbage", "dead"} => "hinit" \in failed
    BY <1>1, <2>1 DEF InPlace, WithHeaders
  <2>5. \A b \in bad' : b.obj \in Uses /\ status[b.obj] \in {"garbage", "dead"}
    BY <1>1, <1>2 DEF Detect, Misused
  <2> QED
    BY <1>1, <2>1, <2>2, <2>3, <2>4, <2>5 DEF CallsOnWhatExists, Uses, Frees
<1>3. CASE ReadProperties
  <2>1. label = "read" /\ failed' = failed
    BY <1>3 DEF ReadProperties
  <2>2. status["properties"] \in {"garbage", "dead"} => caller \in Unasking /\ "pool" \in failed
    BY <1>1, <2>1 DEF InPlace, WithProperties
  <2>3. \A b \in bad' : b.obj = "properties" /\ status["properties"] \in {"garbage", "dead"}
    BY <1>1, <1>3 DEF ReadProperties, Misused
  <2> QED
    BY <1>1, <2>1, <2>2, <2>3 DEF CallsOnWhatExists, Unasking
<1>4. CASE Release
  <2>1. /\ \A b \in bad' : b.obj = ObjectOf(label) /\ status[b.obj] \in {"garbage", "dead"}
        /\ failed' = failed /\ label \in {"pfree", "hfree", "hfree2", "askid", "dropid"}
    BY <1>1, <1>4 DEF Release, Misused
  <2>2. CASE label = "pfree"
    <3>1. status["properties"] \in {"garbage", "dead"} => caller \in Unasking /\ "pool" \in failed
      BY <1>1, <2>2 DEF InPlace, WithProperties
    <3> QED
      BY <1>1, <2>1, <2>2, <3>1 DEF CallsOnWhatExists, Unasking, ObjectOf
  <2>3. CASE label \in {"hfree", "hfree2"}
    <3>1. status["headers"] \in {"garbage", "dead"} => "hinit" \in failed
      BY <1>1, <2>3 DEF InPlace, WithHeaders
    <3> QED
      BY <1>1, <2>1, <2>3, <3>1 DEF CallsOnWhatExists, ObjectOf
  <2>4. CASE label \in {"askid", "dropid"}
    <3>1. label \in DOMAIN Program[caller]
      BY <1>1, <2>4 DEF HeapInv, CallersTypeOK
    <3>2. caller = "python"
      BY <1>1, <2>4, <3>1, ProgramsOrdered DEF Ordered, Starts
    <3> QED
      BY <1>1, <2>1, <2>4, <3>2 DEF CallsOnWhatExists, ObjectOf
  <2> QED
    BY <2>1, <2>2, <2>3, <2>4
<1>5. CASE CallId
  <2>1. \A b \in bad' : b.obj = "id" /\ status["id"] # "live"
    BY <1>1, <1>5 DEF CallId, CacheId
  <2>2. status["id"] # "live" => cache = "none" \/ ~InitOk
    BY DEF HeapInv, IdSet, InitOk
  <2> QED
    BY <1>1, <2>1, <2>2 DEF CallsOnWhatExists
<1>6. CASE CallFini
  BY <1>6 DEF CallFini, Fini, Misused, CallsOnWhatExists
<1>7. CASE Choose \/ HeaderInit \/ NewId \/ Exit
  BY <1>1, <1>7 DEF Choose, HeaderInit, NewId, Exit, CallsOnWhatExists
<1> QED
  BY <1>2, <1>3, <1>4, <1>5, <1>6, <1>7

LEMMA PoolInvStep == RankInv /\ HeapInv /\ PoolInv /\ [CallerNext]_callerVars => PoolInv'
<1> SUFFICES ASSUME RankInv, HeapInv, PoolInv, [CallerNext]_callerVars PROVE PoolInv'
  OBVIOUS
<1> USE DEF PoolInv
<1>1. CASE (InitStep \/ ServersTied) /\ UNCHANGED calls
  <2>1. caller = "undecided" /\ leaked = {} /\ bad = {} /\ bad' = bad
    BY <1>1 DEF HeapInv, InitFirst, Undecided, InitStep, ServersTied, cycle, AllocHead, NoHead,
       ConfigUnread,
       ConfigRead, Licence, NoLicence, NoCache, BadCache, CacheReady, CacheFails, Servers
  <2> QED
    BY <1>1, <2>1 DEF calls, InPlace, AfterFailure, GoEnds, PoolsFreed,
       CallsOnWhatExists
<1>2. CASE Return
  <2>1. leaked = {} /\ leaked' = leaked /\ bad = {} /\ bad' = bad
    BY <1>2 DEF HeapInv, InitFirst, Undecided, Return
  <2> QED
    BY <1>2, <2>1, ReturnInPlace DEF PoolsFreed, CallsOnWhatExists
<1>3. CASE Choose \/ HeaderInit \/ Detect \/ ReadProperties \/ Release \/ NewId \/ CallFini
             \/ CallId \/ Exit
  <2>1. CallFrame
    BY <1>3, CallTypes
  <2> QED
    BY <1>3, <2>1, InPlaceStep, EndsStep, PoolsFreedStep, CallsStep
<1>4. CASE UNCHANGED callerVars
  BY <1>4 DEF callerVars, vars, cycle, calls, InPlace, Forgiven, AfterFailure, GoEnds,
     PoolsFreed,
     CallsOnWhatExists, InitOk
<1> QED
  BY <1>1, <1>2, <1>3, <1>4 DEF CallerNext

LEMMA PoolInvCorrect == CallerSpec => []PoolInv
<1>1. CallersInit => PoolInv
  BY DEF CallersInit, LifecycleInit, PoolInv, InPlace, AfterFailure, GoEnds, PoolsFreed,
     CallsOnWhatExists
<1>2. RankInv /\ HeapInv /\ PoolInv /\ [CallerNext]_callerVars => PoolInv'
  BY PoolInvStep
<1> QED
  BY <1>1, <1>2, CallersInvCorrect, PTL DEF CallerSpec

(* No program loses a pool of headers or of properties, unless a detection *)
(* has failed and the way out frees nothing (PoolsFreed names which        *)
(* programs do so), however often it calls what in its loop.               *)
THEOREM ProgramsFreePools == CallerSpec => []PoolsFreed
BY PoolInvCorrect, PTL DEF PoolInv

(* A program detects with a configuration and headers that are there, and  *)
(* reads and frees properties that are, after every failure of the library *)
(* and of its own choice but for those CallsOnWhatExists names.            *)
THEOREM ProgramsCallOnWhatExists == CallerSpec => []CallsOnWhatExists
BY PoolInvCorrect, PTL DEF PoolInv
=============================================================================
