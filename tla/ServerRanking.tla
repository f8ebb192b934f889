--------------------------- MODULE ServerRanking ---------------------------
(***************************************************************************)
(* How da_cloud_init makes the list of servers (dacloud.c:128-173) and     *)
(* _da_cloud_servers_fireup ranks it (dacloud.c:210-247).                  *)
(*                                                                         *)
(* The servers of the configuration file are read one by one; without any, *)
(* four default ones are taken.  Each is asked once and the time it took   *)
(* kept, or -1; the list is then given to qsort, unless ranking is manual  *)
(* or no server has answered.  What qsort does is that of any sort that    *)
(* exchanges elements by what _servers_cmp says of them.                   *)
(***************************************************************************)
EXTENDS Integers, Sequences, FiniteSets

CONSTANTS
  Host,          \* the hosts a configuration may name
  NoHost,        \* an entry of "servers" without the setting host
  DefaultHosts,  \* the hosts of default_servers, in order
  MaxEntries,    \* bound of the model: entries in the configuration
  Ranking,       \* values user.manual_ranking may have
  Time,          \* response times
  Faults         \* what may fail: "realloc", "alloc", "strdup", "curl"

ASSUME RankingAssumption ==
  /\ NoHost \notin Host
  /\ DefaultHosts \in Seq(Host) /\ DefaultHosts # <<>>
  /\ MaxEntries \in Nat
  /\ Ranking \subseteq Nat
  /\ Time \subseteq Nat
  /\ Faults \subseteq {"realloc", "alloc", "strdup", "curl"}

Unreached == -1

VARIABLES
  entries,   \* the setting "servers"
  setting,   \* the int user.manual_ranking
  manual,    \* config->manual_ranking, a field of one bit
  pc,        \* "read", "probe", "rank", "returned"; "hung"; "crashed"
  nservers,  \* entries read
  servers,   \* config->shead->servers: [id, host, time]
  i,         \* the server asked next
  ret        \* what da_cloud_init returns

vars == <<entries, setting, manual, pc, nservers, servers, i, ret>>
settings == <<entries, setting, manual>>

Server == [id : Nat, host : Host \cup {NoHost}, time : Time \cup {Unreached}]

TypeOK ==
  /\ entries \in Seq(Host \cup {NoHost}) /\ Len(entries) <= MaxEntries
  /\ setting \in Ranking
  /\ manual \in {0, 1}
  /\ pc \in {"read", "probe", "rank", "returned", "hung", "crashed"}
  /\ nservers \in 0 .. Len(entries)
  /\ servers \in Seq(Server)
  /\ i \in 1 .. Len(servers) + 1
  /\ ret \in {-1, 0}

NewServer(n, h) == [id |-> n, host |-> h, time |-> Unreached]

(* config_lookup_int reads an int; the field it goes to keeps one bit.     *)
OneBit(n) == n % 2

Init ==
  /\ entries \in UNION {[1 .. n -> Host \cup {NoHost}] : n \in 0 .. MaxEntries}
  /\ setting \in Ranking
  /\ manual = OneBit(setting)
  /\ pc = "read"
  /\ nservers = 0
  /\ servers = <<>>
  /\ i = 1
  /\ ret = -1

-----------------------------------------------------------------------------
More == pc = "read" /\ nservers < Len(entries)

(* An entry that names its host is added to the list, with a copy of the   *)
(* name; a copy that fails is not noticed (line 152).                      *)
Copies(h) == IF "strdup" \in Faults THEN {h, NoHost} ELSE {h}

ReadServer ==
  /\ More
  /\ entries[nservers + 1] # NoHost
  /\ nservers' = nservers + 1
  /\ \E h \in Copies(entries[nservers + 1]) :
       servers' = Append(servers, NewServer(nservers + 1, h))
  /\ UNCHANGED <<settings, pc, i, ret>>

(* One that does not is reported, and looked at again: nservers, the index *)
(* of the loop, stays (lines 136-139).                                     *)
SkipHostless ==                                                \* a mutant
  /\ More
  /\ entries[nservers + 1] = NoHost
  /\ nservers' = nservers + 1
  /\ UNCHANGED <<settings, pc, servers, i, ret>>

ReadHostless ==
  /\ More
  /\ entries[nservers + 1] = NoHost
  /\ UNCHANGED vars

ReadFails ==
  /\ "realloc" \in Faults
  /\ More
  /\ entries[nservers + 1] # NoHost
  /\ nservers' = nservers + 1
  /\ pc' = "returned"
  /\ UNCHANGED <<settings, servers, i, ret>>

(* Neither the allocation of a server nor that of the list of default ones *)
(* is looked at before it is written to.                                   *)
ReadCrashes ==
  /\ "alloc" \in Faults
  /\ pc = "read"
  /\ IF entries = <<>> THEN TRUE ELSE More /\ entries[nservers + 1] # NoHost
  /\ pc' = "crashed"
  /\ UNCHANGED <<settings, nservers, servers, i, ret>>

Defaults == [n \in 1 .. Len(DefaultHosts) |-> NewServer(n, DefaultHosts[n])]

ReadAgain ==                                                   \* a mutant
  /\ pc = "read" /\ nservers = Len(entries)
  /\ servers' = IF nservers = 0 THEN Defaults ELSE servers
  /\ pc' = IF nservers = 0 THEN "read" ELSE "probe"
  /\ UNCHANGED <<settings, nservers, i, ret>>

ReadDone ==
  /\ pc = "read" /\ nservers = Len(entries)
  /\ servers' = IF nservers = 0 THEN Defaults ELSE servers
  /\ pc' = "probe"
  /\ UNCHANGED <<settings, nservers, i, ret>>

-----------------------------------------------------------------------------
Probing == pc = "probe" /\ i <= Len(servers)

(* The server answers with code 200.                                       *)
Answered(s, t) == [s EXCEPT !.time = t]

ProbeAnswered ==
  /\ Probing
  /\ servers[i].host # NoHost
  /\ \E t \in Time : servers' = [servers EXCEPT ![i] = Answered(@, t)]
  /\ ret' = 0
  /\ i' = i + 1
  /\ UNCHANGED <<settings, pc, nservers>>

(* It cannot be reached, or answers with another code.                     *)
ProbeSkips ==                                                  \* a mutant
  /\ Probing
  /\ i' = i + 2
  /\ UNCHANGED <<settings, pc, nservers, servers, ret>>

ProbeFailed ==
  /\ Probing
  /\ i' = i + 1
  /\ UNCHANGED <<settings, pc, nservers, servers, ret>>

(* It is reached and never answers, and no time limit is set (line 227).   *)
ProbeHangs ==
  /\ Probing
  /\ servers[i].host # NoHost
  /\ pc' = "hung"
  /\ UNCHANGED <<settings, nservers, servers, i, ret>>

(* No handle: the ranking ends, with -1 even if a server has answered.     *)
ProbeAborted ==
  /\ "curl" \in Faults
  /\ Probing
  /\ ret' = -1
  /\ pc' = "returned"
  /\ UNCHANGED <<settings, nservers, servers, i>>

ProbeDone ==
  /\ pc = "probe" /\ i > Len(servers)
  /\ pc' = "rank"
  /\ UNCHANGED <<settings, nservers, servers, i, ret>>

-----------------------------------------------------------------------------
(* _servers_cmp: of two servers with the same time each is less than the   *)
(* other, as their difference, 0, is less than DBL_EPSILON.                *)
CmpBackwards(a, b) == IF a.time > b.time THEN -1 ELSE 1        \* a mutant
Cmp(a, b) == IF a.time > b.time THEN 1 ELSE -1

Sorting == pc = "rank" /\ ret = 0 /\ manual = 0

Swapped(m, n) == [servers EXCEPT ![m] = servers[n], ![n] = servers[m]]

(* qsort puts two servers in order, ...                                    *)
Exchange ==
  /\ Sorting
  /\ \E m, n \in DOMAIN servers :
       m < n /\ Cmp(servers[m], servers[n]) > 0 /\ servers' = Swapped(m, n)
  /\ UNCHANGED <<settings, pc, nservers, i, ret>>

(* ... or exchanges two because the later one is less than the earlier,    *)
(* which the earlier may be too.                                           *)
ExchangeTied ==
  /\ Sorting
  /\ \E m, n \in DOMAIN servers :
       m < n /\ Cmp(servers[n], servers[m]) < 0 /\ servers' = Swapped(m, n)
  /\ UNCHANGED <<settings, pc, nservers, i, ret>>

(* It returns when it finds no neighbour greater than the next.            *)
RankDone ==
  /\ pc = "rank"
  /\ Sorting => \A n \in 1 .. Len(servers) - 1 : Cmp(servers[n], servers[n + 1]) <= 0
  /\ pc' = "returned"
  /\ UNCHANGED <<settings, nservers, servers, i, ret>>

Progress ==
  \/ ReadServer \/ ReadHostless \/ ReadDone
  \/ ProbeAnswered \/ ProbeFailed \/ ProbeDone
  \/ Exchange \/ RankDone

Failure == ReadFails \/ ReadCrashes \/ ProbeHangs \/ ProbeAborted

Step == Progress \/ Failure

Done == pc \in {"returned", "hung", "crashed"} /\ UNCHANGED vars

Next == Step \/ ExchangeTied \/ Done

(* No failure is bound to happen, and a sort does not exchange equals for  *)
(* ever: all else the code does.                                           *)
Spec == Init /\ [][Next]_vars /\ WF_vars(Progress)

-----------------------------------------------------------------------------
Reached == {n \in DOMAIN servers : servers[n].time # Unreached}
Returned == pc = "returned"

(* The list is complete when da_cloud_init succeeds: each entry of the     *)
(* configuration, or each default server, is in it once, whatever qsort    *)
(* exchanges while _servers_cmp contradicts itself (lines 128-173, 183).   *)
EachServerOnce ==
  Returned /\ ret = 0 =>
    LET hosts == IF entries = <<>> THEN DefaultHosts ELSE entries
    IN /\ Len(servers) = Len(hosts)
       /\ \A n \in DOMAIN hosts :
            \E m \in DOMAIN servers : servers[m].id = n /\ servers[m].host \in Copies(hosts[n])

(* Where the setting is odd the servers are asked in the order of the      *)
(* configuration (lines 240 and 326); otherwise, of those that have        *)
(* answered, none comes before a faster one.  An even setting that is not  *)
(* 0 asks for manual ranking and does not get it: the field has one bit.   *)
Ranked ==
  Returned /\ ret = 0 =>
    IF setting % 2 = 1
    THEN \A n \in DOMAIN servers : servers[n].id = n
    ELSE \A m, n \in Reached : m < n => servers[m].time <= servers[n].time
=============================================================================
