------------------------------ MODULE Lifecycle ------------------------------
(***************************************************************************)
(* da_cloud_init from its first line to its return, da_cloud_fini and      *)
(* da_cloud_cache_id (dacloud.c), over the objects a configuration refers  *)
(* to.  The loop over the servers and their ranking are the steps of       *)
(* ServerRanking.                                                          *)
(*                                                                         *)
(* status[o] is what the pointer to object o is worth: "null", "garbage"   *)
(* (never assigned), "live" (allocated) or "dead" (freed, still pointed    *)
(* to).  What frees or uses a garbage or dead object is kept in bad.       *)
(***************************************************************************)
EXTENDS ServerRanking

CONSTANTS
  CacheName,   \* values of user.cache.type; "none" where it is missing
  InitFaults   \* what may fail: "alloc", "strdup", "provider"

ASSUME LifecycleAssumption ==
  /\ CacheName \subseteq {"none", "file", "memcached", "memory", "mock", "other"}
  /\ InitFaults \subseteq {"alloc", "strdup", "provider"}

VARIABLES
  zeroed,   \* did the caller clear the configuration?
  phase,    \* where da_cloud_init is; "called" when it has returned
  cache,    \* user.cache.type
  status,   \* status[o], and of cops.id: "live" where it can be called
  finis,    \* history: calls of da_cloud_fini, 2 for more than one
  bad       \* history: [op, obj, was], the uses of what was no object

cycle == <<zeroed, phase, cache, status, finis, bad>>

(* Of struct da_cloud_cache_cfg: "provider" is the pool of the cache, or    *)
(* for memcached that of clients (cache_obj); "data" is memcached's client. *)
CacheConfig == {"provider", "data", "cfgstr"}
Config == CacheConfig \cup {"shead", "servers", "hosts", "efp", "licence", "config_t", "id"}
Request == {"headers", "properties", "idstring"}
Status == {"null", "garbage", "live", "dead"}

Cleared == IF zeroed THEN "null" ELSE "garbage"

(* The objects that become s.                                              *)
Becomes(objs, s) == [o \in DOMAIN status |-> IF o \in objs THEN s ELSE status[o]]
Reallocated(o, ok) == Becomes({o}, IF ok THEN "live" ELSE "dead")    \* frees what cannot grow
Freed(objs) == [o \in DOMAIN status |-> IF o \in objs /\ status[o] = "live" THEN "dead" ELSE status[o]]
Misused(op, objs) ==
  bad \cup {[op |-> op, obj |-> o, was |-> status[o]] :
              o \in {x \in objs : status[x] \in {"garbage", "dead"}}}

LifecycleInit ==
  /\ Init
  /\ zeroed \in BOOLEAN
  /\ phase = "shead"
  /\ cache = "none"
  /\ status = [o \in Config \cup Request |->
                 IF o \in Request THEN "garbage"
                 ELSE IF o \in {"cfgstr", "config_t", "provider", "data", "servers", "hosts"}
                      THEN "null" ELSE Cleared]
  /\ finis = 0
  /\ bad = {}

Goto(p) == phase' = p

-----------------------------------------------------------------------------
(* da_cloud_init: the list head is cleared before it is looked at, so that *)
(* a failed allocation ends the process; then the mock cache is chosen,    *)
(* all of it but its id.                                                   *)
AllocHead ==
  /\ phase = "shead"
  /\ status' = Becomes({"shead", "config_t"}, "live")
  /\ Goto("file")
  /\ UNCHANGED <<vars, zeroed, cache, finis, bad>>

NoHead ==
  /\ "alloc" \in InitFaults
  /\ phase = "shead"
  /\ Goto("ended")
  /\ UNCHANGED <<vars, zeroed, cache, status, finis, bad>>

(* The file cannot be read; config_t is not destroyed.                     *)
ConfigUnread ==
  /\ phase = "file"
  /\ status' = [status EXCEPT !["efp"] = "null"]
  /\ Goto("called")
  /\ UNCHANGED <<vars, zeroed, cache, finis, bad>>

(* Errors go to stderr or stdin, which are never closed, or to a file.     *)
ConfigRead ==
  /\ phase = "file"
  /\ \E s \in {"null", "live"} : status' = [status EXCEPT !["efp"] = s]
  /\ Goto("licence")
  /\ UNCHANGED <<vars, zeroed, cache, finis, bad>>

(* Without a licence key the cache is not looked up, and a pointer nothing *)
(* was assigned to is duplicated: the process may end.                     *)
Licence ==
  /\ phase = "licence"
  /\ \E s \in {"live"} \cup (IF "strdup" \in InitFaults THEN {"null"} ELSE {}) :
       status' = [status EXCEPT !["licence"] = s]
  /\ cache' \in CacheName
  /\ Goto("cache")
  /\ UNCHANGED <<vars, zeroed, finis, bad>>

NoLicence ==
  /\ phase = "licence"
  /\ \/ status' = [status EXCEPT !["licence"] = "live"] /\ Goto("cache")
     \/ UNCHANGED status /\ Goto("ended")
  /\ UNCHANGED <<vars, zeroed, cache, finis, bad>>

(* No cache is configured: the mock stays.                                 *)
NoCache ==
  /\ phase = "cache" /\ cache = "none"
  /\ Goto("servers")
  /\ UNCHANGED <<vars, zeroed, cache, status, finis, bad>>

(* cache_set knows the name or ends the process, as file_cache_init does   *)
(* when it measures a NULL string.                                         *)
BadCache ==
  /\ phase = "cache" /\ cache \in {"other", "file"}
  /\ Goto("ended")
  /\ UNCHANGED <<vars, zeroed, cache, status, finis, bad>>

(* The provider is ready, perhaps without its pool of clients; the string  *)
(* it was configured with is freed.                                        *)
IdOf == "live"

(* What init of the provider leaves.  That of memcached succeeds without   *)
(* its pool of clients, and frees its client only if the list of hosts     *)
(* cannot be parsed (memcached_cache_provider.c:21-39).                    *)
Left(ok) ==
  CASE cache = "mock" -> {[provider |-> "null", data |-> "null"]}
    [] cache = "memcached" ->
         IF ok THEN [provider : {"null", "live"}, data : {"live"}]
         ELSE [provider : {"null"}, data : {"null", "dead"}]
    [] OTHER -> [provider : IF ok THEN {"live"} ELSE {"null", "live"}, data : {"null"}]

String == IF cache \in {"file", "memcached"} THEN {"dead"} ELSE {"null", "dead"}

CacheReady ==
  /\ phase = "cache" /\ cache \notin {"none", "other"}
  /\ \E s \in String, p \in Left(TRUE) :
       status' = [status EXCEPT !["cfgstr"] = s, !["id"] = IdOf,
                                !["provider"] = p.provider, !["data"] = p.data]
  /\ Goto("servers")
  /\ UNCHANGED <<vars, zeroed, cache, finis, bad>>

CacheFails ==
  /\ "provider" \in InitFaults
  /\ phase = "cache" /\ cache \in {"file", "memcached", "memory"}
  /\ \E s \in String \cup (IF cache = "memcached" THEN {"null"} ELSE {}), p \in Left(FALSE) :
       status' = [status EXCEPT !["cfgstr"] = s, !["id"] = IdOf, !["config_t"] = "dead",
                                !["provider"] = p.provider, !["data"] = p.data]
  /\ Goto("called")
  /\ UNCHANGED <<vars, zeroed, cache, finis, bad>>

(* The servers: what the steps of ServerRanking do to the heap.  A failed  *)
(* realloc frees the array, which shead still refers to.  The default      *)
(* servers are static and not freed.                                       *)
HostsOf(l) == IF \E n \in DOMAIN l : l[n].host # NoHost THEN {"hosts"} ELSE {}

HeapNoDestroy ==                                               \* a mutant
  IF nservers' > nservers THEN Becomes({"servers"} \cup HostsOf(servers'), "live")
  ELSE IF pc' = "probe" THEN Becomes({"servers"}, "live") ELSE status

Heap ==
  IF pc = "read" /\ pc' = "returned"
  THEN IF nservers = 0 THEN status ELSE Reallocated("servers", FALSE)
  ELSE IF pc = "read" /\ pc' = "probe"
  THEN [Becomes({"servers"}, "live") EXCEPT !["config_t"] = "dead"]
  ELSE IF nservers' > nservers THEN Becomes({"servers"} \cup HostsOf(servers'), "live")
  ELSE status

Servers ==
  /\ phase = "servers"
  /\ Step
  /\ status' = Heap
  /\ Goto(IF pc' = "returned" THEN "called" ELSE IF pc' = "crashed" THEN "ended" ELSE "servers")
  /\ UNCHANGED <<zeroed, cache, finis, bad>>

(* qsort exchanges equals, as often as it likes.                           *)
ServersTied == phase = "servers" /\ ExchangeTied /\ UNCHANGED cycle

InitStep ==
  \/ AllocHead \/ NoHead \/ ConfigUnread \/ ConfigRead
  \/ Licence \/ NoLicence \/ NoCache \/ BadCache \/ CacheReady \/ CacheFails
  \/ Servers
-----------------------------------------------------------------------------
(* da_cloud_fini: the hosts unless they are the default ones, the list,    *)
(* the cache, the error file and the licence key.  The cache frees the     *)
(* client of memcached where it has a pool of clients, too.                *)
FreesString == {"shead", "servers", "hosts", "provider", "efp", "licence", "cfgstr"}  \* a mutant
Frees == {"shead", "servers", "hosts", "provider", "efp", "licence"}
Followed == Frees \cup (IF status["provider"] = "null" THEN {} ELSE {"data"})

Fini ==
  /\ status' = Freed(Followed)
  /\ bad' = Misused("fini", Followed)
  /\ finis' = IF finis = 0 THEN 1 ELSE 2

(* da_cloud_cache_id calls what cops.id refers to.                         *)
CacheId ==
  /\ bad' = IF status["id"] = "live" THEN bad
            ELSE bad \cup {[op |-> "id", obj |-> "id", was |-> status["id"]]}
  /\ UNCHANGED <<status, finis>>
-----------------------------------------------------------------------------
InitOk == phase = "called" /\ pc = "returned" /\ ret = 0

LifecycleTypeOK ==
  /\ TypeOK
  /\ zeroed \in BOOLEAN
  /\ phase \in {"shead", "file", "licence", "cache", "servers", "called", "ended"}
  /\ cache \in CacheName \cup {"none"}
  /\ status \in [Config \cup Request -> Status]
  /\ finis \in 0 .. 2

(* da_cloud_init gets to its end, whatever the configuration asks for and  *)
(* whatever fails, if every entry names a host and no server accepts a     *)
(* connection and never answers: for the first it stays in its loop for    *)
(* ever (line 138), for the second in curl_easy_perform, to which it gives *)
(* no time limit (line 227).                                               *)
InitEnds ==
  (\A n \in DOMAIN entries : entries[n] # NoHost)
    => <>(phase \in {"called", "ended"} \/ pc = "hung")

(* What da_cloud_init has allocated with success da_cloud_fini frees, and  *)
(* nothing of it is left but for the client of memcached whose pool of     *)
(* clients could not be made: its init succeeds nonetheless, and its fini  *)
(* looks at the pool only (memcached_cache_provider.c:35-39, 78).          *)
NothingLeft ==
  InitOk /\ finis > 0 =>
    \A o \in Config \ {"id"} :
      status[o] = "live" => o = "data" /\ cache = "memcached" /\ status["provider"] = "null"
=============================================================================
