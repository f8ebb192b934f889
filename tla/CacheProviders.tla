---------------------------- MODULE CacheProviders ----------------------------
(***************************************************************************)
(* A configuration and the provider cache_set has given it: the mock one,  *)
(* the memory cache built without GLib, or memcached (dacloud_cache.c).    *)
(* The calls of da_cloud_detect go through the table of functions to the   *)
(* provider that was chosen.  The GLib memory cache and the file cache     *)
(* have modules of their own.                                              *)
(***************************************************************************)
EXTENDS MemoryCacheTailq, MemcachedCache

CONSTANT Cops   \* the providers to choose from

ASSUME CopsAssumption == Cops \subseteq {"mock", "memory", "memcached"}

VARIABLE cops   \* config->cops, which da_cloud_init sets once

providerVars == <<interface, tailqVars, pool, cops>>

(* The threads that use the provider: the list of the memory cache has no  *)
(* lock, and it is not claimed that more than User can.                    *)
Users == IF cops = "memory" THEN User ELSE Thread

(* mock_cache_get leaves *value as it was, mock_cache_set keeps nothing.   *)
MockProvider(t) ==
  /\ cops = "mock" /\ stage[t] = "busy"
  /\ stage' = [stage EXCEPT ![t] = "done"]
  /\ UNCHANGED <<call, ans, missed, offered, tailqVars, pool, cops>>

Provider(t) ==
  \/ MockProvider(t)
  \/ cops = "memory" /\ TailqProvider(t) /\ UNCHANGED <<pool, cops>>
  \/ cops = "memcached" /\ MemcachedProvider(t) /\ UNCHANGED <<tailqVars, cops>>

ProvidersInit ==
  /\ InterfaceInit /\ TailqInit /\ MemcachedInit
  /\ cops \in Cops
  /\ cops # "memcached" => size = 0
  /\ cops # "memory" => cnt = CHOOSE n \in FirstCount : TRUE

ProvidersNext ==
  \/ \E t \in Users : Provider(t) \/ (ClientNext(t) /\ UNCHANGED <<tailqVars, pool, cops>>)
  \/ Forget /\ UNCHANGED <<tailqVars, cops>>

ProvidersSpec ==
  ProvidersInit /\ [][ProvidersNext]_providerVars /\ \A t \in Thread : WF_providerVars(Provider(t))
-----------------------------------------------------------------------------
ProvidersTypeOK == TailqTypeOK /\ MemcachedTypeOK /\ cops \in Cops

(* Whatever the provider, what a get finds was set under its key.          *)
Cache == INSTANCE CacheSpec
CacheContract == Cache!Spec

(* The pointers of the memory cache implement a log: in whatever order the *)
(* fields are written, an entry is found from the moment the tail refers   *)
(* to it, the oldest of its key first, and what is removed is the oldest   *)
(* (memory_cache_provider.c:131-138, 184-238).                             *)
MemoryImplementsLog ==
  /\ cops = "memory" => Log!LogInit
  /\ [][cops = "memory" => Log!LogNext]_<<interface, Contents>>

(* As long as threads are inside get or set, one of them returns: a client *)
(* that is waited for comes back, and no loop over the list is endless     *)
(* (memcached_cache_provider.c:49-54, memory_cache_provider.c:134, 200).   *)
SomeCallReturns ==
  (\E t \in Thread : stage[t] = "busy") ~> (\E t \in Thread : stage[t] = "done")
=============================================================================
