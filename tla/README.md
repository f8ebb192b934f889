# A TLA+ development for deviceatlas-cloud-c

`deviceatlas-cloud-c` is a C client library for the DeviceAtlas Cloud service.
A program fills a list of HTTP headers, calls `da_cloud_detect`, and gets a list
of properties, either from a local cache or from one of the service's servers.
This directory holds TLA+ modules translated from the library's source, TLC
configurations that check them on small instances, and theorems checked by
TLAPS. `PROJECT.json` lists the runs, the hazards each property is aimed at,
and the source lines each definition stands for.

    tlc -workers 2 -config DetectWithCache.cfg MCDetectWithCache
    tlapm DetectWithCacheProofs.tla

Contents: 1 the system, 2 the modules, 3 the runs, 4 fairness, 5 the proofs,
6 findings, 7 what is not modelled, 8 the plan.

## 1. The system: an inventory

| component | source | state | operations |
|---|---|---|---|
| detection | `dacloud.c:189-436` | the locals of `da_cloud_detect`: the reader's buffer, `cacheval`, `_ret`, the list of properties, `cachesource` | `da_cloud_detect`, `_write_servers_response`, `da_cloud_properties_free` |
| cache interface | `dacloud_cache.[ch]` | `struct da_cloud_cache_ops` and `struct da_cloud_cache_cfg` | `init`, `get`, `set`, `fini`, `id`; `cache_set` fills in the table; a mock provider that stores nothing |
| GLib memory cache | `memory_cache_provider.c:11-115` | a hash table, a threshold, the mutex of the configuration | `get`, `set`, `init`, `fini` |
| TAILQ memory cache | `memory_cache_provider.c:117-250` | a linked list, a counter, no lock | the same |
| file cache | `file_cache_provider.c` | a directory of files, shared by processes through `flock`, the mutex | the same; a variant with `mmap` |
| memcached cache | `memcached_cache_provider.c` | a pool of clients | the same |
| memory pools | `dacloud_mem.[ch]` | chains of blocks with a bump pointer; the table of allocators | `da_cloud_membuf_create`, `_alloc`, `_strdup`, `_free`, `da_cloud_setallocator` |
| server list and ranking | `dacloud.c:128-173, 203-247` | `config->shead->servers` | the reading loop of `da_cloud_init`, `_da_cloud_servers_fireup`, `qsort` |
| headers and cache key | `dacloud_header_property.c:43-132` | the list of headers, the key buffer, the key | `da_cloud_header_add` and its shorthands, `da_cloud_header_free` |
| xxHash | `import/xxhash.h` | `XXH32_state_t`, `XXH64_state_t` | `XXH32`, `XXH64`, and `reset`, `update`, `digest` |
| lifecycle | `dacloud.c:50-173, 438-464` | the configuration, the chosen provider | `da_cloud_init`, `da_cloud_fini`, `da_cloud_cache_id` |
| property lookup | `dacloud_header_property.c:134-163` | none of its own | read-only walks of the list of properties |
| printing, logging, utilities | `dacloud.c`, `dacloud_util.c`, `dacloud_header_property.c` | none | output; `da_cloud_get_num_cores` |
| wrappers | `cppwrapper`, `py3wrapper`, `gowrapper` | which object owns the C structures | constructors, finalisers |
| examples, tests, fuzz target | `examples`, `tests`, `fuzz` | - | the callers; `dacloud_mt.c` is the threaded one |

How they interact. `da_cloud_init` reads the configuration, lets `cache_set`
choose the provider and initialises it, and ranks the servers.
`da_cloud_detect` calls `cops.get`; when that leaves no value it asks the
servers of the ranked list in turn, hands the first answer that begins with an
opening brace to `cops.set`, and parses it. Threads share the cache object but
(in `dacloud_mt.c`) each has a copy, made with `memcpy`, of the configuration
with its mutex and its pool pointer. Processes share only the directory of the
file cache or the memcached server. The memory and file caches allocate from a
pool of `dacloud_mem.c` that is released as a whole, and takes no lock. `da_cloud_fini` releases
the servers, the cache, the error file and the licence key.

What is hard, and what correctness means:

- *Detection*: a get, a slow transfer and a set with other threads in between;
  many exits, each with its own set of things to free. Correct: what is cached
  and what is served answers a request with that key; `cachesource` and the
  return value tell the truth; servers are asked in order until one answers;
  nothing leaks; every call returns.
- *Caches*: `MTX_UNLOCK` unlocks an uninitialised local variable, so what is
  left of the lock depends on the platform; `get` checks the size that `set`
  increases; the list of the TAILQ cache is rewired one field at a time, and its
  counter is neither initialised nor reset; memcached's clients are waited for.
  Correct: a get finds nothing, or a value set under the same key; no
  unsynchronised write; a bounded size; no client lost; calls return.
- *File cache*: truncation before `flock`, unlocking before the buffer is
  written, expiry by name, a mapping that others change, crashes and a full disk
  half-way. Correct: a get yields a whole, unexpired value; no file, lock or
  mapping is left.
- *Pools*: rounding against the room left, 32-bit masks, several copies of the
  current-block pointer, and threads that allocate without a lock. Correct:
  regions are disjoint and inside their block; releasing the pool releases every
  block.
- *Ranking*: a time of -1, a comparison that is never 0, a loop that can fail
  to advance, a server that never answers. Correct: no server lost, the order
  promised by `dacloud.h`, termination.
- *Key*: concatenation without separators into a bounded buffer. Correct: the
  buffer never overflows, each header counts, different requests have
  different keys.
- *Hash*: a state filled in pieces. Correct: the same hash as at once.
- *Lifecycle and callers*: early returns of `da_cloud_init` followed by
  `da_cloud_fini`, calls whose result is not looked at, objects that wrappers
  free on one way and not on another. Correct: each object is used and freed
  while it exists, and freed in the end.

The hazards with their lines are in `PROJECT.json`.

## 2. The modules

    CacheInterface                    what da_cloud_detect and a provider share
      CacheSpec                       the contract of a provider (abstract)
      KeyedLog                        a cache that is a log (abstract)
      MemoryCacheGlib  => CacheSpec   the GLib provider, shown to implement it
      MemoryCacheTailq => KeyedLog    the list, shown to implement a log
      MemcachedCache                  the pool of memcached clients
        CacheProviders => CacheSpec   cache_set: mock, list or memcached
      DaCloudDetect                   da_cloud_detect, the provider left open
        DetectWithCache               ... over CacheSpec
        DetectGlib                    ... over MemoryCacheGlib
      FileCache                       the file cache through stdio
        FileCacheMmap                 ... and in the build with a mapping (two
                                      MC modules: one file, and two keys)
    DaCloudMem                        pools
    ServerRanking                     list of servers
      Lifecycle                       da_cloud_init around it, da_cloud_fini
        Callers                       the programs of the repository
    XXHash                            the hash
      XXHashStream                    ... through a state, piece by piece
      DaCloudHeaders                  headers and key

**CacheInterface** has, for each thread, the call it is in (`call`, `stage`),
the value a get has left (`ans`), the key its last get missed (`missed`), and
the history `offered` of all pairs ever handed to `set`. `Invoke` enters
`cops.get` or `cops.set`, `Collect` takes the answer. A set is legal only for
the key of the thread's own last miss, which is what `dacloud.c:305-348` does;
`DaCloudDetect` has to live with that guard, and `StoresWhatItMissed` says
that it never blocks it.

**CacheSpec** is the contract: a get answers with nothing or with a value
offered for its key. Nothing promises that a value is found again.

**KeyedLog** is the stronger promise of the list for one thread: a set appends,
a get answers with the oldest pair of its key or with nothing, and only the
oldest pair is ever lost.

**MemoryCacheGlib** splits a call into `Lock`, the critical section
(`GetFull`, `GetLookup`, `SetInsert`) and `Unlock`. What `MTX_UNLOCK` does to
the mutex that `MTX_LOCK` locked is undefined, since it is applied to an
uninitialised local; `UnlockOutcome` chooses among the outcomes a build can
produce: `"kept"` (the configuration's mutex stays locked: `pthread_mutex_t`
is a structure and the local is another one) and `"released"` (the type is a
pointer and the stack slot still holds the one that was locked). `mtxOf` says
which threads share a mutex: each its own where a copy of the configuration
copies a structure, one for all where it copies a pointer.

**MemoryCacheTailq** has one action for each write of the macros of
`sys/queue.h`: `Insert` and `Link` and `End` for the tail, `Detach` and `Skip`
for a removal. `Contents` walks the list from its head; `Log` is
`INSTANCE KeyedLog WITH log <- Contents`. `FirstCount` is what the counter
holds when the pool hands it out, since nothing initialises it.

**MemcachedCache** takes a client (`PopIdle`, `PopNew`, `PopFails`, or waiting,
where none of them is enabled), asks (`AskGet`, `AskSet`), and puts it back
(`Push`). The pool and the server are external, modelled by what the provider
relies on. `NumCores` is what `da_cloud_get_num_cores` may return; -1 becomes
an unsigned number (`AsUint32`), for which libmemcached finds no room or which
it takes as a pool without a limit.

**CacheProviders** lets `cache_set` choose one of these two or the mock, and
sends each call to the one chosen. The GLib and the list provider are builds of
one file and have the same name in it; the file cache is used by processes, not
threads, and is checked by itself.

**DaCloudDetect** has one action for each step of `da_cloud_detect` between two
points where another thread can matter: `Begin` (with the call of get),
`CacheHit`, `CacheMiss`, one action for each thing a server may do, `Stored`
(after the set), and the three ways through the parser. `held` is the set of
resources allocated and not freed; `contacts` is a history of what the servers
asked so far have answered. A body is the request it answers and the way the
code looks at it: an object with properties, one without (`"bare"`: what an
error report in JSON looks like), a text that only begins like one (`"broken"`),
or anything else. Line 340 asks for a brace at the beginning and no more, and
nothing asks for the HTTP status, so the first three are all cached (`Braced`). A
body without a single byte is the crash of line 339. Threads that hang in a
transfer without a time limit, and allocations that fail (`Faults`), are there.

**DetectWithCache** and **DetectGlib** compose it with the contract and with
the provider by conjoining a step of one with `UNCHANGED` of the other's own
variables; both step the shared variables of `CacheInterface`.

**FileCache** has processes with one thread each as the users of
`CacheInterface`, and one action for each call on the file system: the attempts
to open, `fstat` with the look at the clock, `flock`, the length, the read; for
a set the truncating open, `flock`, the part of the value `fwrite` passes on
(with the unlocking after it), and the rest, which `fclose` writes without the
lock. Either part may find the disk full and be written as far as it goes
(`DiskFull`). Names refer to inodes, so that an expired file can be unlinked while it is
being written. `Crash` ends a process anywhere; `Faults` makes each system call
fail. A text is a short sequence of characters: a write at an offset, the holes
it leaves, the line `fgets` stops at and the NUL a string ends at are all about
positions in it. A buffer that `fgets` left as it was allocated is `Garbage`.
Three histories state the properties: `clean` (the inodes that one writer at a
time has written to the end), `quiet` (the readers no writer has disturbed) and
`began` (when a call began). The contract of `CacheSpec` does not hold here, a
reader may see half a value, and these histories say what holds instead.

**FileCacheMmap** adds the actions of the build with `FILE_CACHE_MMAP` and lets
`build` choose one build for all processes. Opening does not truncate there,
the size changes only under the lock, the copy goes character by character, and
a mapping may outlive its call (`mapped`) and keep the lock with it: after a
failed `strdup`, and where a text fills its last page (`FillsPage`), since a
page more is mapped than `munmap` is told of. `kept` is the history of those two
ways. A text that fills its last page and has no hole has no NUL either
(`NoEnd`): reading it ends the process.

**DaCloudMem** keeps blocks, their sizes and bump pointers, the links, the
current block of each holder of a copy of the owning structure, and the
regions handed out. A holder is a thread of `dacloud_mt.c`, and no lock is
taken: an allocation is a sequence of steps (`Call`, `CheckFits` or `CheckFull`
for line 67, `Take` and `Bump` for 69 and 70, `Append` and `Move` for the
growth of the chain and the recursive call), and those of several holders
interleave. Because nothing orders the accesses of two threads, `Take` and
`Bump` may find the value of the pointer that an earlier line has read. `torn`
is the history of the blocks in which two holders were between check and bump at
once, `forked` whether a block was given two successors. `Free` leaves `root`
and each `dcm` dangling, as the code does; `users` are those who may still use
the pool. `size_t` differences wrap (`SIZE`), the mask of line 68 cuts to `WORD`.

**ServerRanking** goes through `da_cloud_init`'s loop over the entries, one
action for each way an entry can go, the probes, and the sort. A probe answers,
fails, or never ends (`ProbeHangs`; no time limit is set). `Cmp` is
`_servers_cmp`, and `qsort` whatever a sort may do with it: it puts two servers
in order (`Exchange`), or exchanges two of which the later one compares as less
(`ExchangeTied`: of two equal servers each does), and returns when no neighbours
are out of order. `setting` is the number in the configuration and `OneBit` the
field of one bit it is stored in.

**Lifecycle** is `da_cloud_init` around those steps, with the place it is at in
`phase` and one action for each way on or out, then `Fini` and `CacheId`.
`Left` is what a provider's `init` leaves, for memcached its client and its pool
of clients apart: `init` succeeds without the pool, and `fini` then frees neither.
`status[o]` says what the pointer to each object of a configuration is worth:
null, garbage, live or dead. Using or freeing one that is garbage or dead is
kept in `bad`, where the properties look for it.

**Callers** are eleven programs: the six examples, the tests, the fuzz target
and the three wrappers. Each is a function from the call it makes to the call
that comes next after success and after failure, read off its source, and the
actions carry out those calls. One of those that clear the configuration in the
same way gets the answer of `da_cloud_init`, so that initialisation is explored
once for all of them.

**XXHash** computes what is mixed into which accumulator in which order, and
what is left over, for both widths, at once and through a state. How a round
mixes bits is left out, so that different records stand for different hashes.
**XXHashStream** resets, updates and digests the states of both.
**DaCloudHeaders** keeps texts as short sequences of characters, because its
properties are about concatenation, and hashes its buffer with `XXH64`.

Each `MC` module only gives values to constants. Definitions marked
`\* a mutant` are variants of the definition below them with a plausible
mistake; nothing uses them but the test that each property notices one.

## 3. The runs

| run | instance | properties |
|---|---|---|
| `mem` | 3 blocks, 2 threads, first block of 8 or 9, requests of 1, 4, 6, 7, calls begin below 3 regions | `TypeOK`, `RegionsDisjoint`, `RegionsInBlock`, `NoOrphan`, `FreedEntirely` |
| `mem_threads` | the same | `ThreadsDisjoint`: **violated** |
| `glib` | 2 threads on one mutex, 4 keys, 2 values, threshold 2 | `TypeOK`, `SizeBound`, `NoTableRace`, `StoredStays`, `CacheContract` (refinement) |
| `providers` | 2 threads, 2 keys, 2 values, up to 2 clients; for the list 1 thread, 4 entries, threshold 3 | `BoundedUntilSpent`, `ClientsConserved`, `MemoryImplementsLog` (refinement), `CacheContract` (refinement), `SomeCallReturns` (liveness) |
| `detect` | 2 threads with 2 detections each, 3 requests on 2 keys, 2 servers, all faults, any cache | `DetectTypeOK`, `CachedUnderItsKey`, `ServedForKey`, `StoresWhatItMissed`, `SourceTruthful`, `FailoverComplete`, `NothingLeaks` |
| `detect_glib` | 2 threads with 2 detections, 1 server, mutex released | `DetectReturns` (liveness) |
| `detect_glib_kept` | 1 thread, mutex kept | `DetectReturns`: **violated** |
| `lifecycle` | up to 3 entries, 2 hosts, 2 times, every cache, every fault, 11 programs | `CallersTypeOK`, `EachServerOnce`, `Ranked`, `NothingLeft`, `PoolsFreed`, `CallsOnWhatExists`, `FiniSafe`, `InitEnds` (liveness) |
| `headers` | 4 names, 4 values, a buffer of 6, 4 adds; inputs of up to 80 bytes, hashed in any pieces | `TypeOK`, `EveryHeaderCounts`, `StreamingAgrees` |
| `headers_collision` | two requests of 2 adds | `SameKeySameRequest`: **violated** |
| `file` | 2 processes, 1 file, 2 values, all faults, one tick, both builds, unlocking and not | `BuildTypeOK`, `WholeAtRest`, `WholeValue`, `NeverStaleLine`, `NothingLeftOpen` |
| `file_keys` | 2 processes, 2 keys, 2 inodes, 1 value that fills its page, failing allocations and disk | `OfItsKey` |

Why the bounds are enough.

- `mem`: 8 and 9 are the residues modulo four of the sizes callers create
  pools with (4096, 4161), and the requests have every residue, so that
  blocks of safe and of unsafe sizes are appended; `LONG_MAX` is 24, which the
  third block of a chain reaches. Three blocks and three regions let two threads
  take one block at once, outgrow it both, and meet again in the next; a call
  that is under way when the third region is taken may still take a fourth.
- `glib`: with four keys and threshold 2 two threads push the table to its
  bound of 3, and past it in the mutants; the table is cleared and filled
  again. Two values for a key show that the first insertion wins.
- `providers`: the threshold of 3 stands for 4096, and four entries take the
  list to it, past it with the counter spent, and through its emptying. A
  counter of 0 and one past the threshold are what a fresh pool may hold. One
  core makes two threads wait for each other; -1 and 2 do not.
- `detect`: two threads are what a stale miss needs; two requests with one key
  and a third with another tell "same key" from "same request"; two servers
  give a first, a last and a failing one. Two detections let a thread find
  what it or the other one stored.
- `lifecycle`: three entries are the least for which a sort can go wrong in the
  middle; an entry may lack its host, or repeat another's. What a program calls
  after `da_cloud_init` depends on the list only by its being there, freed or
  empty, so the programs go on only where there is at most one entry
  (`MaxCalledEntries`). The settings 0, 1 and 2 of the ranking are what the field
  of one bit tells apart, and what it does not. They may repeat their choices as long as they like.
- `headers`: names of which one begins another, and values that fill the
  buffer after two or three headers. The inputs are cut anywhere, and go
  beyond two stripes of 32 bytes and beyond `LENGTHS` (40), which stands for
  the 2^32 at which `total_len_32` starts again. The hash and the headers share
  nothing: `MCDaCloudHeaders` has one of them at work at a time.
- `file`: keys name different files, so one key is enough for what concerns one
  file. Of the values one fills the buffer of stdio and has a rest, the other
  stays in it, which gives the overlays and holes of two writers; a page of
  four holds either, and ends exactly with an empty file. Two inodes
  are as many as two processes can hold at once with one name. One tick of the
  clock is one expiration. Two attempts to open stand for ten.
- `file_keys`: with two keys a process can still write to a file that has been
  unlinked, and the inode can come to belong to the other key. The value has two
  lines and ends with its page, so that a mapping reads it only where a hole
  gives it an end, or the process dies.

Deadlock checking is off in `mem` (a pool may be full), in the runs of the
providers and of detections (all threads may wait for a mutex that stays
locked, may hang, may have crashed or done their number of detections), in
`lifecycle` (a program ends), and in the runs of the headers (the process may
have crashed). It is on in `file`, where a process can always crash or begin
anew, and in `file_keys` for the same reason.

Symmetry is used only in runs that check safety properties, over sets whose
members no constant tells apart.

## 4. Fairness

`DetectGlib` has `WF_vars(Continue(t))` for each thread: a thread that can take
its next step does so eventually. The scheduler of threads justifies that; for
the step into a mutex, weak fairness is enough because the number of
detections is bounded, so that the other threads leave the mutex alone in the
end. A server is not assumed to answer: `ServerHangs` is a step that ends in a
state of its own, which `DetectReturns` excuses, as it excuses a crash.

`CacheProviders` has `WF_providerVars(Provider(t))` for each thread. What a
thread waits for, a condition of the pool of clients, need not be given to the
thread that has waited longest, so the property is that *some* call returns.

`Callers` has weak fairness of the steps of `da_cloud_init` and of nothing else
(`InitGoesOn`): the one thread that runs it goes on; a program need not call
anything. A probe that fails to end is a step into a state of its own (`"hung"`),
which `InitEnds` excuses as it excuses an entry without a host. `qsort` is assumed
not to exchange servers that compare as equal for ever: `ExchangeTied` is no fair
step, `Exchange`, which leaves fewer pairs out of order, is.

## 5. The proofs

Every invariant and action property a passing run checks, and every refinement,
is also a theorem, for all values of the constants that the named `ASSUME`s
allow. A component's theorems stand in a module of their own; `PROJECT.json`
lists the results and the property each one states. What follows is the
argument of each module: the property a reader wants is hardly ever inductive,
so the invariant that is, and why it has to say more, is the point.

**CacheInterfaceProofs** has the lemmas all users of the interface need: the
types of calls, and that a call and its return keep the types of the interface.

**DetectWithCacheProofs**, for any threads, servers, requests, keys, kinds of
bodies and faults, over any cache that keeps `CacheSpec`.

- `DetectInv` says for each place of a detection what it has learnt so far:
  which call it is in and on which key, which servers it has asked and that all
  of them have failed, what it holds and owes to free. A step of one thread
  leaves what the others know alone (`UnmovedPhase`), except that the cache may
  grow; so each action is looked at for one thread only. From it `ServedItsKey`,
  `SetsWhatItMissed`, `SourceIsTruthful`, `FailoverIsComplete`,
  `NothingIsLeaked`, `CachedTextsMatchTheirKey` and `DetectTypeCorrect`.
  `CachedTextsMatchTheirKey` says that what is kept begins with a brace and
  answers a request with its key; it may be an error report.
  `ServedForKey` alone is not inductive: a thread that waits for a set must be
  known to hold the body that answered *its* request.
- `DetectionUsesCache`: detection and cache together keep the contract.
- `DetectionOverGlib`: `DetectGlib` implements `DetectWithCache`. The step of
  the provider that completes a call is a step of the contract because of
  `ProviderInv` (a value in the table or on its way out was offered under its
  key), and that in turn holds because the detection sets only what it has
  missed, which is `DetectInv`: neither invariant stands without the other.
  `GlibDetectionsAreCorrect` draws the conclusion; `GlibServesDetection` is the
  other half, that `da_cloud_detect` is a client `MemoryCacheGlib` allows for,
  so that the theorems about the table hold under it too.

**MemoryCacheGlibProofs**

- `TypeCorrect`; `TableRaceFree` and, for `UnlockOutcome = {"kept"}`,
  `KeptMutexStoresNothing`, from `ExclusionInv`: a thread in its section holds
  its mutex, and where mutexes are kept a thread that has missed has used its
  mutex up. The two go together: with a mutex for each thread only the fact
  that nobody ever gets into `set` keeps writes apart.
- `SizeBounded`, for finitely many threads, from `SizeInv`: stored values plus
  the threads that may still insert never exceed the threshold plus the
  threads, where a thread may insert from the moment its get found room.
- `StoredIsNotReplaced`, an action property, from the types.
- `Refinement`: `Spec => CacheContract`, from `OriginInv`: everything in the
  table or on its way to a caller was offered under its key.

**CacheProvidersProofs**

- `ProvidersTypeCorrect`, from `TypeInv`, which adds which local variables mean
  something at which step.
- `ClientsAreConserved`, from `HeldInv`: a client that was made is in the pool
  or with exactly one thread, and no more are made than the pool may have.
- `ProvidersKeepContract`, from `OriginInv`: entries, the server and answers on
  their way hold only pairs that were offered. It needs nothing of the links,
  so it also holds for threads that use the list without a lock.
- `ListIsBounded` and `MemoryIsALog`, from `ListInv`: there is a sequence of
  entries, and whichever write of a macro was the last, the pointers tie just
  this sequence, forward and backward, but for the one link the next write is to
  make. `Contents` walks the list by a recursive function; that it returns this
  sequence is shown for the least place at which they would differ. For the
  bound the invariant also relates the length to the counter, which is not
  reset: past the threshold the list has one entry at most. Both theorems
  suppose that one thread uses the list (`User = {u}`), as the run does; with
  two they are false, since the list has no lock.

**FileCacheProofs**, for any processes, keys, values, inodes, sizes of the
buffer, clocks and faults, in both builds. `FileInv` is a conjunction, in which
each part is a step that uses those before it:

- `FileTypeOK` and `Places`, what each place of a process says of its file;
  from them the types, and `NothingLeftOpen` together with `KeptStep`, that no
  mapping is left in other ways than `kept` records.
- `Locks` and `Exclusive`: who is past `flock` has the lock, and a lock that
  excludes others is one process's alone.
- `NeverStaleLine`, whose age is carried from the check to the read.
- `OneKey`: an inode that is named or open anywhere belongs to one key. Without
  it an unlinked file that a writer still has could be another key's.
- `TextsFit`: each character of such a file stands at its place in some value
  offered under its key. It holds through overlapping writers, holes, crashes
  and a full disk, and so do the values read from it (`OfValues`): the first
  half of `OfItsKey`. The other half, that a reader nobody has disturbed gets no
  buffer as it was allocated, comes from `WholeValue`.
- `StdioClean` and `MapClean`, how far the one writer of a clean file has come,
  and `StdioQuiet`, `MapQuiet` and `MapCopying`, what a reader nobody has
  disturbed has read; from these `WholeAtRest` and `WholeValue`.

**CallersProofs**, for configurations of any length, any servers, times, faults
and all eleven programs.

- `RankInv`: while it is read the list is a prefix of the entries, afterwards
  all of them in order until the sort, each exchange of which keeps every server
  in it once. It gives `ListIsComplete` and `ListIsRanked`, of `da_cloud_init`
  among its callers, and `RankingTypeCorrect`, of `ServerRanking` by itself. For
  `ListIsRanked` the comparison is opened: that no neighbours are out of order
  when the sort returns says that no two servers are, because `Cmp` agrees with
  the order of the times wherever it is positive; and an odd setting is one that
  leaves the bit set.
- `HeapInv`: at each place of `da_cloud_init`, after it and after
  `da_cloud_fini`, which pointers of a configuration are live, dead, null or
  never assigned. `FiniSafe` and `NothingLeft` follow; the exceptions they
  name turn up as the cases that cannot be proved.
- `PoolInv`: for each program and each call it may make next, whether headers
  and properties exist; from it `PoolsFreed` and `CallsOnWhatExists`.

**DaCloudMemProofs**, under `SmallRequests` (a request plus three is below
2^32, the width of the mask):

- `TypeCorrect`, for threads whose steps interleave: whoever may use the pool is
  at a live block, although after a `Free` every pointer dangles.
- `Disjointness` and `Containment`, from `RegionInv`. It says of each block in
  which no two calls have met (`torn`) that what was handed out lies below the
  bump pointer (`Below`), that this is a multiple of four and, in a block of a
  size of 0 or 1 modulo 4, not past the end (`Aligned`), and that who is between
  check and bump there is alone and what it has read still holds (`Alone`). The
  alignment is what makes it inductive: the check compares the request *before*
  rounding, and only a multiple of four plus a rounded request cannot step over
  an end of such a size. Without the exception for `torn` both are false, the
  first as `mem_threads` shows.
- `ChainHoldsEveryBlock` and `NothingLeftBehind`, from `ChainInv`: until two
  threads outgrow one block (`forked`), every set of blocks that contains the
  root and is closed under `next` is the set of all blocks. Stating reachability
  that way makes the step that appends a block provable without induction.

**DaCloudHeadersProofs**

- `KeyInv`: the key is that of the list as it is now, whatever the calls before
  were. `HeadersTypeCorrect` adds that the text of any list leaves room for the
  NUL, and `EveryHeaderIsHashed` that it is the whole request while that fits;
  both are facts about the loop `KeyText`, proved along the list.
- `PiecesDoNotMatter`, for inputs of any length and pieces of any size, from
  `StreamInv`: the two states are functions of the input so far. What makes it
  inductive are facts about words and stripes (`RoundsConcat`, `RestIs`): the
  rounds of a concatenation are those of its parts if the first is whole
  stripes, and an update fills up the buffer, takes whole stripes and keeps the
  rest.

*Induction.* The theorems of the library that take an operator as parameter
cannot be used with the provers at hand. Facts about lists and recursive
functions are proved here by the least number for which they would fail
(`LeastNumber`, `Induct`, from `WFMin` and the well-foundedness of `<`), and that
a recursively defined function has the values its definition gives by
constructing it up to each bound (`Recursion`).

*What the theorems rest on.* The `ASSUME`s, which TLC evaluates in the runs.
`GlibAssumption`: an unlock can release only where the mutex is shared, and
thresholds are positive. `FileAssumption` and `HeadersAssumption`: values and
texts are sequences, the buffers have room for something and a NUL, and the mark
of a key without a value is no character. `LengthsAssumption`: lengths start
again at some number beyond 30, which is 2^32 in the code and 40 in the run.
`InterfaceAssumption`, `DetectAssumption`, `RankingAssumption`,
`LifecycleAssumption`, `TailqAssumption` and `MemcachedAssumption` give the
constants their types and keep "none" apart from the values. Beyond these a
theorem supposes only what its statement says: `SmallRequests`,
`IsFiniteSet(Thread)`, `User = {u}`.

*Checked by TLC only.* Liveness: `DetectReturns`, `SomeCallReturns` and
`InitEnds`, which need fairness and `ENABLED`, out of the prover's reach. And
the three violations of section 6, which are counterexamples.

*Forms chosen for the proofs.* `KeyText`, `Contents` and `KeyedLog` use
recursive functions and quantifiers in place of folds, and `Callers` writes
records out in place of merging functions; none of this changes a behaviour.
`StreamSpec` of `XXHashStream` is the hash by itself, as `MCDaCloudHeaders` runs
it beside the headers.

## 6. Findings

- `detect_glib_kept`: where `MTX_UNLOCK` does not unlock the configuration's
  mutex, a detection that misses waits for ever in `memory_cache_set` for the
  mutex its own `memory_cache_get` has locked, while `tests/dacloud_tests.c`
  expects an answer.
- `headers_collision`: requests with different headers can have one cache key.
- `mem_threads`: threads with copies of one configuration allocate from the same
  block without a lock, as `memory_cache_set` of the list provider does, and are
  handed the same bytes; `dacloud.h:131` lets threads detect after one
  `da_cloud_init`, and `examples/dacloud_mt.c:86` does so.

Also met while modelling, without a run of their own.

- A server that was never reached keeps the time -1, which `_servers_cmp` sorts
  first (`dacloud.c:222`), so that each detection asks it before any that works;
  `dacloud.h:99-100` promises an order by response speed. `Ranked` is therefore
  about the servers that have answered.
- `g_allocator` is static in a header, so that `da_cloud_setallocator` replaces
  the copy of `dacloud_mem.c` only; `dacloud_mem.h:55-56` promises its use for
  every part.
- Of `da_cloud_init`: an entry of `servers` without a host keeps it in its loop
  (`ReadHostless`), and a server that accepts a connection and never answers in
  its probe (`ProbeHangs`), the cases `InitEnds` excepts; an allocation of a
  server or of the default ones that fails crashes it (`ReadCrashes`), and one of
  a host's name leaves a server without one; an even `manual_ranking` other than
  0 is no manual ranking (`OneBit`); a missing licence key
  duplicates a pointer nothing was assigned to (`NoLicence`); a failed
  reallocation frees the array that `da_cloud_fini` reads and frees again, and an
  early return leaves a configuration that was not cleared with pointers that
  `da_cloud_fini` frees (the cases `FiniSafe` excepts).
- Of `da_cloud_detect`: an error report of a server that begins with a brace is
  cached like an answer, and so is a text that does not parse (`Braced`), since
  neither the HTTP status nor the rest of the text is looked at; a transfer has no
  time limit; a property that finds no room leaks the parsed document
  (`ParseStops`, the case `NothingLeaks` excepts); an empty body and a failed
  reallocation crash the process; a pool of properties that cannot be made
  leaves the caller's head as it was.
- Of the GLib cache: the copies of key and value made for a key that is already
  there are freed by nobody (`memory_cache_provider.c:95-98`).
- Of the memcached cache: where its pool of clients cannot be made `init` succeeds,
  and `fini` does not free the client it was made from (`cfg->data`,
  `memcached_cache_provider.c:21, 35-39, 78`; the case `NothingLeft` excepts).
- Of the file cache: a value is read back up to its first newline only
  (`fgets`, line 169; `Line`); a reader that a writer disturbs gets a part of a
  value, an empty string or an uninitialised buffer; a full disk leaves a part
  of a value (`DiskFull`); a process that dies in a set leaves a
  file that is served as an answer without properties until it expires; a file
  can be rewritten between the check of its age and its removal, and is lost
  (`Unlink`). With a mapping no value ever expires; a failed `strdup` leaves the
  mapping (lines 198-203), as does a text that fills its page (line 205), and
  with it on some systems the flock, for which the next set waits for ever; and
  an empty file, or a text that fills its page, may end the process that reads
  it.
- Of the pools: two threads that outgrow one block leave a block that is never
  freed (`forked`), and in a block of a size of 2 or 3 modulo four a request can
  step over the end.
- Of the TAILQ cache: once its counter has passed 4096, at once if the memory
  it was given holds such a number, it forgets each value at the next get.
- Of the callers: what `PoolsFreed` and `CallsOnWhatExists` except. Examples
  free the properties only after a success; the fuzz target goes on after a
  `da_cloud_fini`; the Go wrapper does not look at the result of
  `da_cloud_init`, and copies a value cut to the length of its key
  (`dacloud.go:175-176`); the Python wrapper hands out a reference it does not
  own; and the id of the mock provider, called where no cache is configured, is
  never set.

## 7. What is not modelled

- What a data race does beyond the order of the accesses and values kept from an
  earlier line: `DaCloudMem` gives each access of a pointer an effect of its own.
- Printing and logging change no state. `da_cloud_crypt_key` is deprecated and
  called by nobody.
- In xxHash the states (`XXHashStream`) are modelled, but the library itself only
  hashes at once (`dacloud_header_property.c:95`). Left out are how bits are
  mixed, and XXH3, canonical forms and the allocation of states, which nothing
  in the library calls either. The hash is taken to be free of collisions.
- JSON parsing is a choice among four kinds of text, and libcurl a choice among
  the results `da_cloud_detect` tells apart. libconfig is a choice among the
  values `da_cloud_init` tells apart.
- The list of the TAILQ cache with two threads: it has no lock, and no promise
  of it is left. A second thread that fills it while it is emptied would let
  the code follow a null pointer.
- In the file cache a failing `ftruncate`, whose result is not looked at. In
  `Lifecycle` the mutex that `MTX_DISPOSE` destroys before it was initialised,
  which the C library lets pass.
- In the C++ wrapper the copy of the head of the properties that the first
  constructor hands out, and the threads of its example; in the Python wrapper
  the counts of the error and of the type, and a `load_config` that is called
  again after it has failed; in the Go wrapper a `Detect` after `Finalize`.

## 8. The plan

Done: each component as section 2 lists it, with its runs; proofs of every
safety and action property the runs check, of the refinements of `CacheSpec` and
`KeyedLog`, and that `DetectGlib` implements both `DetectWithCache` and
`MemoryCacheGlib`.

To do, in this order:

1. The list of the TAILQ cache under two threads, as far as its behaviour is
   defined: which entries can be lost before a null pointer is followed.
2. The file that is found expired and unlinked by name, as a property of
   `FileCache` that says which value set since may be lost (`Unlink`).
3. Detection over the providers of `CacheProviders`, as over the GLib cache,
   and the theorem that it implements `DetectWithCache`.
4. The head of the properties that the C++ wrapper copies.
