----------------------------- MODULE FileCache ------------------------------
(***************************************************************************)
(* The file cache (file_cache_provider.c), used by processes that share    *)
(* nothing but a directory; the build with FILE_CACHE_MMAP is in the       *)
(* module FileCacheMmap.                                                   *)
(*                                                                         *)
(* A Thread of CacheInterface is here a process of one thread.  Its get    *)
(* and set open the file a key names, take an flock and read or write      *)
(* through stdio.  The lock covers less than it seems to: fopen truncates  *)
(* a file before set has its lock, and what the buffer of stdio holds is   *)
(* written by fclose, after set has given the lock up.                     *)
(*                                                                         *)
(* The key names the file: its first character is a directory, the others *)
(* the name in it.  A name refers to an inode with a text, a sequence of   *)
(* characters; an inode without a name lives while a process has it open.  *)
(* flock belongs to the open file and goes with it.                        *)
(***************************************************************************)
EXTENDS CacheInterface, Sequences, SequencesExt

CONSTANTS
  Inode,
  NoInode,
  Newline,        \* the character fgets stops at
  Nul,            \* the character that ends a string, and fills a hole
  Garbage,        \* a buffer nothing was written to
  BUFSIZE,        \* the buffer of stdio: fwrite keeps back less than that
  ATTEMPTS,       \* how often FILE_CACHE_ATTEMPT opens a file: 10
  Expiration,     \* cfg->expiration
  MaxTime,        \* bound of the model: the clock
  UnlockOutcome,  \* what MTX_UNLOCK may do, as in MemoryCacheGlib
  Faults          \* what may fail: "mkdir", "open", "stat", "lock", "alloc", "disk",
                  \*   and in FileCacheMmap "map"

ASSUME FileAssumption ==
  /\ \A v \in Value : v \in Seq(Range(v))      \* a value is a text
  /\ NoInode \notin Inode
  /\ Garbage \notin Seq((UNION {Range(v) : v \in Value}) \cup {Nul}) /\ Garbage # NoValue
  /\ BUFSIZE \in Nat \ {0} /\ ATTEMPTS \in Nat \ {0}
  /\ Expiration \in Nat /\ MaxTime \in Nat
  /\ UnlockOutcome \in (SUBSET {"kept", "released"}) \ {{}}
  /\ Faults \subseteq {"mkdir", "open", "stat", "lock", "alloc", "disk", "map"}

VARIABLES
  dir,     \* dir[k]: the inode the path made of key k names
  text,    \* text[f]: what is in the file
  mtime,   \* mtime[f]: when it was last written or truncated
  locks,   \* locks[f][t]: the flock process t has on it
  now,     \* time(NULL)
  at,      \* at[t]: where process t is
  mutex,   \* mutex[t]: cfg->mtx of process t
  file,    \* file[t]: the inode it has open
  i,       \* i[t]: failed attempts to open the file
  len,     \* len[t]: valuelen in get
  value,   \* value[t]: *value
  began,   \* history: when the call of t began
  clean,   \* history: the inodes no two writers have shared, no failed or
           \*   killed writer has left, since they were truncated
  quiet    \* history: the processes no writer has disturbed since they
           \*   opened a clean file

files == <<dir, text, mtime, locks, now>>
vars == <<interface, files, at, mutex, file, i, len, value, began, clean, quiet>>

-----------------------------------------------------------------------------
(* The directory and the files.                                            *)

Named == {dir[k] : k \in Key}
Unused == {f \in Inode : f \notin Named /\ \A t \in Thread : file[t] # f}
Writers(f) == {t \in Thread : file[t] = f /\ call[t].op = "set"}

TooLate(f) == mtime[f] + Expiration < now                      \* a mutant
Expired(f) == mtime[f] + Expiration <= now

(* A text after s has been written at offset off, beyond its end perhaps.  *)
Overlay(s, off, old) ==
  LET end == IF s = <<>> THEN 0 ELSE off + Len(s)
  IN [n \in 1 .. (IF Len(old) > end THEN Len(old) ELSE end) |->
        CASE n > off /\ n <= end -> s[n - off]
          [] n <= Len(old) /\ ~(n > off /\ n <= end) -> old[n]
          [] OTHER -> Nul]

(* fwrite hands whole buffers to the system and keeps the rest back.       *)
Direct(v) == SubSeq(v, 1, (Len(v) \div BUFSIZE) * BUFSIZE)
Rest(v) == SubSeq(v, Len(Direct(v)) + 1, Len(v))

(* What fgets makes of a text when it may read max characters: a line, and *)
(* as a string only what comes before the first Nul.  From nothing it      *)
(* makes nothing: the buffer keeps what it held when it was allocated.     *)
Line(s) ==
  LET n == SelectInSeq(s, LAMBDA c : c = Newline)
  IN IF n = 0 THEN s ELSE SubSeq(s, 1, n)
AsString(s) ==
  LET n == SelectInSeq(s, LAMBDA c : c = Nul)
  IN IF n = 0 THEN s ELSE SubSeq(s, 1, n - 1)
AtMost(s, max) == SubSeq(s, 1, IF Len(s) < max THEN Len(s) ELSE max)

Gets(s, max) ==
  IF s = <<>> /\ max > 0 THEN Garbage ELSE AsString(Line(AtMost(s, max)))

-----------------------------------------------------------------------------
Init ==
  /\ InterfaceInit
  /\ dir = [k \in Key |-> NoInode]
  /\ text = [f \in Inode |-> <<>>]
  /\ mtime = [f \in Inode |-> 0]
  /\ locks = [f \in Inode |-> [t \in Thread |-> "none"]]
  /\ now = 0
  /\ at = [t \in Thread |-> "out"]
  /\ mutex = [t \in Thread |-> "free"]
  /\ file = [t \in Thread |-> NoInode]
  /\ i = [t \in Thread |-> 0]
  /\ len = [t \in Thread |-> 0]
  /\ value = [t \in Thread |-> NoValue]
  /\ began = [t \in Thread |-> 0]
  /\ clean = Inode
  /\ quiet = {}

Goto(t, l) == at' = [at EXCEPT ![t] = l]
Opened(t, f) == file' = [file EXCEPT ![t] = f]

(* fclose: the file is no longer open, and its lock is gone.               *)
Closed(t) ==
  /\ file' = [file EXCEPT ![t] = NoInode]
  /\ locks' = [f \in Inode |-> [locks[f] EXCEPT ![t] = "none"]]

(* MTX_LOCK.                                                               *)
Enter(t) ==
  /\ stage[t] = "busy" /\ at[t] = "out"
  /\ mutex[t] = "free"
  /\ mutex' = [mutex EXCEPT ![t] = "locked"]
  /\ i' = [i EXCEPT ![t] = 0]
  /\ began' = [began EXCEPT ![t] = now]
  /\ Goto(t, "open")
  /\ UNCHANGED <<interface, files, file, len, value, clean, quiet>>

(* mkdir fails in set, which then returns 0 (line 231).                    *)
MkdirFails(t) ==
  /\ "mkdir" \in Faults
  /\ at[t] = "open" /\ i[t] = 0 /\ call[t].op = "set"
  /\ Goto(t, "leave")
  /\ UNCHANGED <<interface, files, mutex, file, i, len, value, began, clean, quiet>>

(* FILE_CACHE_ATTEMPT: it is tried again until the last attempt.           *)
OnceMore(n) == IF n > ATTEMPTS THEN "leave" ELSE "open"        \* a mutant
AfterAttempt(n) == IF n = ATTEMPTS THEN "leave" ELSE "open"

OpenFails(t) ==
  /\ at[t] = "open"
  /\ "open" \in Faults \/ (call[t].op = "get" /\ dir[call[t].key] = NoInode)
  /\ i' = [i EXCEPT ![t] = @ + 1]
  /\ Goto(t, AfterAttempt(i[t] + 1))
  /\ UNCHANGED <<interface, files, mutex, file, len, value, began, clean, quiet>>

(* What ends a call whose file is open but of no use: fstat, flock or an   *)
(* allocation fails.  A file that set has truncated stays empty.           *)
GiveUp(t) ==
  /\ \/ "stat" \in Faults /\ at[t] = "stat"
     \/ "lock" \in Faults /\ at[t] = "lock"
     \/ "alloc" \in Faults /\ at[t] = "read"
  /\ clean' = IF call[t].op = "set" THEN clean \ {file[t]} ELSE clean
  /\ Closed(t)
  /\ Goto(t, "leave")
  /\ UNCHANGED <<interface, dir, text, mtime, now, mutex, i, len, value, began, quiet>>

(* flock waits while another process has a lock that excludes it.          *)
Mode(t) == IF call[t].op = "get" THEN "shared" ELSE "exclusive"
Compatible(t, f) ==
  \A u \in Thread \ {t} :
    locks[f][u] = "none" \/ (locks[f][u] = "shared" /\ Mode(t) = "shared")

Flock(t) ==
  /\ at[t] = "lock"
  /\ Compatible(t, file[t])
  /\ locks' = [locks EXCEPT ![file[t]][t] = Mode(t)]
  /\ Goto(t, IF call[t].op = "get" THEN "size" ELSE "write")
  /\ UNCHANGED <<interface, dir, text, mtime, now, mutex, file, i, len, value, began, clean, quiet>>
-----------------------------------------------------------------------------
(* file_cache_get.                                                         *)

OpenToRead(t) ==
  LET f == dir[call[t].key]
  IN /\ at[t] = "open" /\ call[t].op = "get"
     /\ f # NoInode
     /\ Opened(t, f)
     /\ quiet' = IF f \in clean /\ Writers(f) = {} THEN quiet \cup {t} ELSE quiet \ {t}
     /\ Goto(t, "stat")
     /\ UNCHANGED <<interface, files, mutex, i, len, value, began, clean>>

(* fstat and the comparison with the clock: an expired file is closed.     *)
FindExpired(t) ==
  /\ at[t] = "stat" /\ Expired(file[t])
  /\ Closed(t)
  /\ Goto(t, "expired")
  /\ UNCHANGED <<interface, dir, text, mtime, now, mutex, i, len, value, began, clean, quiet>>

FindFresh(t) ==
  /\ at[t] = "stat" /\ ~Expired(file[t])
  /\ Goto(t, "lock")
  /\ UNCHANGED <<interface, files, mutex, file, i, len, value, began, clean, quiet>>

(* The length of the file, and a buffer for as much.                       *)
Measure(t) ==
  /\ at[t] = "size"
  /\ len' = [len EXCEPT ![t] = Len(text[file[t]])]
  /\ Goto(t, "read")
  /\ UNCHANGED <<interface, files, mutex, file, i, value, began, clean, quiet>>

(* fgets, and the file is unlocked and closed.                             *)
Read(t) ==
  /\ at[t] = "read"
  /\ value' = [value EXCEPT ![t] = Gets(text[file[t]], len[t])]
  /\ Closed(t)
  /\ Goto(t, "leave")
  /\ UNCHANGED <<interface, dir, text, mtime, now, mutex, i, len, began, clean, quiet>>

(* The expired file is removed by its name, once MTX_UNLOCK is done: what  *)
(* has the name by then need not be the file that was looked at.           *)
Unlink(t) ==
  /\ at[t] = "unlink"
  /\ dir' = [dir EXCEPT ![call[t].key] = NoInode]
  /\ Goto(t, "out")
  /\ stage' = [stage EXCEPT ![t] = "done"]
  /\ UNCHANGED <<call, ans, missed, offered, text, mtime, locks, now, mutex, file, i, len, value, began, clean, quiet>>
-----------------------------------------------------------------------------
(* file_cache_set.                                                         *)

(* fopen for writing makes a file or truncates the one there is, locked by *)
(* another process or not.                                                 *)
OpenToWrite(t) ==
  LET k == call[t].key
  IN /\ at[t] = "open" /\ call[t].op = "set"
     /\ \E f \in (IF dir[k] = NoInode THEN Unused ELSE {dir[k]}) :
          /\ dir' = [dir EXCEPT ![k] = f]
          /\ text' = [text EXCEPT ![f] = <<>>]
          /\ mtime' = [mtime EXCEPT ![f] = now]
          /\ Opened(t, f)
          /\ clean' = IF Writers(f) = {} THEN clean \cup {f} ELSE clean \ {f}
          /\ quiet' = {u \in quiet : file[u] # f}
     /\ Goto(t, "lock")
     /\ UNCHANGED <<interface, locks, now, mutex, i, len, value, began>>

Written(t, off, s) ==
  /\ text' = [text EXCEPT ![file[t]] = Overlay(s, off, @)]
  /\ mtime' = [mtime EXCEPT ![file[t]] = IF s = <<>> THEN @ ELSE now]

(* fwrite, and the lock is given up before the buffer is written.          *)
Write(t) ==
  /\ at[t] = "write"
  /\ Written(t, 0, Direct(call[t].val))
  /\ locks' = [locks EXCEPT ![file[t]][t] = "none"]
  /\ Goto(t, "flush")
  /\ UNCHANGED <<interface, dir, now, mutex, file, i, len, value, began, clean, quiet>>

(* fclose writes what the buffer holds.                                    *)
FlushAtStart(t) ==                                             \* a mutant
  /\ at[t] = "flush"
  /\ Written(t, 0, Rest(call[t].val))
  /\ Closed(t)
  /\ Goto(t, "leave")
  /\ UNCHANGED <<interface, dir, now, mutex, i, len, value, began, clean, quiet>>

Flush(t) ==
  /\ at[t] = "flush"
  /\ Written(t, Len(Direct(call[t].val)), Rest(call[t].val))
  /\ Closed(t)
  /\ Goto(t, "leave")
  /\ UNCHANGED <<interface, dir, now, mutex, i, len, value, began, clean, quiet>>

(* A full disk is not noticed: what fwrite and fclose return is ignored.   *)
(* Some of what either has to write is written, and nothing after it.      *)
Shortened(t, off, s) == \E n \in 0 .. Len(s) - 1 : Written(t, off, SubSeq(s, 1, n))

DiskFull(t) ==
  /\ "disk" \in Faults
  /\ \/ at[t] = "write" /\ Shortened(t, 0, Direct(call[t].val))
     \/ at[t] = "flush" /\ Shortened(t, Len(Direct(call[t].val)), Rest(call[t].val))
  /\ clean' = clean \ {file[t]}
  /\ Closed(t)
  /\ Goto(t, "leave")
  /\ UNCHANGED <<interface, dir, now, mutex, i, len, value, began, quiet>>
-----------------------------------------------------------------------------
(* MTX_UNLOCK, and the return to the caller unless a file is to be removed. *)
Leave(t) ==
  /\ at[t] \in {"leave", "expired"}
  /\ \E o \in UnlockOutcome :
       mutex' = IF o = "released" THEN [mutex EXCEPT ![t] = "free"] ELSE mutex
  /\ i' = [i EXCEPT ![t] = 0]
  /\ len' = [len EXCEPT ![t] = 0]
  /\ began' = [began EXCEPT ![t] = 0]
  /\ quiet' = quiet \ {t}
  /\ value' = [value EXCEPT ![t] = NoValue]
  /\ IF at[t] = "expired"
     THEN Goto(t, "unlink") /\ UNCHANGED <<stage, ans>>
     ELSE /\ Goto(t, "out")
          /\ stage' = [stage EXCEPT ![t] = "done"]
          /\ ans' = [ans EXCEPT ![t] = value[t]]
  /\ UNCHANGED <<call, missed, offered, files, file, clean>>

(* A process dies and starts anew.  The system closes its file; what its   *)
(* buffer held is lost.                                                    *)
Killed(t) ==
  /\ at[t] # "out" \/ mutex[t] = "locked"
  /\ stage' = [stage EXCEPT ![t] = "idle"]
  /\ call' = [call EXCEPT ![t] = NoCall]
  /\ ans' = [ans EXCEPT ![t] = NoValue]
  /\ missed' = [missed EXCEPT ![t] = NoKey]
  /\ Closed(t)
  /\ mutex' = [mutex EXCEPT ![t] = "free"]
  /\ Goto(t, "out")
  /\ i' = [i EXCEPT ![t] = 0]
  /\ len' = [len EXCEPT ![t] = 0]
  /\ value' = [value EXCEPT ![t] = NoValue]
  /\ began' = [began EXCEPT ![t] = 0]
  /\ quiet' = quiet \ {t}
  /\ UNCHANGED <<offered, dir, text, mtime, now>>

Crash(t) ==
  /\ Killed(t)
  /\ clean' = IF t \in Writers(file[t]) THEN clean \ {file[t]} ELSE clean

Provider(t) ==
  \/ Enter(t) \/ MkdirFails(t) \/ OpenFails(t) \/ GiveUp(t) \/ Flock(t)
  \/ OpenToRead(t) \/ FindExpired(t) \/ FindFresh(t) \/ Measure(t) \/ Read(t) \/ Unlink(t)
  \/ OpenToWrite(t) \/ Write(t) \/ Flush(t) \/ DiskFull(t)
  \/ Leave(t)

Client(t) ==
  /\ ClientNext(t)
  /\ UNCHANGED <<files, at, mutex, file, i, len, value, began, clean, quiet>>

Tick ==
  /\ now < MaxTime
  /\ now' = now + 1
  /\ UNCHANGED <<interface, dir, text, mtime, locks, at, mutex, file, i, len, value, began, clean, quiet>>

Next == Tick \/ \E t \in Thread : Client(t) \/ Provider(t) \/ Crash(t)

Spec == Init /\ [][Next]_vars
-----------------------------------------------------------------------------
Steps == {"out", "open", "stat", "lock", "size", "read", "expired", "unlink",
          "write", "flush", "copy", "leave"}

TypeOK ==
  /\ dir \in [Key -> Inode \cup {NoInode}]
  /\ mtime \in [Inode -> 0 .. now]
  /\ locks \in [Inode -> [Thread -> {"none", "shared", "exclusive"}]]
  /\ now \in 0 .. MaxTime
  /\ at \in [Thread -> Steps]
  /\ mutex \in [Thread -> {"free", "locked"}]
  /\ file \in [Thread -> Inode \cup {NoInode}]
  /\ i \in [Thread -> 0 .. ATTEMPTS]
  /\ began \in [Thread -> 0 .. now]
  /\ clean \subseteq Inode /\ quiet \subseteq Thread

(* Whatever writers, crashes and a full disk make of a file, each character *)
(* a get reads from it stands at its place in some value that was set under *)
(* the key of the get: no interleaving shifts a text, or hands one to       *)
(* another key (lines 236-254).  What a get hands out without having read   *)
(* anything, the buffer as it was allocated (lines 158-169), it hands out   *)
(* only if a writer has disturbed it.                                       *)
OfItsKey ==
  \A t \in Thread :
    /\ value[t] = Garbage => t \notin quiet
    /\ value[t] \notin {NoValue, Garbage} =>
         \A n \in DOMAIN value[t] :
           \E e \in offered : e[1] = call[t].key /\ n <= Len(e[2]) /\ e[2][n] = value[t][n]

(* A file that one writer at a time has written, and none has failed or    *)
(* died over, holds a whole value set under its key once it is at rest,    *)
(* although part of it is written without the lock (lines 244-254).        *)
WholeAtRest ==
  \A k \in Key :
    LET f == dir[k]
    IN f # NoInode /\ f \in clean /\ Writers(f) = {} => <<k, text[f]>> \in offered

(* A get that no writer disturbs between its fopen and its fgets hands out *)
(* the whole first line of a value set under its key (lines 127-169).      *)
WholeAnswer ==
  \A t \in quiet : value[t] # NoValue =>
    \E e \in offered : e[1] = call[t].key /\ value[t] = AsString(Line(e[2]))

(* A get reads only a file that had not expired when the get was called,   *)
(* whenever it gets the lock (line 142).                                   *)
NeverStale ==
  \A t \in Thread :
    at[t] \in {"lock", "size", "read"} /\ call[t].op = "get" =>
      mtime[file[t]] + Expiration > began[t]
=============================================================================
