---------------------------- MODULE FileCacheMmap ----------------------------
(***************************************************************************)
(* The file cache in both its builds: through stdio (FileCache), or with   *)
(* FILE_CACHE_MMAP through a mapping of the file.                          *)
(*                                                                         *)
(* With a mapping, set opens the file without truncating it, and changes   *)
(* it only while it has its flock; get never looks at the age of a file.   *)
(* A mapping of a file reads as Nul up to the end of its last page; beyond *)
(* that an access kills the process with SIGBUS.                           *)
(***************************************************************************)
EXTENDS FileCache

CONSTANT PAGE    \* characters in a page

ASSUME PageAssumption == PAGE \in Nat \ {0}

VARIABLES
  build,    \* "stdio" or "mmap", for all processes
  mapped,   \* mapped[t]: files t has closed with a mapping left, and the flock with it
  kept      \* history: those of mapped[t] that a text no copy was made of, or one
            \*   that fills its last page, accounts for

mapVars == <<mapped, kept>>
buildVars == <<vars, build, mapVars>>

-----------------------------------------------------------------------------
(* open is tried once.                                                     *)
MapOpenFails(t) ==
  /\ at[t] = "open"
  /\ "open" \in Faults \/ (call[t].op = "get" /\ dir[call[t].key] = NoInode)
  /\ Goto(t, "leave")
  /\ UNCHANGED <<interface, files, mutex, file, i, len, value, began, clean, quiet, mapVars>>

MapOpenToRead(t) ==
  /\ at[t] = "open" /\ call[t].op = "get"
  /\ dir[call[t].key] # NoInode
  /\ Opened(t, dir[call[t].key])
  /\ Goto(t, "lock")
  /\ UNCHANGED <<interface, files, mutex, i, len, value, began, clean, quiet, mapVars>>

(* O_CREAT without O_TRUNC: a new file is empty until its maker has the    *)
(* lock, an old one stays as it is.                                        *)
MapOpenToWrite(t) ==
  LET k == call[t].key
  IN /\ at[t] = "open" /\ call[t].op = "set"
     /\ \/ /\ dir[k] # NoInode
           /\ Opened(t, dir[k])
           /\ UNCHANGED <<dir, text, mtime, clean>>
        \/ /\ dir[k] = NoInode
           /\ \E f \in Unused :
                /\ dir' = [dir EXCEPT ![k] = f]
                /\ text' = [text EXCEPT ![f] = <<>>]
                /\ mtime' = [mtime EXCEPT ![f] = now]
                /\ clean' = clean \ {f}
                /\ Opened(t, f)
     /\ Goto(t, "lock")
     /\ UNCHANGED <<interface, locks, now, mutex, i, len, value, began, quiet, mapVars>>

(* A mapping keeps the open file, and its lock, after close.               *)
Unmapped(t) == \A u \in Thread : file[t] \notin mapped[u]

Undisturbed(t) == IF Mode(t) = "shared" /\ file[t] \in clean THEN quiet \cup {t} ELSE quiet

MapNoFlock(t) ==                                               \* a mutant
  /\ at[t] = "lock"
  /\ Goto(t, IF call[t].op = "get" THEN "size" ELSE "write")
  /\ quiet' = Undisturbed(t)
  /\ UNCHANGED <<interface, files, mutex, file, i, len, value, began, clean, mapVars>>

MapFlock(t) ==
  /\ at[t] = "lock"
  /\ Compatible(t, file[t])
  /\ Mode(t) = "exclusive" => Unmapped(t)
  /\ locks' = [locks EXCEPT ![file[t]][t] = Mode(t)]
  /\ quiet' = Undisturbed(t)
  /\ Goto(t, IF call[t].op = "get" THEN "size" ELSE "write")
  /\ UNCHANGED <<interface, dir, text, mtime, now, mutex, file, i, len, value, began, clean, mapVars>>

(* flock or mmap fails, and the file is closed.                            *)
MapGiveUp(t) ==
  /\ \/ "lock" \in Faults /\ at[t] = "lock"
     \/ "map" \in Faults /\ (at[t] = "read" \/ (at[t] = "copy" /\ len[t] = 0))
  /\ Closed(t)
  /\ Goto(t, "leave")
  /\ UNCHANGED <<interface, dir, text, mtime, now, mutex, i, len, value, began, clean, quiet, mapVars>>
-----------------------------------------------------------------------------
(* get: the size was measured; the mapping is one character longer, and    *)
(* strdup reads it up to the first Nul.  There is none in a text that ends *)
(* with its page, unless it has a hole, and none in an empty one.          *)
FillsPage(f) == Len(text[f]) % PAGE = 0
NoEnd(f) == FillsPage(f) /\ Nul \notin Range(text[f])

(* The file is closed, but a mapping of it is left, and with it on some    *)
(* systems the lock.                                                       *)
MayRemain(t) ==
  \E m \in {mapped[t], mapped[t] \cup {file[t]}} :
    /\ mapped' = [mapped EXCEPT ![t] = m]
    /\ kept' = [kept EXCEPT ![t] = m]

MapReadMapped(t) ==                                            \* a mutant
  /\ at[t] = "read" /\ ~NoEnd(file[t])
  /\ value' = [value EXCEPT ![t] = AsString(text[file[t]])]
  /\ Closed(t)
  /\ Goto(t, "leave")
  /\ IF FillsPage(file[t]) THEN MayRemain(t)
     ELSE mapped' = [mapped EXCEPT ![t] = @ \cup {file[t]}] /\ UNCHANGED kept
  /\ UNCHANGED <<interface, dir, text, mtime, now, mutex, i, len, began, clean, quiet>>

(* munmap is given the size of the text, not that of the mapping: where    *)
(* the text fills its last page, one page more was mapped, and stays.      *)
MapRead(t) ==
  /\ at[t] = "read" /\ ~NoEnd(file[t])
  /\ value' = [value EXCEPT ![t] = AsString(text[file[t]])]
  /\ Closed(t)
  /\ Goto(t, "leave")
  /\ IF FillsPage(file[t]) THEN MayRemain(t) ELSE UNCHANGED mapVars
  /\ UNCHANGED <<interface, dir, text, mtime, now, mutex, i, len, began, clean, quiet>>

(* strdup finds no memory: the file is closed, its mapping stays.          *)
MapNoCopy(t) ==
  /\ "alloc" \in Faults
  /\ at[t] = "read" /\ ~NoEnd(file[t])
  /\ MayRemain(t)
  /\ Closed(t)
  /\ Goto(t, "leave")
  /\ UNCHANGED <<interface, dir, text, mtime, now, mutex, i, len, value, began, clean, quiet>>

(* set: with the lock the file gets the length of the value; what it held  *)
(* stays, and a hole reads as Nul.                                         *)
NotFitted(s, n) == [m \in 1 .. (IF Len(s) > n THEN Len(s) ELSE n) |->    \* a mutant
                      IF m <= Len(s) THEN s[m] ELSE Nul]
Fitted(s, n) == [m \in 1 .. n |-> IF m <= Len(s) THEN s[m] ELSE Nul]

MapTruncate(t) ==
  /\ at[t] = "write"
  /\ text' = [text EXCEPT ![file[t]] = Fitted(@, Len(call[t].val))]
  /\ mtime' = [mtime EXCEPT ![file[t]] = now]
  /\ clean' = clean \ {file[t]}
  /\ len' = [len EXCEPT ![t] = 0]
  /\ Goto(t, "copy")
  /\ UNCHANGED <<interface, dir, locks, now, mutex, file, i, value, began, quiet, mapVars>>

(* memcpy, a character at a time: a process may die anywhere in it.        *)
MapCopy(t) ==
  /\ at[t] = "copy" /\ len[t] < Len(call[t].val)
  /\ len' = [len EXCEPT ![t] = @ + 1]
  /\ text' = [text EXCEPT ![file[t]][len[t] + 1] = call[t].val[len[t] + 1]]
  /\ UNCHANGED <<interface, dir, mtime, locks, now, at, mutex, file, i, value, began, clean, quiet, mapVars>>

MapClose(t) ==
  /\ at[t] = "copy" /\ len[t] = Len(call[t].val)
  /\ clean' = clean \cup {file[t]}
  /\ Closed(t)
  /\ Goto(t, "leave")
  /\ UNCHANGED <<interface, dir, text, mtime, now, mutex, i, len, value, began, quiet, mapVars>>

(* The process dies: at any time, by SIGBUS where a text has no end, or    *)
(* where the hole it writes to finds no room on the disk.                  *)
MapCrash(t) ==
  /\ Killed(t)
  /\ mapped' = [mapped EXCEPT ![t] = {}]
  /\ kept' = [kept EXCEPT ![t] = {}]
  /\ UNCHANGED clean

-----------------------------------------------------------------------------
MapProvider(t) ==
  \/ MapOpenFails(t) \/ MapOpenToRead(t) \/ MapOpenToWrite(t) \/ MapFlock(t) \/ MapGiveUp(t)
  \/ MapRead(t) \/ MapNoCopy(t) \/ MapTruncate(t) \/ MapCopy(t) \/ MapClose(t) \/ MapCrash(t)
  \/ (Enter(t) \/ MkdirFails(t) \/ Measure(t) \/ Leave(t) \/ Client(t)) /\ UNCHANGED mapVars

BuildInit ==
  /\ Init
  /\ build \in {"stdio", "mmap"}
  /\ mapped = [t \in Thread |-> {}] /\ kept = mapped

BuildNext ==
  /\ UNCHANGED build
  /\ \/ build = "stdio" /\ Next /\ UNCHANGED mapVars
     \/ build = "mmap" /\ ((Tick /\ UNCHANGED mapVars) \/ \E t \in Thread : MapProvider(t))

BuildSpec == BuildInit /\ [][BuildNext]_buildVars
-----------------------------------------------------------------------------
BuildTypeOK ==
  /\ TypeOK
  /\ build \in {"stdio", "mmap"}
  /\ mapped \in [Thread -> SUBSET Inode] /\ kept \in [Thread -> SUBSET Inode]
  /\ build = "stdio" => \A t \in Thread : mapped[t] = {}

(* What a get hands out is whole and was set under its key.  With stdio:   *)
(* the first line of a value, if no writer disturbs the get between its    *)
(* fopen and its fgets (lines 127-169).  With a mapping: a value, if the   *)
(* get finds the file as a writer has left it, none having died over it,   *)
(* however many others wait for the file (lines 186-206, 263-283).         *)
WholeValue ==
  IF build = "stdio"
  THEN WholeAnswer
  ELSE \A t \in quiet : value[t] # NoValue =>
         \E e \in offered : e[1] = call[t].key /\ value[t] = AsString(e[2])

(* With stdio a get reads only a file that had not expired when the get    *)
(* was called (line 142); with a mapping nothing looks at the age.         *)
NeverStaleLine == build = "stdio" => NeverStale

(* A process outside get and set has no file open and none locked, which-  *)
(* ever way the call ended; with a mapping, none that keeps a lock either, *)
(* unless the copy could not be made (lines 198-203) or the text fills its *)
(* last page (line 205).                                                   *)
NothingLeftOpen ==
  \A t \in Thread : stage[t] # "busy" =>
    /\ file[t] = NoInode /\ \A f \in Inode : locks[f][t] = "none"
    /\ mapped[t] \subseteq kept[t]
=============================================================================
