-------------------------- MODULE FileCacheProofs --------------------------
(***************************************************************************)
(* Proofs about the file cache in both its builds (FileCacheMmap).         *)
(*                                                                         *)
(* What a get hands out depends on every process that has had the file     *)
(* open, so no property of the module is inductive.  FileInv adds what     *)
(* each place of a process says of its file and its locks, that a file     *)
(* belongs to one key as long as anybody can reach it, that no text has a  *)
(* character at a place where no value of the key has it, and how far the  *)
(* one writer of a clean file has come.                                    *)
(***************************************************************************)
EXTENDS FileCacheMmap, CacheInterfaceProofs, SequenceTheorems, WellFoundedInduction

-----------------------------------------------------------------------------
(* Texts.                                                                  *)

Char == (UNION {Range(v) : v \in Value}) \cup {Nul}

LEMMA MinInSet ==
  ASSUME NEW S, S \subseteq Nat, S # {}
  PROVE  Min(S) \in S /\ \A y \in S : Min(S) <= y
<1> DEFINE R == {p \in Nat \X Nat : p[1] < p[2]}
<1>1. IsWellFoundedOn(R, Nat)
  BY NatLessThanWellFounded DEF OpToRel
<1>2. \A x, y \in Nat : <<y, x>> \in R <=> y < x
  OBVIOUS
<1> HIDE DEF R
<1>3. PICK x \in S : \A y \in S : ~(<<y, x>> \in R)
  BY <1>1, WFMin
<1>4. ASSUME NEW y \in S
      PROVE  x <= y
  <2>1. x \in Nat /\ y \in Nat /\ ~(<<y, x>> \in R)
    BY <1>3
  <2> QED
    BY <1>2, <2>1
<1> QED
  BY <1>4, Zenon DEF Min

(* Where a character comes first in a text, 0 where it does not.           *)
First(s, c) ==
  LET I == {m \in 1 .. Len(s) : s[m] = c} IN IF I # {} THEN Min(I) ELSE 0

LEMMA FirstFacts ==
  ASSUME NEW C, NEW s \in Seq(C), NEW c
  PROVE  /\ First(s, c) \in 0 .. Len(s)
         /\ First(s, c) = 0 => \A m \in 1 .. Len(s) : s[m] # c
         /\ \A m \in 1 .. First(s, c) - 1 : s[m] # c
<1> DEFINE I == {m \in 1 .. Len(s) : s[m] = c}
           n == First(s, c)
<1>1. n = IF I # {} THEN Min(I) ELSE 0
  BY DEF First
<1>2. I \subseteq 1 .. Len(s) /\ \A m \in 1 .. Len(s) : m \in I <=> s[m] = c
  OBVIOUS
<1>3. Len(s) \in Nat /\ I \subseteq Nat
  BY <1>2
<1> HIDE DEF I, n
<1>4. I # {} => n \in I /\ \A y \in I : n <= y
  BY <1>1, <1>3, MinInSet
<1>5. /\ n \in 0 .. Len(s)
      /\ n = 0 => \A m \in 1 .. Len(s) : s[m] # c
      /\ \A m \in 1 .. n - 1 : s[m] # c
  <2>1. CASE I = {}
    BY <1>1, <1>2, <1>3, <2>1
  <2>2. CASE I # {}
    <3>1. n \in 1 .. Len(s)
      BY <1>2, <1>4, <2>2
    <3>2. ASSUME NEW m \in 1 .. n - 1
          PROVE  s[m] # c
      <4>1. m \in 1 .. Len(s) /\ m < n
        BY <1>3, <3>1
      <4>2. m \notin I
        BY <1>4, <2>2, <3>1, <4>1
      <4> QED
        BY <1>2, <4>1, <4>2
    <3> QED
      BY <1>3, <3>1, <3>2
  <2> QED
    BY <2>1, <2>2
<1> QED
  BY <1>5 DEF n

LEMMA ReadingDefs ==
  ASSUME NEW s
  PROVE  /\ Line(s) = IF First(s, Newline) = 0 THEN s ELSE SubSeq(s, 1, First(s, Newline))
         /\ AsString(s) = IF First(s, Nul) = 0 THEN s ELSE SubSeq(s, 1, First(s, Nul) - 1)
BY DEF Line, AsString, SelectInSeq, First

(* r is a part of s from its beginning.                                    *)
Starts(r, s) == Len(r) <= Len(s) /\ \A m \in 1 .. Len(r) : r[m] = s[m]

LEMMA LineFacts ==
  ASSUME NEW C, NEW s \in Seq(C)
  PROVE  Line(s) \in Seq(C) /\ Starts(Line(s), s)
<1>1. PICK n \in 0 .. Len(s) : Line(s) = IF n = 0 THEN s ELSE SubSeq(s, 1, n)
  BY ReadingDefs, FirstFacts
<1> QED
  BY <1>1 DEF Starts

LEMMA StringFacts ==
  ASSUME NEW C, NEW s \in Seq(C)
  PROVE  /\ AsString(s) \in Seq(C) /\ Starts(AsString(s), s)
         /\ \A m \in 1 .. Len(AsString(s)) : AsString(s)[m] # Nul
<1>1. PICK n \in 0 .. Len(s) :
        /\ AsString(s) = IF n = 0 THEN s ELSE SubSeq(s, 1, n - 1)
        /\ n = 0 => \A m \in 1 .. Len(s) : s[m] # Nul
        /\ \A m \in 1 .. n - 1 : s[m] # Nul
  BY ReadingDefs, FirstFacts
<1>2. CASE n = 0
  BY <1>1, <1>2 DEF Starts
<1>3. CASE n # 0
  <2>1. Len(s) \in Nat /\ n - 1 \in 0 .. Len(s)
    BY <1>3
  <2>2. AsString(s) \in Seq(C) /\ Len(AsString(s)) = n - 1
    BY <1>1, <1>3, <2>1
  <2>3. \A m \in 1 .. n - 1 : AsString(s)[m] = s[m]
    BY <1>1, <1>3, <2>1
  <2> QED
    BY <1>1, <2>1, <2>2, <2>3 DEF Starts
<1> QED
  BY <1>2, <1>3

(* What fwrite hands to the system and what it keeps back.                 *)
LEMMA SplitFacts ==
  ASSUME NEW C, NEW v \in Seq(C)
  PROVE  LET d == Len(Direct(v))
         IN /\ d \in 0 .. Len(v)
            /\ Direct(v) \in Seq(C) /\ \A m \in 1 .. d : Direct(v)[m] = v[m]
            /\ Rest(v) \in Seq(C) /\ Len(Rest(v)) = Len(v) - d
            /\ \A m \in 1 .. Len(v) - d : Rest(v)[m] = v[d + m]
<1> DEFINE q == Len(v) \div BUFSIZE
           d == q * BUFSIZE
<1>1. Len(v) \in Nat /\ BUFSIZE \in Nat \ {0}
  BY FileAssumption
<1>2. q \in Nat /\ d \in 0 .. Len(v)
  BY <1>1
<1> HIDE DEF q, d
<1>3. Direct(v) = SubSeq(v, 1, d)
  BY DEF Direct, q, d
<1>4. Direct(v) \in Seq(C) /\ Len(Direct(v)) = d /\ \A m \in 1 .. d : Direct(v)[m] = v[m]
  BY <1>1, <1>2, <1>3
<1>5. Rest(v) = SubSeq(v, d + 1, Len(v))
  BY <1>4 DEF Rest
<1>6. /\ Rest(v) \in Seq(C) /\ Len(Rest(v)) = Len(v) - d
      /\ \A m \in 1 .. Len(v) - d : Rest(v)[m] = v[d + m]
  BY <1>1, <1>2, <1>5
<1> QED
  BY <1>2, <1>4, <1>6

(* A write is a text again: what was written, what was there, and holes.   *)
LEMMA OverlayFacts ==
  ASSUME NEW C, Nul \in C, NEW s \in Seq(C), NEW old \in Seq(C), NEW off \in Nat
  PROVE  LET end == IF s = <<>> THEN 0 ELSE off + Len(s)
             new == Overlay(s, off, old)
         IN /\ new \in Seq(C)
            /\ Len(new) = IF Len(old) > end THEN Len(old) ELSE end
            /\ \A n \in 1 .. Len(new) :
                 new[n] = IF n > off /\ n <= end THEN s[n - off]
                          ELSE IF n <= Len(old) THEN old[n] ELSE Nul
<1> DEFINE end == IF s = <<>> THEN 0 ELSE off + Len(s)
           l == IF Len(old) > end THEN Len(old) ELSE end
           at_(n) == IF n > off /\ n <= end THEN s[n - off]
                     ELSE IF n <= Len(old) THEN old[n] ELSE Nul
<1>1. Len(s) \in Nat /\ Len(old) \in Nat /\ end \in Nat /\ l \in Nat
  OBVIOUS
<1>2. \A n \in 1 .. l : at_(n) \in C
  OBVIOUS
<1>3. Overlay(s, off, old) = [n \in 1 .. l |-> at_(n)]
  BY DEF Overlay
<1> HIDE DEF l, at_
<1>4. /\ Overlay(s, off, old) \in Seq(C) /\ Len(Overlay(s, off, old)) = l
      /\ \A n \in 1 .. l : Overlay(s, off, old)[n] = at_(n)
  BY <1>1, <1>2, <1>3
<1> QED
  BY <1>4 DEF l, at_

(* The two writes of set leave the whole value in an empty file.           *)
LEMMA WholeWrite ==
  ASSUME NEW C, Nul \in C, NEW v \in Seq(C)
  PROVE  /\ Overlay(Direct(v), 0, <<>>) = Direct(v)
         /\ Overlay(Rest(v), Len(Direct(v)), Direct(v)) = v
<1> DEFINE a == Direct(v)
           b == Rest(v)
           d == Len(a)
<1>1. /\ d \in 0 .. Len(v) /\ Len(v) \in Nat
      /\ a \in Seq(C) /\ \A m \in 1 .. d : a[m] = v[m]
      /\ b \in Seq(C) /\ Len(b) = Len(v) - d
      /\ \A m \in 1 .. Len(v) - d : b[m] = v[d + m]
  BY SplitFacts
<1> HIDE DEF a, b
<1>2. Overlay(a, 0, <<>>) = a
  <2>1. Overlay(a, 0, <<>>) = [n \in 1 .. d |-> a[n]]
    <3>1. /\ Len(<<>>) = 0
          /\ a = <<>> <=> d = 0
          /\ d \in Nat
      BY <1>1
    <3>2. \A n \in 1 .. d : n > 0 /\ n <= d /\ n - 0 = n /\ a # <<>>
      BY <3>1
    <3>3. (IF a = <<>> THEN 0 ELSE 0 + Len(a)) = d
      BY <3>1
    <3> QED
      BY <3>1, <3>2, <3>3, Z3 DEF Overlay
  <2> QED
    BY <1>1, <2>1
<1>3. Overlay(b, d, a) = v
  <2>1. (b = <<>>) <=> (d = Len(v))
    BY <1>1
  <2>2. /\ Overlay(b, d, a) \in Seq(C) /\ Len(Overlay(b, d, a)) = Len(v)
        /\ \A n \in 1 .. Len(v) : Overlay(b, d, a)[n] = IF n > d THEN b[n - d] ELSE a[n]
    BY <1>1, <2>1, OverlayFacts
  <2>3. \A n \in 1 .. Len(v) : Overlay(b, d, a)[n] = v[n]
    BY <1>1, <2>2
  <2> QED
    BY <2>2, <2>3
<1> QED
  BY <1>2, <1>3 DEF a, b

-----------------------------------------------------------------------------
(* The invariant that holds every property of the file cache together.     *)

HasFile == {"stat", "lock", "size", "read", "write", "flush", "copy"}
HasLock == {"size", "read", "write", "copy"}

(* The types.  What a get hands out need not be a value: it is a text.     *)
FileTypeOK ==
  /\ BuildTypeOK
  /\ stage \in [Thread -> {"idle", "busy", "done"}]
  /\ call \in [Thread -> Calls \cup {NoCall}]
  /\ missed \in [Thread -> Key \cup {NoKey}]
  /\ offered \in SUBSET (Key \X Value)
  /\ text \in [Inode -> Seq(Char)]
  /\ len \in [Thread -> Nat]
  /\ value \in [Thread -> Seq(Char) \cup {NoValue, Garbage}]

(* What the place a process is at says of its call, its file and its answer. *)
AtPlace(t) ==
  /\ stage[t] # "idle" => call[t] \in Calls
  /\ at[t] # "out" => stage[t] = "busy"
  /\ stage[t] = "busy" /\ call[t].op = "set" => <<call[t].key, call[t].val>> \in offered
  /\ at[t] \in HasFile <=> file[t] # NoInode
  /\ at[t] = "open" => i[t] < ATTEMPTS
  /\ at[t] \in {"stat", "size", "read", "expired", "unlink"} => call[t].op = "get"
  /\ at[t] \in {"write", "flush", "copy"} => call[t].op = "set"
  /\ at[t] \in {"stat", "expired", "unlink", "flush"} => build = "stdio"
  /\ at[t] = "copy" => build = "mmap"
  /\ at[t] # "leave" => value[t] = NoValue
Places == \A t \in Thread : AtPlace(t)

(* The steps of the two builds, and those they share.                      *)
BothSteps(t) == Client(t) \/ Enter(t) \/ MkdirFails(t) \/ Measure(t) \/ Leave(t)
StdioSteps(t) ==
  \/ OpenFails(t) \/ GiveUp(t) \/ Flock(t) \/ OpenToRead(t) \/ FindExpired(t) \/ FindFresh(t)
  \/ Read(t) \/ Unlink(t) \/ OpenToWrite(t) \/ Write(t) \/ Flush(t) \/ DiskFull(t) \/ Crash(t)
MapSteps(t) ==
  \/ MapOpenFails(t) \/ MapOpenToRead(t) \/ MapOpenToWrite(t) \/ MapFlock(t) \/ MapGiveUp(t)
  \/ MapRead(t) \/ MapNoCopy(t) \/ MapTruncate(t) \/ MapCopy(t) \/ MapClose(t) \/ MapCrash(t)
ProcessStep(t) ==
  /\ build' = build
  /\ \/ UNCHANGED mapVars /\ BothSteps(t)
     \/ build = "stdio" /\ UNCHANGED mapVars /\ StdioSteps(t)
     \/ build = "mmap" /\ MapSteps(t)

LEMMA StepCases ==
  ASSUME [BuildNext]_buildVars
  PROVE  \/ UNCHANGED buildVars
         \/ build' = build /\ UNCHANGED mapVars /\ Tick
         \/ \E t \in Thread : ProcessStep(t)
BY DEF BuildNext, Next, Provider, MapProvider, mapVars, ProcessStep, BothSteps, StdioSteps,
   MapSteps

-----------------------------------------------------------------------------
(* Types and places.                                                       *)

LEMMA ValueIsText == Value \subseteq Seq(Char)
<1>1. ASSUME NEW v \in Value
      PROVE  v \in Seq(Char)
  <2>1. v \in Seq(Range(v)) /\ Range(v) \subseteq Char
    BY FileAssumption DEF Char
  <2> QED
    BY <2>1
<1> QED
  BY <1>1

(* What a process inside get or set has in its hands.                      *)
InCall(t) ==
  /\ call[t] \in Calls /\ call[t].op \in {"get", "set"} /\ call[t].key \in Key
  /\ call[t].op = "set" => call[t].val \in Value /\ call[t].val \in Seq(Char)
  /\ at[t] \in HasFile => file[t] \in Inode

LEMMA CallInHand ==
  ASSUME FileTypeOK, Places, NEW t \in Thread, stage[t] # "idle"
  PROVE  InCall(t)
<1>1. AtPlace(t) /\ file[t] \in Inode \cup {NoInode}
  BY DEF Places, FileTypeOK, BuildTypeOK, TypeOK
<1>2. call[t] \in Calls
  BY <1>1 DEF AtPlace
<1>3. at[t] \in HasFile => file[t] \in Inode
  BY <1>1 DEF AtPlace
<1>4. call[t].op \in {"get", "set"} /\ call[t].key \in Key /\ (call[t].op = "set" => call[t].val \in Value)
  BY <1>2, CallFacts
<1>5. call[t].op = "set" => call[t].val \in Seq(Char)
  BY <1>4, ValueIsText
<1> QED
  BY <1>2, <1>3, <1>4, <1>5 DEF InCall

LEMMA GetsText ==
  ASSUME NEW s \in Seq(Char), NEW max \in Nat
  PROVE  Gets(s, max) \in Seq(Char) \cup {NoValue, Garbage}
<1>1. AtMost(s, max) \in Seq(Char)
  BY DEF AtMost
<1>2. AsString(Line(AtMost(s, max))) \in Seq(Char)
  BY <1>1, LineFacts, StringFacts
<1> QED
  BY <1>2 DEF Gets

LEMMA WrittenText ==
  ASSUME NEW old \in Seq(Char), NEW v \in Seq(Char)
  PROVE  /\ Overlay(Direct(v), 0, old) \in Seq(Char)
         /\ Overlay(Rest(v), Len(Direct(v)), old) \in Seq(Char)
         /\ Fitted(old, Len(v)) \in Seq(Char)
<1>1. /\ Direct(v) \in Seq(Char) /\ Rest(v) \in Seq(Char) /\ Len(Direct(v)) \in Nat
      /\ Len(v) \in Nat /\ Nul \in Char
  BY SplitFacts DEF Char
<1>2. Fitted(old, Len(v)) \in Seq(Char)
  BY <1>1 DEF Fitted
<1> QED
  BY <1>1, <1>2, OverlayFacts

(* A part of v that is written where it stands in v: what fwrite or fclose *)
(* writes, or as much of it as a full disk takes.                          *)
PartOf(s, off, v) ==
  /\ s \in Seq(Char) /\ off \in Nat /\ off + Len(s) <= Len(v)
  /\ \A m \in 1 .. Len(s) : s[m] = v[off + m]

LEMMA PartFacts ==
  ASSUME NEW v \in Seq(Char)
  PROVE  /\ PartOf(Direct(v), 0, v) /\ PartOf(Rest(v), Len(Direct(v)), v)
         /\ \A s, off : PartOf(s, off, v) =>
              \A n \in 0 .. Len(s) - 1 : PartOf(SubSeq(s, 1, n), off, v)
<1>1. LET d == Len(Direct(v))
      IN /\ d \in 0 .. Len(v)
         /\ Direct(v) \in Seq(Char) /\ \A m \in 1 .. d : Direct(v)[m] = v[m]
         /\ Rest(v) \in Seq(Char) /\ Len(Rest(v)) = Len(v) - d
         /\ \A m \in 1 .. Len(v) - d : Rest(v)[m] = v[d + m]
  BY SplitFacts
<1>2. PartOf(Direct(v), 0, v) /\ PartOf(Rest(v), Len(Direct(v)), v)
  BY <1>1 DEF PartOf
<1>3. ASSUME NEW s, NEW off, PartOf(s, off, v), NEW n \in 0 .. Len(s) - 1
      PROVE  PartOf(SubSeq(s, 1, n), off, v)
  <2>1. s \in Seq(Char) /\ off \in Nat /\ Len(v) \in Nat
    BY <1>3 DEF PartOf
  <2>2. /\ SubSeq(s, 1, n) \in Seq(Char) /\ Len(SubSeq(s, 1, n)) = n
        /\ \A m \in 1 .. n : SubSeq(s, 1, n)[m] = s[m]
    BY <1>3, <2>1
  <2> QED
    BY <1>3, <2>1, <2>2 DEF PartOf
<1> QED
  BY <1>2, <1>3

(* What a full disk leaves of a write.                                     *)
LEMMA ShortWrite ==
  ASSUME NEW t, call[t].val \in Seq(Char), DiskFull(t)
  PROVE  \E s, off, x :
           /\ PartOf(s, off, call[t].val) /\ x \in {mtime[file[t]], now}
           /\ text' = [text EXCEPT ![file[t]] = Overlay(s, off, text[file[t]])]
           /\ mtime' = [mtime EXCEPT ![file[t]] = x]
<1>1. PICK s, off : PartOf(s, off, call[t].val) /\ Shortened(t, off, s)
  BY PartFacts DEF DiskFull
<1>2. PICK n \in 0 .. Len(s) - 1 : Written(t, off, SubSeq(s, 1, n))
  BY <1>1 DEF Shortened
<1>3. PartOf(SubSeq(s, 1, n), off, call[t].val)
  BY <1>1, <1>2, PartFacts
<1> QED
  BY <1>2, <1>3, Zenon DEF Written

(* Every step keeps the types.                                             *)
LEMMA FileTypeStepByProcess ==
  ASSUME FileTypeOK, Places, NEW t \in Thread, ProcessStep(t)
  PROVE  FileTypeOK'
<1>0. AtPlace(t) /\ (at[t] # "out" => InCall(t)) /\ build' = build
  BY CallInHand DEF Places, AtPlace, ProcessStep
<1> USE DEF FileTypeOK, BuildTypeOK, TypeOK, Steps, Goto, Opened, Closed, files,
   interface, mapVars
<1>1. CASE UNCHANGED mapVars /\ Client(t)
  <2>1. ASSUME NEW c \in Calls, Invoke(t, c)
        PROVE  FileTypeOK'
    <3>1. offered' \in SUBSET (Key \X Value)
      BY <2>1, CallFacts DEF Invoke
    <3> QED
      BY <1>0, <1>1, <2>1, <3>1 DEF Client, Invoke
  <2>2. ASSUME Collect(t)
        PROVE  FileTypeOK'
    <3>1. Missed(call[t], ans[t]) \in Key \cup {NoKey}
      BY <1>0, <2>2, CallFacts DEF Collect, Missed, AtPlace
    <3> QED
      BY <1>0, <1>1, <2>2, <3>1 DEF Client, Collect
  <2> QED
    BY <1>1, <2>1, <2>2 DEF Client, ClientNext
<1>2. CASE UNCHANGED mapVars /\ Enter(t)
  BY <1>0, <1>2, FileAssumption, GetsText, WrittenText DEF Enter, Killed, Written,
     AfterAttempt, Mode, Writers, Unused, AtPlace, InCall, HasFile
<1>3. CASE UNCHANGED mapVars /\ MkdirFails(t)
  BY <1>0, <1>3, FileAssumption, GetsText, WrittenText DEF MkdirFails, Killed,
     Written, AfterAttempt, Mode, Writers, Unused, AtPlace, InCall, HasFile
<1>4. CASE UNCHANGED mapVars /\ Measure(t)
  BY <1>0, <1>4, FileAssumption, GetsText, WrittenText DEF Measure, Killed, Written,
     AfterAttempt, Mode, Writers, Unused, AtPlace, InCall, HasFile
<1>5. CASE UNCHANGED mapVars /\ Leave(t)
  <2>1. stage' \in [Thread -> {"idle", "busy", "done"}] /\ at' \in [Thread -> Steps]
    <3>1. CASE at[t] = "expired"
      BY <1>0, <1>5, <3>1 DEF Leave
    <3>2. CASE at[t] # "expired"
      BY <1>0, <1>5, <3>2 DEF Leave
    <3> QED
      BY <3>1, <3>2
  <2>2. mutex' \in [Thread -> {"free", "locked"}]
    <3>1. PICK o \in UnlockOutcome : mutex' = IF o = "released" THEN [mutex EXCEPT ![t] = "free"] ELSE mutex
      BY <1>5 DEF Leave
    <3> QED
      BY <3>1
  <2>3. /\ i' = [i EXCEPT ![t] = 0] /\ len' = [len EXCEPT ![t] = 0] /\ began' = [began EXCEPT ![t] = 0]
        /\ quiet' = quiet \ {t} /\ value' = [value EXCEPT ![t] = NoValue]
        /\ UNCHANGED <<call, missed, offered, files, file, clean>>
    BY <1>5 DEF Leave
  <2> QED
    BY <1>0, <1>5, <2>1, <2>2, <2>3, FileAssumption
<1>6. CASE build = "stdio" /\ UNCHANGED mapVars /\ OpenFails(t)
  <2>1. PICK p \in {"leave", "open"} : at' = [at EXCEPT ![t] = p]
    BY <1>6 DEF OpenFails, AfterAttempt
  <2>2. at' \in [Thread -> Steps]
    BY <2>1
  <2>3. i[t] + 1 \in 0 .. ATTEMPTS
    BY <1>0, <1>6, FileAssumption DEF OpenFails, AtPlace
  <2>4. i' \in [Thread -> 0 .. ATTEMPTS]
    BY <1>6, <2>3 DEF OpenFails
  <2> QED
    BY <1>0, <1>6, <2>2, <2>4 DEF OpenFails
<1>7. CASE build = "stdio" /\ UNCHANGED mapVars /\ GiveUp(t)
  BY <1>0, <1>7, FileAssumption, GetsText, WrittenText DEF GiveUp, Killed, Written,
     AfterAttempt, Mode, Writers, Unused, AtPlace, InCall, HasFile
<1>8. CASE build = "stdio" /\ UNCHANGED mapVars /\ Flock(t)
  BY <1>0, <1>8, FileAssumption, GetsText, WrittenText DEF Flock, Killed, Written,
     AfterAttempt, Mode, Writers, Unused, AtPlace, InCall, HasFile
<1>9. CASE build = "stdio" /\ UNCHANGED mapVars /\ OpenToRead(t)
  BY <1>0, <1>9, FileAssumption, GetsText, WrittenText DEF OpenToRead, Killed,
     Written, AfterAttempt, Mode, Writers, Unused, AtPlace, InCall, HasFile
<1>10. CASE build = "stdio" /\ UNCHANGED mapVars /\ FindExpired(t)
  BY <1>0, <1>10, FileAssumption, GetsText, WrittenText DEF FindExpired, Killed,
     Written, AfterAttempt, Mode, Writers, Unused, AtPlace, InCall, HasFile
<1>11. CASE build = "stdio" /\ UNCHANGED mapVars /\ FindFresh(t)
  BY <1>0, <1>11, FileAssumption, GetsText, WrittenText DEF FindFresh, Killed,
     Written, AfterAttempt, Mode, Writers, Unused, AtPlace, InCall, HasFile
<1>12. CASE build = "stdio" /\ UNCHANGED mapVars /\ Read(t)
  BY <1>0, <1>12, FileAssumption, GetsText, WrittenText DEF Read, Killed, Written,
     AfterAttempt, Mode, Writers, Unused, AtPlace, InCall, HasFile
<1>13. CASE build = "stdio" /\ UNCHANGED mapVars /\ Unlink(t)
  BY <1>0, <1>13, FileAssumption, GetsText, WrittenText DEF Unlink, Killed, Written,
     AfterAttempt, Mode, Writers, Unused, AtPlace, InCall, HasFile
<1>14. CASE build = "stdio" /\ UNCHANGED mapVars /\ OpenToWrite(t)
  <2>1. call[t].key \in Key /\ dir[call[t].key] \in Inode \cup {NoInode}
    BY <1>0, <1>14 DEF OpenToWrite, InCall
  <2>2. PICK f \in (IF dir[call[t].key] = NoInode THEN Unused ELSE {dir[call[t].key]}) :
          /\ dir' = [dir EXCEPT ![call[t].key] = f]
          /\ text' = [text EXCEPT ![f] = <<>>]
          /\ mtime' = [mtime EXCEPT ![f] = now]
          /\ file' = [file EXCEPT ![t] = f]
          /\ clean' = IF Writers(f) = {} THEN clean \cup {f} ELSE clean \ {f}
    BY <1>14 DEF OpenToWrite, Opened
  <2>3. f \in Inode
    BY <2>1, <2>2 DEF Unused
  <2>4. dir' \in [Key -> Inode \cup {NoInode}]
    BY <1>0, <2>2, <2>3
  <2>5. text' \in [Inode -> Seq(Char)]
    BY <1>0, <2>2, <2>3
  <2>6. mtime' \in [Inode -> 0 .. now]
    BY <1>0, <2>2, <2>3
  <2>7. file' \in [Thread -> Inode \cup {NoInode}]
    BY <1>0, <2>2, <2>3
  <2>8. clean' \subseteq Inode
    BY <1>0, <2>2, <2>3
  <2> QED
    BY <1>0, <1>14, <2>4, <2>5, <2>6, <2>7, <2>8 DEF OpenToWrite, AtPlace, InCall
<1>15. CASE build = "stdio" /\ UNCHANGED mapVars /\ Write(t)
  <2>1. text' \in [Inode -> Seq(Char)]
    BY <1>0, <1>15, WrittenText, SMTT(30) DEF Write, Written, AtPlace, InCall, HasFile
  <2>2. mtime' \in [Inode -> 0 .. now]
    BY <1>0, <1>15 DEF Write, Written, AtPlace, InCall, HasFile
  <2> QED
    BY <1>0, <1>15, <2>1, <2>2 DEF Write, AtPlace, InCall, HasFile
<1>16. CASE build = "stdio" /\ UNCHANGED mapVars /\ Flush(t)
  <2>1. text' \in [Inode -> Seq(Char)]
    BY <1>0, <1>16, WrittenText DEF Flush, Written, AtPlace, InCall, HasFile
  <2>2. mtime' \in [Inode -> 0 .. now]
    BY <1>0, <1>16 DEF Flush, Written, AtPlace, InCall, HasFile
  <2> QED
    BY <1>0, <1>16, <2>1, <2>2 DEF Flush, AtPlace, InCall, HasFile
<1>17. CASE build = "stdio" /\ UNCHANGED mapVars /\ DiskFull(t)
  <2>0. file[t] \in Inode /\ call[t].val \in Seq(Char) /\ Nul \in Char
    BY <1>0, <1>17 DEF DiskFull, AtPlace, InCall, HasFile, Char
  <2>1. PICK s, off, x :
           /\ PartOf(s, off, call[t].val) /\ x \in {mtime[file[t]], now}
           /\ text' = [text EXCEPT ![file[t]] = Overlay(s, off, text[file[t]])]
           /\ mtime' = [mtime EXCEPT ![file[t]] = x]
    BY <1>17, <2>0, ShortWrite
  <2>2. Overlay(s, off, text[file[t]]) \in Seq(Char)
    BY <2>0, <2>1, OverlayFacts DEF PartOf
  <2>3. text' \in [Inode -> Seq(Char)] /\ mtime' \in [Inode -> 0 .. now]
    BY <2>0, <2>1, <2>2
  <2> QED
    BY <1>0, <1>17, <2>3 DEF DiskFull, AtPlace, InCall, HasFile
<1>18. CASE build = "stdio" /\ UNCHANGED mapVars /\ Crash(t)
  BY <1>0, <1>18, FileAssumption, GetsText, WrittenText DEF Crash, Killed, Written,
     AfterAttempt, Mode, Writers, Unused, AtPlace, InCall, HasFile
<1>19. CASE build = "mmap" /\ MapOpenFails(t)
  BY <1>0, <1>19, FileAssumption, WrittenText, StringFacts DEF MapOpenFails, Killed,
     Written, AfterAttempt, Mode, Writers, Unused, AtPlace, InCall, HasFile, Undisturbed
<1>20. CASE build = "mmap" /\ MapOpenToRead(t)
  BY <1>0, <1>20, FileAssumption, WrittenText, StringFacts DEF MapOpenToRead, Killed,
     Written, AfterAttempt, Mode, Writers, Unused, AtPlace, InCall, HasFile, Undisturbed
<1>21. CASE build = "mmap" /\ MapOpenToWrite(t)
  <2>1. CASE dir[call[t].key] # NoInode /\ Opened(t, dir[call[t].key]) /\ UNCHANGED <<dir, text, mtime, clean>>
    BY <1>0, <1>21, <2>1 DEF MapOpenToWrite, AtPlace, InCall
  <2>2. ASSUME NEW f \in Unused,
               /\ dir' = [dir EXCEPT ![call[t].key] = f]
               /\ text' = [text EXCEPT ![f] = <<>>]
               /\ mtime' = [mtime EXCEPT ![f] = now]
               /\ clean' = clean \ {f}
               /\ Opened(t, f)
        PROVE  FileTypeOK'
    <3>1. f \in Inode /\ call[t].key \in Key
      BY <1>0, <1>21 DEF Unused, MapOpenToWrite, InCall
    <3>2. /\ dir' \in [Key -> Inode \cup {NoInode}] /\ mtime' \in [Inode -> 0 .. now]
          /\ text' \in [Inode -> Seq(Char)] /\ file' \in [Thread -> Inode \cup {NoInode}]
          /\ clean' \subseteq Inode
      BY <2>2, <3>1
    <3> QED
      BY <1>0, <1>21, <3>2 DEF MapOpenToWrite
  <2> QED
    BY <1>21, <2>1, <2>2 DEF MapOpenToWrite
<1>22. CASE build = "mmap" /\ MapFlock(t)
  BY <1>0, <1>22, FileAssumption, WrittenText, StringFacts DEF MapFlock, Killed,
     Written, AfterAttempt, Mode, Writers, Unused, AtPlace, InCall, HasFile, Undisturbed
<1>23. CASE build = "mmap" /\ MapGiveUp(t)
  BY <1>0, <1>23, FileAssumption, WrittenText, StringFacts DEF MapGiveUp, Killed,
     Written, AfterAttempt, Mode, Writers, Unused, AtPlace, InCall, HasFile, Undisturbed
<1>24. CASE build = "mmap" /\ MapRead(t)
  <2>1. file[t] \in Inode /\ mapped \in [Thread -> SUBSET Inode] /\ kept \in [Thread -> SUBSET Inode]
    BY <1>0, <1>24 DEF MapRead, AtPlace, InCall, HasFile
  <2>2. mapped' \in [Thread -> SUBSET Inode] /\ kept' \in [Thread -> SUBSET Inode]
    <3>1. CASE MayRemain(t)
      BY <2>1, <3>1 DEF MayRemain
    <3>2. CASE UNCHANGED mapVars
      BY <2>1, <3>2
    <3> QED
      BY <1>24, <3>1, <3>2 DEF MapRead
  <2> QED
    BY <1>0, <1>24, <2>1, <2>2, StringFacts DEF MapRead
<1>25. CASE build = "mmap" /\ MapNoCopy(t)
  <2>1. mapped' \in [Thread -> SUBSET Inode] /\ kept' \in [Thread -> SUBSET Inode]
    BY <1>0, <1>25 DEF MapNoCopy, MayRemain, AtPlace, InCall, HasFile
  <2> QED
    BY <1>0, <1>25, <2>1 DEF MapNoCopy, AtPlace
<1>26. CASE build = "mmap" /\ MapTruncate(t)
  <2>1. text' \in [Inode -> Seq(Char)]
    BY <1>0, <1>26, WrittenText DEF MapTruncate, AtPlace, InCall, HasFile
  <2> QED
    BY <1>0, <1>26, <2>1 DEF MapTruncate, AtPlace, InCall, HasFile
<1>27. CASE build = "mmap" /\ MapCopy(t)
  <2>1. text' \in [Inode -> Seq(Char)]
    <3> DEFINE old == text[file[t]]
               n == len[t] + 1
               c == call[t].val[n]
    <3>1. /\ file[t] \in Inode /\ old \in Seq(Char) /\ n \in Nat /\ c \in Char
          /\ text' = [text EXCEPT ![file[t]] = [old EXCEPT ![n] = c]]
      BY <1>0, <1>27 DEF MapCopy, AtPlace, InCall, HasFile
    <3> HIDE DEF old, n, c, FileTypeOK
    <3>2. [old EXCEPT ![n] = c] \in Seq(Char)
      <4>1. CASE n \in 1 .. Len(old)
        BY <3>1, <4>1, ExceptSeq
      <4>2. CASE n \notin 1 .. Len(old)
        <5>1. [old EXCEPT ![n] = c] = old
          BY <3>1, <4>2
        <5> QED
          BY <3>1, <5>1
      <4> QED
        BY <4>1, <4>2
    <3> QED
      BY <3>1, <3>2 DEF FileTypeOK
  <2> QED
    BY <1>0, <1>27, <2>1 DEF MapCopy, AtPlace, InCall, HasFile
<1>28. CASE build = "mmap" /\ MapClose(t)
  BY <1>0, <1>28, FileAssumption, WrittenText, StringFacts DEF MapClose, Killed,
     Written, AfterAttempt, Mode, Writers, Unused, AtPlace, InCall, HasFile, Undisturbed
<1>29. CASE build = "mmap" /\ MapCrash(t)
  BY <1>0, <1>29, FileAssumption, WrittenText, StringFacts DEF MapCrash, Killed,
     Written, AfterAttempt, Mode, Writers, Unused, AtPlace, InCall, HasFile, Undisturbed
<1> QED
  BY <1>1, <1>2, <1>3, <1>4, <1>5, <1>6, <1>7, <1>8, <1>9, <1>10, <1>11,
     <1>12, <1>13, <1>14, <1>15, <1>16, <1>17, <1>18, <1>19, <1>20, <1>21,
     <1>22, <1>23, <1>24, <1>25, <1>26, <1>27, <1>28, <1>29
     DEF ProcessStep, BothSteps, StdioSteps, MapSteps

LEMMA FileTypeStep ==
  ASSUME FileTypeOK, Places, [BuildNext]_buildVars
  PROVE  FileTypeOK'
<1>1. CASE UNCHANGED buildVars
  BY <1>1 DEF buildVars, mapVars, vars, files, interface, FileTypeOK, BuildTypeOK, TypeOK
<1>2. CASE build' = build /\ UNCHANGED mapVars /\ Tick
  BY <1>2, FileAssumption DEF Tick, interface, mapVars, FileTypeOK, BuildTypeOK, TypeOK
<1> QED
  BY <1>1, <1>2, FileTypeStepByProcess, StepCases

(* Every step leaves each process at a place that fits it.                 *)
LEMMA PlaceStepByProcess ==
  ASSUME FileTypeOK, Places, NEW t \in Thread, ProcessStep(t)
  PROVE  Places'
<1>0. AtPlace(t) /\ (at[t] # "out" => InCall(t)) /\ build' = build
  BY CallInHand DEF Places, AtPlace, ProcessStep
<1>99. /\ stage = [u \in Thread |-> stage[u]] /\ call = [u \in Thread |-> call[u]]
       /\ at = [u \in Thread |-> at[u]] /\ file = [u \in Thread |-> file[u]]
       /\ i = [u \in Thread |-> i[u]] /\ value = [u \in Thread |-> value[u]]
       /\ \A u \in Thread : i[u] \in Nat
       /\ dir \in [Key -> Inode \cup {NoInode}]
  BY FileAssumption DEF FileTypeOK, BuildTypeOK, TypeOK
<1> USE DEF Goto, Opened, Closed, files, interface, mapVars
<1>1. CASE UNCHANGED mapVars /\ Client(t)
  <2>1. ASSUME NEW c \in Calls, Invoke(t, c)
        PROVE  Places'
    BY <1>0, <1>1, <1>99, <2>1 DEF Client, Invoke, Places, AtPlace, HasFile
  <2>2. ASSUME Collect(t)
        PROVE  Places'
    BY <1>0, <1>1, <1>99, <2>2 DEF Client, Collect, Places, AtPlace, HasFile
  <2> QED
    BY <1>1, <2>1, <2>2 DEF Client, ClientNext
<1>2. CASE UNCHANGED mapVars /\ Enter(t)
  BY <1>0, <1>2, <1>99, FileAssumption DEF Enter, Places, Killed, AfterAttempt, Mode,
     AtPlace, InCall, HasFile
<1>3. CASE UNCHANGED mapVars /\ MkdirFails(t)
  BY <1>0, <1>3, <1>99, FileAssumption DEF MkdirFails, Places, Killed, AfterAttempt,
     Mode, AtPlace, InCall, HasFile
<1>4. CASE UNCHANGED mapVars /\ Measure(t)
  BY <1>0, <1>4, <1>99, FileAssumption DEF Measure, Places, Killed, AfterAttempt,
     Mode, AtPlace, InCall, HasFile
<1>5. CASE UNCHANGED mapVars /\ Leave(t)
  BY <1>0, <1>5, <1>99, FileAssumption DEF Leave, Places, Killed, AfterAttempt, Mode,
     AtPlace, InCall, HasFile
<1>6. CASE build = "stdio" /\ UNCHANGED mapVars /\ OpenFails(t)
  BY <1>0, <1>6, <1>99, FileAssumption DEF OpenFails, Places, Killed, AfterAttempt,
     Mode, AtPlace, InCall, HasFile
<1>7. CASE build = "stdio" /\ UNCHANGED mapVars /\ GiveUp(t)
  BY <1>0, <1>7, <1>99, FileAssumption DEF GiveUp, Places, Killed, AfterAttempt, Mode,
     AtPlace, InCall, HasFile
<1>8. CASE build = "stdio" /\ UNCHANGED mapVars /\ Flock(t)
  BY <1>0, <1>8, <1>99, FileAssumption DEF Flock, Places, Killed, AfterAttempt, Mode,
     AtPlace, InCall, HasFile
<1>9. CASE build = "stdio" /\ UNCHANGED mapVars /\ OpenToRead(t)
  BY <1>0, <1>9, <1>99, FileAssumption DEF OpenToRead, Places, Killed, AfterAttempt,
     Mode, AtPlace, InCall, HasFile
<1>10. CASE build = "stdio" /\ UNCHANGED mapVars /\ FindExpired(t)
  BY <1>0, <1>10, <1>99, FileAssumption DEF FindExpired, Places, Killed, AfterAttempt,
     Mode, AtPlace, InCall, HasFile
<1>11. CASE build = "stdio" /\ UNCHANGED mapVars /\ FindFresh(t)
  BY <1>0, <1>11, <1>99, FileAssumption DEF FindFresh, Places, Killed, AfterAttempt,
     Mode, AtPlace, InCall, HasFile
<1>12. CASE build = "stdio" /\ UNCHANGED mapVars /\ Read(t)
  BY <1>0, <1>12, <1>99, FileAssumption DEF Read, Places, Killed, AfterAttempt, Mode,
     AtPlace, InCall, HasFile
<1>13. CASE build = "stdio" /\ UNCHANGED mapVars /\ Unlink(t)
  BY <1>0, <1>13, <1>99, FileAssumption DEF Unlink, Places, Killed, AfterAttempt,
     Mode, AtPlace, InCall, HasFile
<1>14. CASE build = "stdio" /\ UNCHANGED mapVars /\ OpenToWrite(t)
  BY <1>0, <1>14, <1>99, FileAssumption DEF OpenToWrite, Places, Killed, AfterAttempt,
     Mode, AtPlace, InCall, HasFile, Unused
<1>15. CASE build = "stdio" /\ UNCHANGED mapVars /\ Write(t)
  BY <1>0, <1>15, <1>99, FileAssumption DEF Write, Places, Killed, AfterAttempt, Mode,
     AtPlace, InCall, HasFile
<1>16. CASE build = "stdio" /\ UNCHANGED mapVars /\ Flush(t)
  BY <1>0, <1>16, <1>99, FileAssumption DEF Flush, Places, Killed, AfterAttempt, Mode,
     AtPlace, InCall, HasFile
<1>17. CASE build = "stdio" /\ UNCHANGED mapVars /\ DiskFull(t)
  BY <1>0, <1>17, <1>99, FileAssumption DEF DiskFull, Places, Killed, AfterAttempt,
     Mode, AtPlace, InCall, HasFile
<1>18. CASE build = "stdio" /\ UNCHANGED mapVars /\ Crash(t)
  BY <1>0, <1>18, <1>99, FileAssumption DEF Crash, Places, Killed, AfterAttempt, Mode,
     AtPlace, InCall, HasFile
<1>19. CASE build = "mmap" /\ MapOpenFails(t)
  BY <1>0, <1>19, <1>99, FileAssumption DEF MapOpenFails, Places, Killed,
     AfterAttempt, Mode, AtPlace, InCall, HasFile
<1>20. CASE build = "mmap" /\ MapOpenToRead(t)
  BY <1>0, <1>20, <1>99, FileAssumption DEF MapOpenToRead, Places, Killed,
     AfterAttempt, Mode, AtPlace, InCall, HasFile
<1>21. CASE build = "mmap" /\ MapOpenToWrite(t)
  <2>1. PICK f \in Inode : Opened(t, f)
    BY <1>0, <1>21, <1>99 DEF MapOpenToWrite, Unused, InCall, AtPlace
  <2> QED
    BY <1>0, <1>21, <2>1, <1>99, FileAssumption DEF MapOpenToWrite, AtPlace, Places,
       HasFile
<1>22. CASE build = "mmap" /\ MapFlock(t)
  BY <1>0, <1>22, <1>99, FileAssumption DEF MapFlock, Places, Killed, AfterAttempt,
     Mode, AtPlace, InCall, HasFile
<1>23. CASE build = "mmap" /\ MapGiveUp(t)
  BY <1>0, <1>23, <1>99, FileAssumption DEF MapGiveUp, Places, Killed, AfterAttempt,
     Mode, AtPlace, InCall, HasFile
<1>24. CASE build = "mmap" /\ MapRead(t)
  BY <1>0, <1>24, <1>99, FileAssumption DEF MapRead, Places, Killed, AfterAttempt,
     Mode, AtPlace, InCall, HasFile
<1>25. CASE build = "mmap" /\ MapNoCopy(t)
  BY <1>0, <1>25, <1>99, FileAssumption DEF MapNoCopy, Places, Killed, AfterAttempt,
     Mode, AtPlace, InCall, HasFile
<1>26. CASE build = "mmap" /\ MapTruncate(t)
  BY <1>0, <1>26, <1>99, FileAssumption DEF MapTruncate, Places, Killed, AfterAttempt,
     Mode, AtPlace, InCall, HasFile
<1>27. CASE build = "mmap" /\ MapCopy(t)
  BY <1>0, <1>27, <1>99, FileAssumption DEF MapCopy, Places, Killed, AfterAttempt,
     Mode, AtPlace, InCall, HasFile
<1>28. CASE build = "mmap" /\ MapClose(t)
  BY <1>0, <1>28, <1>99, FileAssumption DEF MapClose, Places, Killed, AfterAttempt,
     Mode, AtPlace, InCall, HasFile
<1>29. CASE build = "mmap" /\ MapCrash(t)
  BY <1>0, <1>29, <1>99, FileAssumption DEF MapCrash, Places, Killed, AfterAttempt,
     Mode, AtPlace, InCall, HasFile
<1> QED
  BY <1>1, <1>2, <1>3, <1>4, <1>5, <1>6, <1>7, <1>8, <1>9, <1>10, <1>11,
     <1>12, <1>13, <1>14, <1>15, <1>16, <1>17, <1>18, <1>19, <1>20, <1>21,
     <1>22, <1>23, <1>24, <1>25, <1>26, <1>27, <1>28, <1>29
     DEF ProcessStep, BothSteps, StdioSteps, MapSteps

LEMMA PlaceStep ==
  ASSUME FileTypeOK, Places, [BuildNext]_buildVars
  PROVE  Places'
<1>1. CASE UNCHANGED buildVars
  BY <1>1 DEF buildVars, mapVars, vars, files, interface, Places, AtPlace
<1>2. CASE build' = build /\ UNCHANGED mapVars /\ Tick
  BY <1>2 DEF Tick, Places, AtPlace, interface
<1> QED
  BY <1>1, <1>2, PlaceStepByProcess, StepCases

-----------------------------------------------------------------------------
(* Locks: a process has one where its place says so, and two processes     *)
(* have a file locked only if both read it.                                *)
Locks ==
  \A f \in Inode, t \in Thread :
    locks[f][t] = IF at[t] \in HasLock /\ file[t] = f THEN Mode(t) ELSE "none"

Exclusive ==
  \A t, u \in Thread :
    t # u /\ at[t] \in HasLock /\ at[u] \in HasLock /\ file[t] = file[u] =>
      Mode(t) = "shared" /\ Mode(u) = "shared"

(* Every step gives, keeps and drops the locks its new place calls for.    *)
LEMMA LocksStepByProcess ==
  ASSUME FileTypeOK, Places, Locks, NEW t \in Thread, ProcessStep(t)
  PROVE  Locks'
<1>0. AtPlace(t) /\ (at[t] # "out" => InCall(t)) /\ build' = build
  BY CallInHand DEF Places, AtPlace, ProcessStep
<1>99. /\ stage = [u \in Thread |-> stage[u]] /\ call = [u \in Thread |-> call[u]]
       /\ at = [u \in Thread |-> at[u]] /\ file = [u \in Thread |-> file[u]]
       /\ locks = [f \in Inode |-> locks[f]]
       /\ \A f \in Inode : locks[f] = [u \in Thread |-> locks[f][u]]
       /\ dir \in [Key -> Inode \cup {NoInode}]
       /\ NoInode \notin Inode
  BY FileAssumption DEF FileTypeOK, BuildTypeOK, TypeOK
<1> USE DEF Goto, Opened, Closed, files, interface, mapVars
<1>1. CASE UNCHANGED mapVars /\ Client(t)
  <2>1. at[t] = "out" /\ at' = at /\ file' = file /\ locks' = locks /\ \A u \in Thread \ {t} : call'[u] = call[u]
    BY <1>0, <1>1, <1>99 DEF Client, ClientNext, Invoke, Collect, AtPlace
  <2> QED
    BY <1>0, <1>99, <2>1 DEF Locks, HasLock, Mode
<1>2. CASE UNCHANGED mapVars /\ Enter(t)
  BY <1>0, <1>2, <1>99 DEF Enter, Locks, HasLock, HasFile, Mode, AtPlace, InCall
<1>3. CASE UNCHANGED mapVars /\ MkdirFails(t)
  BY <1>0, <1>3, <1>99 DEF MkdirFails, Locks, HasLock, HasFile, Mode, AtPlace, InCall
<1>4. CASE UNCHANGED mapVars /\ Measure(t)
  BY <1>0, <1>4, <1>99 DEF Measure, Locks, HasLock, HasFile, Mode, AtPlace, InCall
<1>5. CASE UNCHANGED mapVars /\ Leave(t)
  <2>1. PICK p \in {"out", "unlink"} : at' = [at EXCEPT ![t] = p]
    BY <1>5 DEF Leave
  <2>2. at[t] \notin HasLock /\ UNCHANGED <<call, file, locks>>
    BY <1>5 DEF Leave, HasLock
  <2> QED
    BY <1>0, <1>99, <2>1, <2>2 DEF Locks, HasLock, Mode
<1>6. CASE build = "stdio" /\ UNCHANGED mapVars /\ OpenFails(t)
  <2>1. PICK p \in {"leave", "open"} : at' = [at EXCEPT ![t] = p]
    BY <1>6 DEF OpenFails, AfterAttempt
  <2>2. at[t] = "open" /\ UNCHANGED <<call, file, locks>>
    BY <1>6 DEF OpenFails
  <2> QED
    BY <1>0, <1>99, <2>1, <2>2 DEF Locks, HasLock, HasFile, Mode, AtPlace
<1>7. CASE build = "stdio" /\ UNCHANGED mapVars /\ GiveUp(t)
  BY <1>0, <1>7, <1>99 DEF GiveUp, Locks, HasLock, HasFile, Mode, AtPlace, InCall
<1>8. CASE build = "stdio" /\ UNCHANGED mapVars /\ Flock(t)
  BY <1>0, <1>8, <1>99 DEF Flock, Locks, HasLock, HasFile, Mode, AtPlace, InCall
<1>9. CASE build = "stdio" /\ UNCHANGED mapVars /\ OpenToRead(t)
  BY <1>0, <1>9, <1>99 DEF OpenToRead, Locks, HasLock, HasFile, Mode, AtPlace, InCall
<1>10. CASE build = "stdio" /\ UNCHANGED mapVars /\ FindExpired(t)
  BY <1>0, <1>10, <1>99 DEF FindExpired, Locks, HasLock, HasFile, Mode, AtPlace, InCall
<1>11. CASE build = "stdio" /\ UNCHANGED mapVars /\ FindFresh(t)
  BY <1>0, <1>11, <1>99 DEF FindFresh, Locks, HasLock, HasFile, Mode, AtPlace, InCall
<1>12. CASE build = "stdio" /\ UNCHANGED mapVars /\ Read(t)
  BY <1>0, <1>12, <1>99 DEF Read, Locks, HasLock, HasFile, Mode, AtPlace, InCall
<1>13. CASE build = "stdio" /\ UNCHANGED mapVars /\ Unlink(t)
  BY <1>0, <1>13, <1>99 DEF Unlink, Locks, HasLock, HasFile, Mode, AtPlace, InCall
<1>14. CASE build = "stdio" /\ UNCHANGED mapVars /\ OpenToWrite(t)
  BY <1>0, <1>14, <1>99 DEF OpenToWrite, Locks, HasLock, HasFile, Mode, AtPlace,
     InCall, Unused
<1>15. CASE build = "stdio" /\ UNCHANGED mapVars /\ Write(t)
  BY <1>0, <1>15, <1>99 DEF Write, Locks, HasLock, HasFile, Mode, AtPlace, InCall
<1>16. CASE build = "stdio" /\ UNCHANGED mapVars /\ Flush(t)
  BY <1>0, <1>16, <1>99 DEF Flush, Locks, HasLock, HasFile, Mode, AtPlace, InCall
<1>17. CASE build = "stdio" /\ UNCHANGED mapVars /\ DiskFull(t)
  BY <1>0, <1>17, <1>99 DEF DiskFull, Locks, HasLock, HasFile, Mode, AtPlace, InCall
<1>18. CASE build = "stdio" /\ UNCHANGED mapVars /\ Crash(t)
  BY <1>0, <1>18, <1>99 DEF Crash, Locks, HasLock, HasFile, Mode, AtPlace, InCall,
     Killed
<1>19. CASE build = "mmap" /\ MapOpenFails(t)
  BY <1>0, <1>19, <1>99 DEF MapOpenFails, Locks, HasLock, HasFile, Mode, AtPlace, InCall
<1>20. CASE build = "mmap" /\ MapOpenToRead(t)
  BY <1>0, <1>20, <1>99 DEF MapOpenToRead, Locks, HasLock, HasFile, Mode, AtPlace,
     InCall
<1>21. CASE build = "mmap" /\ MapOpenToWrite(t)
  <2>1. PICK f \in Inode \cup {NoInode} : Opened(t, f)
    BY <1>0, <1>21, <1>99 DEF MapOpenToWrite, Unused, InCall, AtPlace
  <2>2. at[t] = "open" /\ at' = [at EXCEPT ![t] = "lock"] /\ UNCHANGED <<call, locks>>
    BY <1>21 DEF MapOpenToWrite
  <2> QED
    BY <1>99, <2>1, <2>2 DEF Locks, HasLock, Mode
<1>22. CASE build = "mmap" /\ MapFlock(t)
  BY <1>0, <1>22, <1>99 DEF MapFlock, Locks, HasLock, HasFile, Mode, AtPlace, InCall
<1>23. CASE build = "mmap" /\ MapGiveUp(t)
  BY <1>0, <1>23, <1>99 DEF MapGiveUp, Locks, HasLock, HasFile, Mode, AtPlace, InCall
<1>24. CASE build = "mmap" /\ MapRead(t)
  BY <1>0, <1>24, <1>99 DEF MapRead, Locks, HasLock, HasFile, Mode, AtPlace, InCall
<1>25. CASE build = "mmap" /\ MapNoCopy(t)
  BY <1>0, <1>25, <1>99 DEF MapNoCopy, Locks, HasLock, HasFile, Mode, AtPlace, InCall
<1>26. CASE build = "mmap" /\ MapTruncate(t)
  BY <1>0, <1>26, <1>99 DEF MapTruncate, Locks, HasLock, HasFile, Mode, AtPlace, InCall
<1>27. CASE build = "mmap" /\ MapCopy(t)
  BY <1>0, <1>27, <1>99 DEF MapCopy, Locks, HasLock, HasFile, Mode, AtPlace, InCall
<1>28. CASE build = "mmap" /\ MapClose(t)
  BY <1>0, <1>28, <1>99 DEF MapClose, Locks, HasLock, HasFile, Mode, AtPlace, InCall
<1>29. CASE build = "mmap" /\ MapCrash(t)
  BY <1>0, <1>29, <1>99 DEF MapCrash, Locks, HasLock, HasFile, Mode, AtPlace, InCall,
     Killed
<1> QED
  BY <1>1, <1>2, <1>3, <1>4, <1>5, <1>6, <1>7, <1>8, <1>9, <1>10, <1>11,
     <1>12, <1>13, <1>14, <1>15, <1>16, <1>17, <1>18, <1>19, <1>20, <1>21,
     <1>22, <1>23, <1>24, <1>25, <1>26, <1>27, <1>28, <1>29
     DEF ProcessStep, BothSteps, StdioSteps, MapSteps

LEMMA LocksStep ==
  ASSUME FileTypeOK, Places, Locks, [BuildNext]_buildVars
  PROVE  Locks'
<1>1. CASE UNCHANGED buildVars
  BY <1>1 DEF buildVars, mapVars, vars, files, interface, Locks, Mode
<1>2. CASE build' = build /\ UNCHANGED mapVars /\ Tick
  BY <1>2 DEF Tick, interface, Locks, Mode
<1> QED
  BY <1>1, <1>2, LocksStepByProcess, StepCases

(* No step gives a lock another one excludes.                              *)
LEMMA ExclusiveStepByProcess ==
  ASSUME FileTypeOK, Places, Locks, Exclusive, NEW t \in Thread, ProcessStep(t)
  PROVE  Exclusive'
<1>0. AtPlace(t) /\ (at[t] # "out" => InCall(t)) /\ build' = build
  BY CallInHand DEF Places, AtPlace, ProcessStep
<1>99. /\ stage = [u \in Thread |-> stage[u]] /\ call = [u \in Thread |-> call[u]]
       /\ at = [u \in Thread |-> at[u]] /\ file = [u \in Thread |-> file[u]]
       /\ locks = [f \in Inode |-> locks[f]]
       /\ \A f \in Inode : locks[f] = [u \in Thread |-> locks[f][u]]
       /\ dir \in [Key -> Inode \cup {NoInode}]
       /\ NoInode \notin Inode
  BY FileAssumption DEF FileTypeOK, BuildTypeOK, TypeOK
<1> USE DEF Goto, Opened, Closed, files, interface, mapVars
<1>1. CASE UNCHANGED mapVars /\ Client(t)
  <2>1. at[t] = "out" /\ at' = at /\ file' = file /\ locks' = locks /\ \A u \in Thread \ {t} : call'[u] = call[u]
    BY <1>0, <1>1, <1>99 DEF Client, ClientNext, Invoke, Collect, AtPlace
  <2> QED
    BY <1>0, <1>99, <2>1 DEF Exclusive, HasLock, Mode
<1>2. CASE UNCHANGED mapVars /\ Enter(t)
  BY <1>0, <1>2, <1>99 DEF Enter, Exclusive, HasLock, HasFile, Mode, AtPlace, InCall
<1>3. CASE UNCHANGED mapVars /\ MkdirFails(t)
  BY <1>0, <1>3, <1>99 DEF MkdirFails, Exclusive, HasLock, HasFile, Mode, AtPlace,
     InCall
<1>4. CASE UNCHANGED mapVars /\ Measure(t)
  BY <1>0, <1>4, <1>99 DEF Measure, Exclusive, HasLock, HasFile, Mode, AtPlace, InCall
<1>5. CASE UNCHANGED mapVars /\ Leave(t)
  BY <1>0, <1>5, <1>99 DEF Leave, Exclusive, HasLock, HasFile, Mode, AtPlace, InCall
<1>6. CASE build = "stdio" /\ UNCHANGED mapVars /\ OpenFails(t)
  BY <1>0, <1>6, <1>99 DEF OpenFails, Exclusive, HasLock, HasFile, Mode, AtPlace,
     InCall, AfterAttempt
<1>7. CASE build = "stdio" /\ UNCHANGED mapVars /\ GiveUp(t)
  BY <1>0, <1>7, <1>99 DEF GiveUp, Exclusive, HasLock, HasFile, Mode, AtPlace, InCall
<1>8. CASE build = "stdio" /\ UNCHANGED mapVars /\ Flock(t)
  BY <1>0, <1>8, <1>99 DEF Flock, Exclusive, HasLock, HasFile, Mode, AtPlace, InCall,
     Compatible, Locks
<1>9. CASE build = "stdio" /\ UNCHANGED mapVars /\ OpenToRead(t)
  BY <1>0, <1>9, <1>99 DEF OpenToRead, Exclusive, HasLock, HasFile, Mode, AtPlace,
     InCall
<1>10. CASE build = "stdio" /\ UNCHANGED mapVars /\ FindExpired(t)
  BY <1>0, <1>10, <1>99 DEF FindExpired, Exclusive, HasLock, HasFile, Mode, AtPlace,
     InCall
<1>11. CASE build = "stdio" /\ UNCHANGED mapVars /\ FindFresh(t)
  BY <1>0, <1>11, <1>99 DEF FindFresh, Exclusive, HasLock, HasFile, Mode, AtPlace,
     InCall
<1>12. CASE build = "stdio" /\ UNCHANGED mapVars /\ Read(t)
  BY <1>0, <1>12, <1>99 DEF Read, Exclusive, HasLock, HasFile, Mode, AtPlace, InCall
<1>13. CASE build = "stdio" /\ UNCHANGED mapVars /\ Unlink(t)
  BY <1>0, <1>13, <1>99 DEF Unlink, Exclusive, HasLock, HasFile, Mode, AtPlace, InCall
<1>14. CASE build = "stdio" /\ UNCHANGED mapVars /\ OpenToWrite(t)
  BY <1>0, <1>14, <1>99 DEF OpenToWrite, Exclusive, HasLock, HasFile, Mode, AtPlace,
     InCall, Unused
<1>15. CASE build = "stdio" /\ UNCHANGED mapVars /\ Write(t)
  BY <1>0, <1>15, <1>99 DEF Write, Exclusive, HasLock, HasFile, Mode, AtPlace, InCall
<1>16. CASE build = "stdio" /\ UNCHANGED mapVars /\ Flush(t)
  BY <1>0, <1>16, <1>99 DEF Flush, Exclusive, HasLock, HasFile, Mode, AtPlace, InCall
<1>17. CASE build = "stdio" /\ UNCHANGED mapVars /\ DiskFull(t)
  BY <1>0, <1>17, <1>99 DEF DiskFull, Exclusive, HasLock, HasFile, Mode, AtPlace,
     InCall
<1>18. CASE build = "stdio" /\ UNCHANGED mapVars /\ Crash(t)
  BY <1>0, <1>18, <1>99 DEF Crash, Exclusive, HasLock, HasFile, Mode, AtPlace, InCall,
     Killed
<1>19. CASE build = "mmap" /\ MapOpenFails(t)
  BY <1>0, <1>19, <1>99 DEF MapOpenFails, Exclusive, HasLock, HasFile, Mode, AtPlace,
     InCall
<1>20. CASE build = "mmap" /\ MapOpenToRead(t)
  BY <1>0, <1>20, <1>99 DEF MapOpenToRead, Exclusive, HasLock, HasFile, Mode, AtPlace,
     InCall
<1>21. CASE build = "mmap" /\ MapOpenToWrite(t)
  BY <1>0, <1>21, <1>99 DEF MapOpenToWrite, Exclusive, HasLock, HasFile, Mode,
     AtPlace, InCall, Unused
<1>22. CASE build = "mmap" /\ MapFlock(t)
  BY <1>0, <1>22, <1>99 DEF MapFlock, Exclusive, HasLock, HasFile, Mode, AtPlace,
     InCall, Compatible, Locks
<1>23. CASE build = "mmap" /\ MapGiveUp(t)
  BY <1>0, <1>23, <1>99 DEF MapGiveUp, Exclusive, HasLock, HasFile, Mode, AtPlace,
     InCall
<1>24. CASE build = "mmap" /\ MapRead(t)
  BY <1>0, <1>24, <1>99 DEF MapRead, Exclusive, HasLock, HasFile, Mode, AtPlace, InCall
<1>25. CASE build = "mmap" /\ MapNoCopy(t)
  BY <1>0, <1>25, <1>99 DEF MapNoCopy, Exclusive, HasLock, HasFile, Mode, AtPlace,
     InCall
<1>26. CASE build = "mmap" /\ MapTruncate(t)
  BY <1>0, <1>26, <1>99 DEF MapTruncate, Exclusive, HasLock, HasFile, Mode, AtPlace,
     InCall
<1>27. CASE build = "mmap" /\ MapCopy(t)
  BY <1>0, <1>27, <1>99 DEF MapCopy, Exclusive, HasLock, HasFile, Mode, AtPlace, InCall
<1>28. CASE build = "mmap" /\ MapClose(t)
  BY <1>0, <1>28, <1>99 DEF MapClose, Exclusive, HasLock, HasFile, Mode, AtPlace, InCall
<1>29. CASE build = "mmap" /\ MapCrash(t)
  BY <1>0, <1>29, <1>99 DEF MapCrash, Exclusive, HasLock, HasFile, Mode, AtPlace,
     InCall, Killed
<1> QED
  BY <1>1, <1>2, <1>3, <1>4, <1>5, <1>6, <1>7, <1>8, <1>9, <1>10, <1>11,
     <1>12, <1>13, <1>14, <1>15, <1>16, <1>17, <1>18, <1>19, <1>20, <1>21,
     <1>22, <1>23, <1>24, <1>25, <1>26, <1>27, <1>28, <1>29
     DEF ProcessStep, BothSteps, StdioSteps, MapSteps

LEMMA ExclusiveStep ==
  ASSUME FileTypeOK, Places, Locks, Exclusive, [BuildNext]_buildVars
  PROVE  Exclusive'
<1>1. CASE UNCHANGED buildVars
  BY <1>1 DEF buildVars, mapVars, vars, files, interface, Exclusive, Mode
<1>2. CASE build' = build /\ UNCHANGED mapVars /\ Tick
  BY <1>2 DEF Tick, interface, Exclusive, Mode
<1> QED
  BY <1>1, <1>2, ExclusiveStepByProcess, StepCases

-----------------------------------------------------------------------------
(* With stdio, no get has or waits for a file that had expired.            *)

LEMMA FreshStepByProcess ==
  ASSUME FileTypeOK, Places, NeverStaleLine, NEW t \in Thread, ProcessStep(t)
  PROVE  NeverStaleLine'
<1>0. AtPlace(t) /\ (at[t] # "out" => InCall(t)) /\ build' = build
  BY CallInHand DEF Places, AtPlace, ProcessStep
<1>99. /\ at = [u \in Thread |-> at[u]] /\ file = [u \in Thread |-> file[u]]
       /\ call = [u \in Thread |-> call[u]] /\ began = [u \in Thread |-> began[u]]
       /\ mtime = [f \in Inode |-> mtime[f]]
       /\ \A f \in Inode : mtime[f] \in Nat /\ mtime[f] <= now
       /\ \A u \in Thread : began[u] \in Nat /\ began[u] <= now
       /\ now \in Nat /\ Expiration \in Nat /\ dir \in [Key -> Inode \cup {NoInode}]
       /\ NoInode \notin Inode /\ file \in [Thread -> Inode \cup {NoInode}]
  BY FileAssumption DEF FileTypeOK, BuildTypeOK, TypeOK
<1>98. \A u \in Thread : at[u] \in {"lock", "size", "read"} => file[u] \in Inode
  BY <1>99 DEF Places, AtPlace, HasFile
<1> USE DEF Goto, Opened, Closed, files, interface, mapVars
<1>1. CASE UNCHANGED mapVars /\ Client(t)
  <2>1. at[t] = "out" /\ UNCHANGED <<at, file, mtime, began>> /\ \A u \in Thread \ {t} : call'[u] = call[u]
    BY <1>0, <1>1, <1>99 DEF Client, ClientNext, Invoke, Collect, AtPlace
  <2> QED
    BY <1>0, <1>99, <2>1 DEF NeverStaleLine, NeverStale
<1>2. CASE UNCHANGED mapVars /\ Enter(t)
  BY <1>0, <1>2, <1>98, <1>99 DEF Enter, NeverStaleLine, NeverStale, HasFile, AtPlace,
     InCall
<1>3. CASE UNCHANGED mapVars /\ MkdirFails(t)
  BY <1>0, <1>3, <1>98, <1>99 DEF MkdirFails, NeverStaleLine, NeverStale, HasFile,
     AtPlace, InCall
<1>4. CASE UNCHANGED mapVars /\ Measure(t)
  BY <1>0, <1>4, <1>98, <1>99 DEF Measure, NeverStaleLine, NeverStale, HasFile,
     AtPlace, InCall
<1>5. CASE UNCHANGED mapVars /\ Leave(t)
  BY <1>0, <1>5, <1>98, <1>99 DEF Leave, NeverStaleLine, NeverStale, HasFile, AtPlace,
     InCall
<1>6. CASE build = "stdio" /\ UNCHANGED mapVars /\ OpenFails(t)
  BY <1>0, <1>6, <1>98, <1>99 DEF OpenFails, NeverStaleLine, NeverStale, HasFile,
     AtPlace, InCall, AfterAttempt
<1>7. CASE build = "stdio" /\ UNCHANGED mapVars /\ GiveUp(t)
  BY <1>0, <1>7, <1>98, <1>99 DEF GiveUp, NeverStaleLine, NeverStale, HasFile,
     AtPlace, InCall
<1>8. CASE build = "stdio" /\ UNCHANGED mapVars /\ Flock(t)
  BY <1>0, <1>8, <1>98, <1>99 DEF Flock, NeverStaleLine, NeverStale, HasFile, AtPlace,
     InCall
<1>9. CASE build = "stdio" /\ UNCHANGED mapVars /\ OpenToRead(t)
  BY <1>0, <1>9, <1>98, <1>99 DEF OpenToRead, NeverStaleLine, NeverStale, HasFile,
     AtPlace, InCall
<1>10. CASE build = "stdio" /\ UNCHANGED mapVars /\ FindExpired(t)
  BY <1>0, <1>10, <1>98, <1>99 DEF FindExpired, NeverStaleLine, NeverStale, HasFile,
     AtPlace, InCall
<1>11. CASE build = "stdio" /\ UNCHANGED mapVars /\ FindFresh(t)
  <2>1. at[t] = "stat" /\ file[t] \in Inode /\ mtime[file[t]] + Expiration > now
    BY <1>0, <1>11, <1>99 DEF FindFresh, Expired, AtPlace, InCall, HasFile
  <2>2. mtime[file[t]] + Expiration > began[t]
    BY <1>99, <2>1
  <2> QED
    BY <1>0, <1>11, <1>99, <2>2 DEF FindFresh, NeverStaleLine, NeverStale
<1>12. CASE build = "stdio" /\ UNCHANGED mapVars /\ Read(t)
  BY <1>0, <1>12, <1>98, <1>99 DEF Read, NeverStaleLine, NeverStale, HasFile, AtPlace,
     InCall
<1>13. CASE build = "stdio" /\ UNCHANGED mapVars /\ Unlink(t)
  BY <1>0, <1>13, <1>98, <1>99 DEF Unlink, NeverStaleLine, NeverStale, HasFile,
     AtPlace, InCall
<1>14. CASE build = "stdio" /\ UNCHANGED mapVars /\ OpenToWrite(t)
  <2>1. mtime' \in [Inode -> Nat] /\ \A f \in Inode : mtime[f] <= mtime'[f]
    BY <1>0, <1>14, <1>99 DEF OpenToWrite, Unused, InCall, AtPlace
  <2>2. /\ call[t].op = "set" /\ call' = call /\ began' = began
        /\ \A u \in Thread \ {t} : at'[u] = at[u] /\ file'[u] = file[u]
    BY <1>0, <1>14, <1>99 DEF OpenToWrite, AtPlace
  <2>3. ASSUME NEW u \in Thread \ {t}, at[u] \in {"lock", "size", "read"},
               mtime[file[u]] + Expiration > began[u]
        PROVE  mtime'[file[u]] + Expiration > began[u]
    BY <1>98, <1>99, <2>1, <2>3
  <2> QED
    BY <1>0, <1>14, <2>2, <2>3 DEF NeverStaleLine, NeverStale
<1>15. CASE build = "stdio" /\ UNCHANGED mapVars /\ Write(t)
  <2>1. mtime' \in [Inode -> Nat] /\ \A f \in Inode : mtime[f] <= mtime'[f]
    <3>1. PICK x \in {mtime[file[t]], now} : mtime' = [mtime EXCEPT ![file[t]] = x]
      BY <1>15 DEF Write, Written
    <3>2. file[t] \in Inode /\ mtime \in [Inode -> Nat]
      BY <1>0, <1>15, <1>99 DEF Write, AtPlace, InCall, HasFile
    <3>3. x \in Nat /\ mtime[file[t]] <= x
      BY <1>99, <3>2
    <3> QED
      BY <3>1, <3>2, <3>3
  <2>2. /\ call[t].op = "set" /\ call' = call /\ began' = began
        /\ \A u \in Thread \ {t} : at'[u] = at[u] /\ file'[u] = file[u]
    BY <1>0, <1>15, <1>99 DEF Write, AtPlace
  <2>3. ASSUME NEW u \in Thread \ {t}, at[u] \in {"lock", "size", "read"},
               mtime[file[u]] + Expiration > began[u]
        PROVE  mtime'[file[u]] + Expiration > began[u]
    BY <1>98, <1>99, <2>1, <2>3
  <2> QED
    BY <1>0, <1>15, <2>2, <2>3 DEF NeverStaleLine, NeverStale
<1>16. CASE build = "stdio" /\ UNCHANGED mapVars /\ Flush(t)
  <2>1. mtime' \in [Inode -> Nat] /\ \A f \in Inode : mtime[f] <= mtime'[f]
    <3>1. PICK x \in {mtime[file[t]], now} : mtime' = [mtime EXCEPT ![file[t]] = x]
      BY <1>16 DEF Flush, Written
    <3>2. file[t] \in Inode /\ mtime \in [Inode -> Nat]
      BY <1>0, <1>16, <1>99 DEF Flush, AtPlace, InCall, HasFile
    <3>3. x \in Nat /\ mtime[file[t]] <= x
      BY <1>99, <3>2
    <3> QED
      BY <3>1, <3>2, <3>3
  <2>2. /\ call[t].op = "set" /\ call' = call /\ began' = began
        /\ \A u \in Thread \ {t} : at'[u] = at[u] /\ file'[u] = file[u]
    BY <1>0, <1>16, <1>99 DEF Flush, AtPlace
  <2>3. ASSUME NEW u \in Thread \ {t}, at[u] \in {"lock", "size", "read"},
               mtime[file[u]] + Expiration > began[u]
        PROVE  mtime'[file[u]] + Expiration > began[u]
    BY <1>98, <1>99, <2>1, <2>3
  <2> QED
    BY <1>0, <1>16, <2>2, <2>3 DEF NeverStaleLine, NeverStale
<1>17. CASE build = "stdio" /\ UNCHANGED mapVars /\ DiskFull(t)
  <2>1. mtime' \in [Inode -> Nat] /\ \A f \in Inode : mtime[f] <= mtime'[f]
    <3>1. file[t] \in Inode /\ mtime \in [Inode -> Nat] /\ call[t].val \in Seq(Char)
      BY <1>0, <1>17, <1>99 DEF DiskFull, AtPlace, InCall, HasFile
    <3>2. PICK x \in {mtime[file[t]], now} : mtime' = [mtime EXCEPT ![file[t]] = x]
      BY <1>17, <3>1, ShortWrite
    <3>3. x \in Nat /\ mtime[file[t]] <= x
      BY <1>99, <3>1
    <3> QED
      BY <3>1, <3>2, <3>3
  <2>2. /\ call[t].op = "set" /\ call' = call /\ began' = began
        /\ \A u \in Thread \ {t} : at'[u] = at[u] /\ file'[u] = file[u]
    BY <1>0, <1>17, <1>99 DEF DiskFull, AtPlace
  <2>3. ASSUME NEW u \in Thread \ {t}, at[u] \in {"lock", "size", "read"},
               mtime[file[u]] + Expiration > began[u]
        PROVE  mtime'[file[u]] + Expiration > began[u]
    BY <1>98, <1>99, <2>1, <2>3
  <2> QED
    BY <1>0, <1>17, <2>2, <2>3 DEF NeverStaleLine, NeverStale
<1>18. CASE build = "stdio" /\ UNCHANGED mapVars /\ Crash(t)
  BY <1>0, <1>18, <1>98, <1>99 DEF Crash, NeverStaleLine, NeverStale, HasFile,
     AtPlace, InCall, Killed
<1>19. CASE build = "mmap"
  BY <1>0, <1>19 DEF NeverStaleLine
<1> QED
  BY <1>1, <1>2, <1>3, <1>4, <1>5, <1>6, <1>7, <1>8, <1>9, <1>10, <1>11,
     <1>12, <1>13, <1>14, <1>15, <1>16, <1>17, <1>18, <1>19
     DEF ProcessStep, BothSteps, StdioSteps, MapSteps

LEMMA FreshStep ==
  ASSUME FileTypeOK, Places, NeverStaleLine, [BuildNext]_buildVars
  PROVE  NeverStaleLine'
<1>1. CASE UNCHANGED buildVars
  BY <1>1 DEF buildVars, mapVars, vars, files, interface, NeverStaleLine, NeverStale
<1>2. CASE build' = build /\ UNCHANGED mapVars /\ Tick
  BY <1>2 DEF Tick, interface, NeverStaleLine, NeverStale
<1> QED
  BY <1>1, <1>2, FreshStepByProcess, StepCases

-----------------------------------------------------------------------------
(* Which key a file holds values of: the key whose path names it, and the  *)
(* key a process has opened it for, though the name may be gone.           *)
Holds(f, k) == dir[k] = f \/ \E t \in Thread : file[t] = f /\ call[t].key = k

OneKey == \A f \in Inode, k, l \in Key : Holds(f, k) /\ Holds(f, l) => k = l

(* A path that names nothing is given an unused file, an empty one.        *)
Founded(f, k, t) ==
  /\ at[t] = "open" /\ call[t].op = "set" /\ k = call[t].key
  /\ f \in Unused /\ file'[t] = f /\ text'[f] = <<>>

(* A step makes a file one of a key's only by opening it.                  *)
LEMMA HoldsStepByProcess ==
  ASSUME FileTypeOK, Places, NEW t \in Thread, ProcessStep(t)
  PROVE  \A f \in Inode, k \in Key : Holds(f, k)' => Holds(f, k) \/ Founded(f, k, t)
<1>0. AtPlace(t) /\ (at[t] # "out" => InCall(t)) /\ build' = build
  BY CallInHand DEF Places, AtPlace, ProcessStep
<1>99. /\ dir = [k \in Key |-> dir[k]] /\ file = [u \in Thread |-> file[u]]
       /\ call = [u \in Thread |-> call[u]] /\ NoInode \notin Inode
       /\ dir \in [Key -> Inode \cup {NoInode}]
  BY FileAssumption DEF FileTypeOK, BuildTypeOK, TypeOK
<1> USE DEF Goto, Opened, Closed, files, interface, mapVars
<1>1. CASE UNCHANGED mapVars /\ Client(t)
  <2>1. file[t] = NoInode /\ UNCHANGED <<dir, file>> /\ \A u \in Thread \ {t} : call'[u] = call[u]
    BY <1>0, <1>1, <1>99 DEF Client, ClientNext, Invoke, Collect, AtPlace, HasFile
  <2> QED
    BY <1>99, <2>1 DEF Holds
<1>2. CASE UNCHANGED mapVars /\ Enter(t)
  BY <1>0, <1>2, <1>99 DEF Enter, Holds, HasFile, AtPlace, InCall
<1>3. CASE UNCHANGED mapVars /\ MkdirFails(t)
  BY <1>0, <1>3, <1>99 DEF MkdirFails, Holds, HasFile, AtPlace, InCall
<1>4. CASE UNCHANGED mapVars /\ Measure(t)
  BY <1>0, <1>4, <1>99 DEF Measure, Holds, HasFile, AtPlace, InCall
<1>5. CASE UNCHANGED mapVars /\ Leave(t)
  BY <1>0, <1>5, <1>99 DEF Leave, Holds, HasFile, AtPlace, InCall
<1>6. CASE build = "stdio" /\ UNCHANGED mapVars /\ OpenFails(t)
  BY <1>0, <1>6, <1>99 DEF OpenFails, Holds, HasFile, AtPlace, InCall, AfterAttempt
<1>7. CASE build = "stdio" /\ UNCHANGED mapVars /\ GiveUp(t)
  BY <1>0, <1>7, <1>99 DEF GiveUp, Holds, HasFile, AtPlace, InCall
<1>8. CASE build = "stdio" /\ UNCHANGED mapVars /\ Flock(t)
  BY <1>0, <1>8, <1>99 DEF Flock, Holds, HasFile, AtPlace, InCall
<1>9. CASE build = "stdio" /\ UNCHANGED mapVars /\ OpenToRead(t)
  BY <1>0, <1>9, <1>99 DEF OpenToRead, Holds, HasFile, AtPlace, InCall
<1>10. CASE build = "stdio" /\ UNCHANGED mapVars /\ FindExpired(t)
  BY <1>0, <1>10, <1>99 DEF FindExpired, Holds, HasFile, AtPlace, InCall
<1>11. CASE build = "stdio" /\ UNCHANGED mapVars /\ FindFresh(t)
  BY <1>0, <1>11, <1>99 DEF FindFresh, Holds, HasFile, AtPlace, InCall
<1>12. CASE build = "stdio" /\ UNCHANGED mapVars /\ Read(t)
  BY <1>0, <1>12, <1>99 DEF Read, Holds, HasFile, AtPlace, InCall
<1>13. CASE build = "stdio" /\ UNCHANGED mapVars /\ Unlink(t)
  BY <1>0, <1>13, <1>99 DEF Unlink, Holds, HasFile, AtPlace, InCall
<1>14. CASE build = "stdio" /\ UNCHANGED mapVars /\ OpenToWrite(t)
  <2>1. PICK f \in (IF dir[call[t].key] = NoInode THEN Unused ELSE {dir[call[t].key]}) :
          /\ dir' = [dir EXCEPT ![call[t].key] = f]
          /\ text' = [text EXCEPT ![f] = <<>>]
          /\ file' = [file EXCEPT ![t] = f]
    BY <1>14 DEF OpenToWrite
  <2>2. /\ call[t].key \in Key /\ call' = call /\ at[t] = "open" /\ call[t].op = "set"
        /\ f \in Unused \/ f = dir[call[t].key]
        /\ f \in Unused => text'[f] = <<>>
    BY <1>0, <1>14, <2>1 DEF OpenToWrite, Unused, InCall, AtPlace, FileTypeOK
  <2> QED
    BY <1>99, <2>1, <2>2 DEF Holds, Founded
<1>15. CASE build = "stdio" /\ UNCHANGED mapVars /\ Write(t)
  BY <1>0, <1>15, <1>99 DEF Write, Holds, HasFile, AtPlace, InCall, Written
<1>16. CASE build = "stdio" /\ UNCHANGED mapVars /\ Flush(t)
  BY <1>0, <1>16, <1>99 DEF Flush, Holds, HasFile, AtPlace, InCall, Written
<1>17. CASE build = "stdio" /\ UNCHANGED mapVars /\ DiskFull(t)
  BY <1>0, <1>17, <1>99 DEF DiskFull, Holds, HasFile, AtPlace, InCall
<1>18. CASE build = "stdio" /\ UNCHANGED mapVars /\ Crash(t)
  BY <1>0, <1>18, <1>99 DEF Crash, Holds, HasFile, AtPlace, InCall, Killed
<1>19. CASE build = "mmap" /\ MapOpenFails(t)
  BY <1>0, <1>19, <1>99 DEF MapOpenFails, Holds, HasFile, AtPlace, InCall
<1>20. CASE build = "mmap" /\ MapOpenToRead(t)
  BY <1>0, <1>20, <1>99 DEF MapOpenToRead, Holds, HasFile, AtPlace, InCall
<1>21. CASE build = "mmap" /\ MapOpenToWrite(t)
  <2>0. call[t].key \in Key /\ call' = call /\ at[t] = "open" /\ call[t].op = "set"
    BY <1>0, <1>21 DEF MapOpenToWrite, InCall, AtPlace
  <2>1. CASE Opened(t, dir[call[t].key]) /\ dir' = dir
    BY <1>99, <2>0, <2>1 DEF Holds
  <2>2. CASE \E f \in Unused :
               /\ dir' = [dir EXCEPT ![call[t].key] = f]
               /\ text' = [text EXCEPT ![f] = <<>>]
               /\ Opened(t, f)
    <3>1. PICK f \in Unused :
               /\ dir' = [dir EXCEPT ![call[t].key] = f]
               /\ text' = [text EXCEPT ![f] = <<>>]
               /\ file' = [file EXCEPT ![t] = f]
      BY <2>2
    <3>2. text'[f] = <<>>
      BY <3>1 DEF Unused, FileTypeOK
    <3> QED
      BY <1>99, <2>0, <3>1, <3>2 DEF Holds, Founded
  <2> QED
    BY <1>21, <2>1, <2>2 DEF MapOpenToWrite
<1>22. CASE build = "mmap" /\ MapFlock(t)
  BY <1>0, <1>22, <1>99 DEF MapFlock, Holds, HasFile, AtPlace, InCall
<1>23. CASE build = "mmap" /\ MapGiveUp(t)
  BY <1>0, <1>23, <1>99 DEF MapGiveUp, Holds, HasFile, AtPlace, InCall
<1>24. CASE build = "mmap" /\ MapRead(t)
  BY <1>0, <1>24, <1>99 DEF MapRead, Holds, HasFile, AtPlace, InCall
<1>25. CASE build = "mmap" /\ MapNoCopy(t)
  BY <1>0, <1>25, <1>99 DEF MapNoCopy, Holds, HasFile, AtPlace, InCall
<1>26. CASE build = "mmap" /\ MapTruncate(t)
  BY <1>0, <1>26, <1>99 DEF MapTruncate, Holds, HasFile, AtPlace, InCall
<1>27. CASE build = "mmap" /\ MapCopy(t)
  BY <1>0, <1>27, <1>99 DEF MapCopy, Holds, HasFile, AtPlace, InCall
<1>28. CASE build = "mmap" /\ MapClose(t)
  BY <1>0, <1>28, <1>99 DEF MapClose, Holds, HasFile, AtPlace, InCall
<1>29. CASE build = "mmap" /\ MapCrash(t)
  BY <1>0, <1>29, <1>99 DEF MapCrash, Holds, HasFile, AtPlace, InCall, Killed
<1> QED
  BY <1>1, <1>2, <1>3, <1>4, <1>5, <1>6, <1>7, <1>8, <1>9, <1>10, <1>11,
     <1>12, <1>13, <1>14, <1>15, <1>16, <1>17, <1>18, <1>19, <1>20, <1>21,
     <1>22, <1>23, <1>24, <1>25, <1>26, <1>27, <1>28, <1>29
     DEF ProcessStep, BothSteps, StdioSteps, MapSteps

LEMMA OneKeyStep ==
  ASSUME FileTypeOK, Places, OneKey, [BuildNext]_buildVars
  PROVE  OneKey'
<1>1. CASE UNCHANGED <<dir, file, call>>
  BY <1>1 DEF OneKey, Holds
<1>2. ASSUME NEW t \in Thread, ProcessStep(t)
      PROVE  OneKey'
  <2>1. \A f \in Unused, k \in Key : ~Holds(f, k)
    BY DEF Unused, Named, Holds
  <2> QED
    BY <1>2, <2>1, HoldsStepByProcess DEF OneKey, Founded
<1> QED
  BY <1>1, <1>2, StepCases DEF buildVars, mapVars, vars, files, interface, Tick

-----------------------------------------------------------------------------
(* Each character of a text, unless it fills a hole, stands at its place   *)
(* in a value that was set under the key.                                  *)
FitsIn(s, k, offers) ==
  \A n \in 1 .. Len(s) :
    s[n] = Nul \/ \E e \in offers : e[1] = k /\ n <= Len(e[2]) /\ e[2][n] = s[n]

TextsFit == \A f \in Inode, k \in Key : Holds(f, k) => FitsIn(text[f], k, offered)

LEMMA WritesFit ==
  ASSUME NEW k, NEW offers, NEW v \in Seq(Char), <<k, v>> \in offers,
         NEW old \in Seq(Char), FitsIn(old, k, offers)
  PROVE  /\ \A s, off : PartOf(s, off, v) => FitsIn(Overlay(s, off, old), k, offers)
         /\ FitsIn(Fitted(old, Len(v)), k, offers)
         /\ \A n \in 1 .. Len(v) : FitsIn([old EXCEPT ![n] = v[n]], k, offers)
<1>1. Len(v) \in Nat
  OBVIOUS
<1> DEFINE Fit(n, c) == c = Nul \/ \E e \in offers : e[1] = k /\ n <= Len(e[2]) /\ e[2][n] = c
<1>2. /\ \A n \in 1 .. Len(v) : Fit(n, v[n])
      /\ \A n \in 1 .. Len(old) : Fit(n, old[n])
      /\ \A n : Fit(n, Nul)
  BY DEF FitsIn
<1>3. Nul \in Char /\ Len(old) \in Nat /\ 0 \in Nat
  BY DEF Char
<1>4. ASSUME NEW new \in Seq(Char), \A n \in 1 .. Len(new) : Fit(n, new[n])
      PROVE  FitsIn(new, k, offers)
  BY <1>4 DEF FitsIn
<1> HIDE DEF Fit
<1>5. ASSUME NEW s, NEW off, PartOf(s, off, v)
      PROVE  FitsIn(Overlay(s, off, old), k, offers)
  <2> DEFINE new == Overlay(s, off, old)
             end == IF s = <<>> THEN 0 ELSE off + Len(s)
  <2>0. /\ s \in Seq(Char) /\ off \in Nat /\ off + Len(s) <= Len(v)
        /\ \A m \in 1 .. Len(s) : s[m] = v[off + m]
    BY <1>5 DEF PartOf
  <2>1. /\ new \in Seq(Char)
        /\ \A n \in 1 .. Len(new) :
             new[n] = IF n > off /\ n <= end THEN s[n - off]
                      ELSE IF n <= Len(old) THEN old[n] ELSE Nul
    BY <1>3, <2>0, OverlayFacts
  <2>2. end \in Nat /\ end <= Len(v) /\ (end > off => end = off + Len(s))
    BY <1>1, <2>0
  <2> HIDE DEF new, end
  <2>3. \A n \in 1 .. Len(new) : Fit(n, new[n])
    <3>1. ASSUME NEW n \in 1 .. Len(new)
          PROVE  Fit(n, new[n])
      <4>1. CASE n > off /\ n <= end
        <5>1. n - off \in 1 .. Len(s) /\ n \in 1 .. Len(v) /\ off + (n - off) = n
          BY <1>1, <2>0, <2>2, <4>1
        <5>2. new[n] = v[n]
          BY <2>0, <2>1, <4>1, <5>1
        <5> QED
          BY <1>2, <5>1, <5>2
      <4>2. CASE ~(n > off /\ n <= end)
        <5>1. new[n] = IF n <= Len(old) THEN old[n] ELSE Nul
          BY <2>1, <4>2
        <5> QED
          BY <1>2, <1>3, <5>1
      <4> QED
        BY <4>1, <4>2
    <3> QED
      BY <3>1
  <2> QED
    BY <1>4, <2>1, <2>3 DEF new
<1>7. FitsIn(Fitted(old, Len(v)), k, offers)
  <2> DEFINE new == Fitted(old, Len(v))
  <2>1. /\ new \in Seq(Char) /\ Len(new) = Len(v)
        /\ \A n \in 1 .. Len(v) : new[n] = IF n <= Len(old) THEN old[n] ELSE Nul
    BY <1>1, <1>3 DEF Fitted
  <2> HIDE DEF new
  <2>2. \A n \in 1 .. Len(new) : Fit(n, new[n])
    BY <1>2, <1>3, <2>1
  <2> QED
    BY <1>4, <2>1, <2>2 DEF new
<1>8. ASSUME NEW n \in 1 .. Len(v)
      PROVE  FitsIn([old EXCEPT ![n] = v[n]], k, offers)
  <2> DEFINE new == [old EXCEPT ![n] = v[n]]
  <2>1. CASE n \in 1 .. Len(old)
    <3>1. /\ new \in Seq(Char) /\ Len(new) = Len(old)
          /\ \A m \in 1 .. Len(old) : new[m] = IF m = n THEN v[n] ELSE old[m]
      <4>1. v[n] \in Char
        OBVIOUS
      <4> QED
        BY <2>1, <4>1, ExceptSeq
    <3> HIDE DEF new
    <3>2. \A m \in 1 .. Len(new) : Fit(m, new[m])
      BY <1>2, <3>1
    <3> QED
      BY <1>4, <3>1, <3>2 DEF new
  <2>2. CASE n \notin 1 .. Len(old)
    <3>1. new = old
      BY <2>2
    <3> QED
      BY <3>1
  <2> QED
    BY <2>1, <2>2
<1> QED
  BY <1>5, <1>7, <1>8

(* What a step makes of the files: nothing, one of them empty, or what is  *)
(* written in one that the process holds.                                  *)
Makes(t, new) ==
  LET old == text[file[t]]
      v == call[t].val
  IN \/ \E s, off : PartOf(s, off, v) /\ new = Overlay(s, off, old)
     \/ new = Fitted(old, Len(v))
     \/ len[t] + 1 \in 1 .. Len(v) /\ new = [old EXCEPT ![len[t] + 1] = v[len[t] + 1]]
TextChange(t) ==
  \/ text' = text
  \/ \E f \in Inode : text' = [text EXCEPT ![f] = <<>>]
  \/ /\ file[t] \in Inode /\ call[t].key \in Key
     /\ call[t].val \in Seq(Char) /\ <<call[t].key, call[t].val>> \in offered
     /\ \E new : Makes(t, new) /\ text' = [text EXCEPT ![file[t]] = new]

LEMMA TextByProcess ==
  ASSUME FileTypeOK, Places, NEW t \in Thread, ProcessStep(t)
  PROVE  TextChange(t) /\ offered \subseteq offered'
<1>0. AtPlace(t) /\ (at[t] # "out" => InCall(t)) /\ build' = build
  BY CallInHand DEF Places, AtPlace, ProcessStep
<1>99. dir \in [Key -> Inode \cup {NoInode}] /\ len \in [Thread -> Nat]
  BY FileAssumption DEF FileTypeOK, BuildTypeOK, TypeOK
<1> USE DEF Goto, Opened, Closed, files, interface, mapVars
<1>1. CASE UNCHANGED mapVars /\ Client(t)
  BY <1>1 DEF Client, ClientNext, Invoke, Collect, TextChange
<1>2. CASE UNCHANGED mapVars /\ Enter(t)
  BY <1>2 DEF Enter, TextChange
<1>3. CASE UNCHANGED mapVars /\ MkdirFails(t)
  BY <1>3 DEF MkdirFails, TextChange
<1>4. CASE UNCHANGED mapVars /\ Measure(t)
  BY <1>4 DEF Measure, TextChange
<1>5. CASE UNCHANGED mapVars /\ Leave(t)
  BY <1>5 DEF Leave, TextChange
<1>6. CASE build = "stdio" /\ UNCHANGED mapVars /\ OpenFails(t)
  BY <1>6 DEF OpenFails, TextChange
<1>7. CASE build = "stdio" /\ UNCHANGED mapVars /\ GiveUp(t)
  BY <1>7 DEF GiveUp, TextChange
<1>8. CASE build = "stdio" /\ UNCHANGED mapVars /\ Flock(t)
  BY <1>8 DEF Flock, TextChange
<1>9. CASE build = "stdio" /\ UNCHANGED mapVars /\ OpenToRead(t)
  BY <1>9 DEF OpenToRead, TextChange
<1>10. CASE build = "stdio" /\ UNCHANGED mapVars /\ FindExpired(t)
  BY <1>10 DEF FindExpired, TextChange
<1>11. CASE build = "stdio" /\ UNCHANGED mapVars /\ FindFresh(t)
  BY <1>11 DEF FindFresh, TextChange
<1>12. CASE build = "stdio" /\ UNCHANGED mapVars /\ Read(t)
  BY <1>12 DEF Read, TextChange
<1>13. CASE build = "stdio" /\ UNCHANGED mapVars /\ Unlink(t)
  BY <1>13 DEF Unlink, TextChange
<1>14. CASE build = "stdio" /\ UNCHANGED mapVars /\ OpenToWrite(t)
  <2>1. PICK f \in (IF dir[call[t].key] = NoInode THEN Unused ELSE {dir[call[t].key]}) :
          text' = [text EXCEPT ![f] = <<>>]
    BY <1>14 DEF OpenToWrite
  <2>2. f \in Inode /\ offered' = offered
    BY <1>0, <1>14, <1>99, <2>1 DEF OpenToWrite, Unused, InCall, AtPlace
  <2> QED
    BY <2>1, <2>2 DEF TextChange
<1>15. CASE build = "stdio" /\ UNCHANGED mapVars /\ Write(t)
  <2>1. /\ file[t] \in Inode /\ call[t].key \in Key
        /\ call[t].val \in Seq(Char) /\ <<call[t].key, call[t].val>> \in offered
        /\ offered' = offered
    BY <1>0, <1>15 DEF Write, AtPlace, InCall, HasFile
  <2> DEFINE new == Overlay(Direct(call[t].val), 0, text[file[t]])
  <2>2. text' = [text EXCEPT ![file[t]] = new]
    BY <1>15 DEF Write, Written
  <2>3. Makes(t, new)
    BY <2>1, PartFacts DEF Makes
  <2> QED
    BY <2>1, <2>2, <2>3, Zenon DEF TextChange
<1>16. CASE build = "stdio" /\ UNCHANGED mapVars /\ Flush(t)
  <2>1. /\ file[t] \in Inode /\ call[t].key \in Key
        /\ call[t].val \in Seq(Char) /\ <<call[t].key, call[t].val>> \in offered
        /\ offered' = offered
    BY <1>0, <1>16 DEF Flush, AtPlace, InCall, HasFile
  <2> DEFINE new == Overlay(Rest(call[t].val), Len(Direct(call[t].val)), text[file[t]])
  <2>2. text' = [text EXCEPT ![file[t]] = new]
    BY <1>16 DEF Flush, Written
  <2>3. Makes(t, new)
    BY <2>1, PartFacts DEF Makes
  <2> QED
    BY <2>1, <2>2, <2>3, Zenon DEF TextChange
<1>17. CASE build = "stdio" /\ UNCHANGED mapVars /\ DiskFull(t)
  <2>1. /\ file[t] \in Inode /\ call[t].key \in Key
        /\ call[t].val \in Seq(Char) /\ <<call[t].key, call[t].val>> \in offered
        /\ offered' = offered
    BY <1>0, <1>17 DEF DiskFull, AtPlace, InCall, HasFile
  <2>2. PICK s, off :
           /\ PartOf(s, off, call[t].val)
           /\ text' = [text EXCEPT ![file[t]] = Overlay(s, off, text[file[t]])]
    BY <1>17, <2>1, ShortWrite
  <2>3. Makes(t, Overlay(s, off, text[file[t]]))
    BY <2>2 DEF Makes
  <2> QED
    BY <2>1, <2>2, <2>3, Zenon DEF TextChange
<1>18. CASE build = "stdio" /\ UNCHANGED mapVars /\ Crash(t)
  BY <1>18 DEF Crash, TextChange, Killed
<1>19. CASE build = "mmap" /\ MapOpenFails(t)
  BY <1>19 DEF MapOpenFails, TextChange
<1>20. CASE build = "mmap" /\ MapOpenToRead(t)
  BY <1>20 DEF MapOpenToRead, TextChange
<1>21. CASE build = "mmap" /\ MapOpenToWrite(t)
  <2>1. offered' = offered /\ (text' = text \/ \E f \in Unused : text' = [text EXCEPT ![f] = <<>>])
    BY <1>21 DEF MapOpenToWrite
  <2> QED
    BY <2>1 DEF TextChange, Unused
<1>22. CASE build = "mmap" /\ MapFlock(t)
  BY <1>22 DEF MapFlock, TextChange
<1>23. CASE build = "mmap" /\ MapGiveUp(t)
  BY <1>23 DEF MapGiveUp, TextChange
<1>24. CASE build = "mmap" /\ MapRead(t)
  BY <1>24 DEF MapRead, TextChange
<1>25. CASE build = "mmap" /\ MapNoCopy(t)
  BY <1>25 DEF MapNoCopy, TextChange
<1>26. CASE build = "mmap" /\ MapTruncate(t)
  <2>1. /\ file[t] \in Inode /\ call[t].key \in Key
        /\ call[t].val \in Seq(Char) /\ <<call[t].key, call[t].val>> \in offered
        /\ offered' = offered
    BY <1>0, <1>26 DEF MapTruncate, AtPlace, InCall, HasFile
  <2> DEFINE new == Fitted(text[file[t]], Len(call[t].val))
  <2>2. text' = [text EXCEPT ![file[t]] = new]
    BY <1>26 DEF MapTruncate
  <2>3. Makes(t, new)
    BY DEF Makes
  <2> QED
    BY <2>1, <2>2, <2>3, Zenon DEF TextChange
<1>27. CASE build = "mmap" /\ MapCopy(t)
  <2>1. /\ file[t] \in Inode /\ call[t].key \in Key
        /\ call[t].val \in Seq(Char) /\ <<call[t].key, call[t].val>> \in offered
        /\ offered' = offered
    BY <1>0, <1>27 DEF MapCopy, AtPlace, InCall, HasFile
  <2> DEFINE new == [text[file[t]] EXCEPT ![len[t] + 1] = call[t].val[len[t] + 1]]
  <2>2. text' = [text EXCEPT ![file[t]] = new]
    BY <1>27 DEF MapCopy
  <2>3. Makes(t, new)
    BY <1>27, <1>99, <2>1 DEF MapCopy, Makes
  <2> QED
    BY <2>1, <2>2, <2>3, Zenon DEF TextChange
<1>28. CASE build = "mmap" /\ MapClose(t)
  BY <1>28 DEF MapClose, TextChange
<1>29. CASE build = "mmap" /\ MapCrash(t)
  BY <1>29 DEF MapCrash, TextChange, Killed
<1> QED
  BY <1>1, <1>2, <1>3, <1>4, <1>5, <1>6, <1>7, <1>8, <1>9, <1>10, <1>11,
     <1>12, <1>13, <1>14, <1>15, <1>16, <1>17, <1>18, <1>19, <1>20, <1>21,
     <1>22, <1>23, <1>24, <1>25, <1>26, <1>27, <1>28, <1>29
     DEF ProcessStep, BothSteps, StdioSteps, MapSteps

LEMMA TextsStep ==
  ASSUME FileTypeOK, Places, OneKey, TextsFit, [BuildNext]_buildVars
  PROVE  TextsFit'
<1>1. CASE UNCHANGED <<dir, file, call, text, offered>>
  BY <1>1 DEF TextsFit, Holds
<1>2. ASSUME NEW t \in Thread, ProcessStep(t)
      PROVE  TextsFit'
  <2>1. TextChange(t) /\ offered \subseteq offered'
    BY <1>2, TextByProcess
  <2>2. \A s, k : FitsIn(s, k, offered) => FitsIn(s, k, offered')
    BY <2>1 DEF FitsIn
  <2>3. text = [f \in Inode |-> text[f]]
    BY DEF FileTypeOK
  <2>4. \A k, o : FitsIn(<<>>, k, o)
    BY DEF FitsIn
  <2>5. ASSUME NEW f \in Inode, NEW k \in Key, Holds(f, k)
        PROVE  FitsIn(text'[f], k, offered)
    <3>1. CASE text' = text
      BY <2>5, <3>1 DEF TextsFit
    <3>2. CASE \E g \in Inode : text' = [text EXCEPT ![g] = <<>>]
      BY <2>3, <2>4, <2>5, <3>2 DEF TextsFit
    <3>3. ASSUME NEW new, Makes(t, new), text' = [text EXCEPT ![file[t]] = new],
                 file[t] \in Inode, call[t].key \in Key, call[t].val \in Seq(Char),
                 <<call[t].key, call[t].val>> \in offered
          PROVE  FitsIn(text'[f], k, offered)
      <4>1. CASE f # file[t]
        BY <2>3, <2>5, <3>3, <4>1 DEF TextsFit
      <4>2. CASE f = file[t]
        <5>1. k = call[t].key /\ text'[f] = new
          BY <2>3, <2>5, <3>3, <4>2 DEF OneKey, Holds
        <5>2. text[f] \in Seq(Char) /\ FitsIn(text[f], k, offered)
          BY <2>5 DEF FileTypeOK, TextsFit
        <5> DEFINE v == call[t].val
        <5>3. /\ \A s, off : PartOf(s, off, v) => FitsIn(Overlay(s, off, text[f]), k, offered)
              /\ FitsIn(Fitted(text[f], Len(v)), k, offered)
              /\ \A n \in 1 .. Len(v) : FitsIn([text[f] EXCEPT ![n] = v[n]], k, offered)
          BY <3>3, <5>1, <5>2, WritesFit, Zenon
        <5> HIDE DEF v
        <5>4. \/ \E s, off : PartOf(s, off, v) /\ new = Overlay(s, off, text[f])
              \/ new = Fitted(text[f], Len(v))
              \/ \E n \in 1 .. Len(v) : new = [text[f] EXCEPT ![n] = v[n]]
          BY <3>3, <4>2, Zenon DEF Makes, v
        <5> QED
          BY <5>1, <5>3, <5>4, Zenon
      <4> QED
        BY <4>1, <4>2
    <3> QED
      BY <2>1, <3>1, <3>2, <3>3 DEF TextChange
  <2> QED
    BY <1>2, <2>2, <2>4, <2>5, HoldsStepByProcess DEF TextsFit, Founded
<1> QED
  BY <1>1, <1>2, StepCases DEF buildVars, mapVars, vars, files, interface, Tick

-----------------------------------------------------------------------------
(* What a get hands out is the beginning of the text it has read, without  *)
(* a hole.                                                                 *)
LEMMA GetsFacts ==
  ASSUME NEW s \in Seq(Char), NEW max \in Nat, Gets(s, max) # Garbage
  PROVE  /\ Gets(s, max) \in Seq(Char) /\ Starts(Gets(s, max), s)
         /\ \A n \in 1 .. Len(Gets(s, max)) : Gets(s, max)[n] # Nul
<1> DEFINE a == AtMost(s, max)
           b == Line(a)
           c == AsString(b)
<1>1. a \in Seq(Char) /\ Starts(a, s)
  BY DEF AtMost, Starts
<1> HIDE DEF a
<1>2. b \in Seq(Char) /\ Starts(b, a)
  BY <1>1, LineFacts
<1> HIDE DEF b
<1>3. c \in Seq(Char) /\ Starts(c, b) /\ \A n \in 1 .. Len(c) : c[n] # Nul
  BY <1>2, StringFacts
<1> HIDE DEF c
<1>4. Starts(c, s)
  <2>1. Len(a) \in Nat /\ Len(b) \in Nat /\ Len(c) \in Nat /\ Len(s) \in Nat
    BY <1>1, <1>2, <1>3
  <2> QED
    BY <1>1, <1>2, <1>3, <2>1 DEF Starts
<1>5. Gets(s, max) = c
  BY DEF Gets, a, b, c
<1> QED
  BY <1>3, <1>4, <1>5

Answers(v, k) ==
  v \notin {NoValue, Garbage} =>
    \A n \in DOMAIN v : \E e \in offered : e[1] = k /\ n <= Len(e[2]) /\ e[2][n] = v[n]

(* The part of OfItsKey that speaks of characters.                         *)
OfValues ==
  \A t \in Thread : value[t] \notin {NoValue, Garbage} =>
    \A n \in DOMAIN value[t] :
      \E e \in offered : e[1] = call[t].key /\ n <= Len(e[2]) /\ e[2][n] = value[t][n]

LEMMA StartAnswers ==
  ASSUME NEW s \in Seq(Char), NEW k, FitsIn(s, k, offered),
         NEW r \in Seq(Char), Starts(r, s), \A n \in 1 .. Len(r) : r[n] # Nul
  PROVE  Answers(r, k)
<1>1. DOMAIN r = 1 .. Len(r) /\ Len(r) \in Nat /\ Len(s) \in Nat
  OBVIOUS
<1>2. \A n \in 1 .. Len(r) : n \in 1 .. Len(s) /\ s[n] = r[n] /\ s[n] # Nul
  BY <1>1 DEF Starts
<1> QED
  BY <1>1, <1>2 DEF FitsIn, Answers

(* A process that reads a file gets an answer made of its key's values.    *)
LEMMA ReadAnswers ==
  ASSUME FileTypeOK, Places, TextsFit, NEW t \in Thread, at[t] = "read"
  PROVE  /\ Answers(Gets(text[file[t]], len[t]), call[t].key)
         /\ Answers(AsString(text[file[t]]), call[t].key)
<1> DEFINE s == text[file[t]]
           k == call[t].key
<1>1. s \in Seq(Char) /\ len[t] \in Nat /\ FitsIn(s, k, offered)
  <2>1. InCall(t) /\ file[t] \in Inode
    BY CallInHand DEF Places, AtPlace, InCall, HasFile
  <2> QED
    BY <2>1 DEF FileTypeOK, TextsFit, Holds, InCall
<1> HIDE DEF s, k
<1>2. Answers(AsString(s), k)
  BY <1>1, StringFacts, StartAnswers
<1>3. CASE Gets(s, len[t]) = Garbage
  BY <1>2, <1>3 DEF Answers, s, k
<1>4. CASE Gets(s, len[t]) # Garbage
  <2>1. Answers(Gets(s, len[t]), k)
    BY <1>1, <1>4, GetsFacts, StartAnswers
  <2> QED
    BY <1>2, <2>1 DEF s, k
<1> QED
  BY <1>3, <1>4 DEF s, k

LEMMA AnswerStepByProcess ==
  ASSUME FileTypeOK, Places, TextsFit, OfValues, NEW t \in Thread, ProcessStep(t)
  PROVE  OfValues'
<1>0. AtPlace(t) /\ (at[t] # "out" => InCall(t)) /\ build' = build
  BY CallInHand DEF Places, AtPlace, ProcessStep
<1>99. /\ value = [u \in Thread |-> value[u]] /\ call = [u \in Thread |-> call[u]]
       /\ \A u \in Thread : Answers(value[u], call[u].key)
  BY DEF FileTypeOK, OfValues, Answers
<1>98. (\A u \in Thread : Answers(value'[u], call'[u].key)) => OfValues'
  <2>1. offered \subseteq offered'
    BY TextByProcess
  <2> QED
    BY <2>1, Zenon DEF OfValues, Answers
<1>97. \A k : Answers(NoValue, k)
  BY DEF Answers
<1> USE DEF Goto, Opened, Closed, files, interface, mapVars
<1>1. CASE UNCHANGED mapVars /\ Client(t)
  <2>1. value[t] = NoValue /\ value' = value /\ \A u \in Thread \ {t} : call'[u] = call[u]
    BY <1>0, <1>1, <1>99 DEF Client, ClientNext, Invoke, Collect, AtPlace
  <2> QED
    BY <1>97, <1>98, <1>99, <2>1
<1>2. CASE UNCHANGED mapVars /\ Enter(t)
  BY <1>2, <1>98, <1>99 DEF Enter
<1>3. CASE UNCHANGED mapVars /\ MkdirFails(t)
  BY <1>3, <1>98, <1>99 DEF MkdirFails
<1>4. CASE UNCHANGED mapVars /\ Measure(t)
  BY <1>4, <1>98, <1>99 DEF Measure
<1>5. CASE UNCHANGED mapVars /\ Leave(t)
  BY <1>5, <1>97, <1>98, <1>99 DEF Leave
<1>6. CASE build = "stdio" /\ UNCHANGED mapVars /\ OpenFails(t)
  BY <1>6, <1>98, <1>99 DEF OpenFails
<1>7. CASE build = "stdio" /\ UNCHANGED mapVars /\ GiveUp(t)
  BY <1>7, <1>98, <1>99 DEF GiveUp
<1>8. CASE build = "stdio" /\ UNCHANGED mapVars /\ Flock(t)
  BY <1>8, <1>98, <1>99 DEF Flock
<1>9. CASE build = "stdio" /\ UNCHANGED mapVars /\ OpenToRead(t)
  BY <1>9, <1>98, <1>99 DEF OpenToRead
<1>10. CASE build = "stdio" /\ UNCHANGED mapVars /\ FindExpired(t)
  BY <1>10, <1>98, <1>99 DEF FindExpired
<1>11. CASE build = "stdio" /\ UNCHANGED mapVars /\ FindFresh(t)
  BY <1>11, <1>98, <1>99 DEF FindFresh
<1>12. CASE build = "stdio" /\ UNCHANGED mapVars /\ Read(t)
  <2>1. \A u \in Thread : Answers(value'[u], call'[u].key)
    BY <1>12, <1>99, ReadAnswers DEF Read
  <2> QED
    BY <1>98, <2>1
<1>13. CASE build = "stdio" /\ UNCHANGED mapVars /\ Unlink(t)
  BY <1>13, <1>98, <1>99 DEF Unlink
<1>14. CASE build = "stdio" /\ UNCHANGED mapVars /\ OpenToWrite(t)
  BY <1>14, <1>98, <1>99 DEF OpenToWrite
<1>15. CASE build = "stdio" /\ UNCHANGED mapVars /\ Write(t)
  BY <1>15, <1>98, <1>99 DEF Write
<1>16. CASE build = "stdio" /\ UNCHANGED mapVars /\ Flush(t)
  BY <1>16, <1>98, <1>99 DEF Flush
<1>17. CASE build = "stdio" /\ UNCHANGED mapVars /\ DiskFull(t)
  BY <1>17, <1>98, <1>99 DEF DiskFull
<1>18. CASE build = "stdio" /\ UNCHANGED mapVars /\ Crash(t)
  BY <1>18, <1>97, <1>98, <1>99 DEF Crash, Killed
<1>19. CASE build = "mmap" /\ MapOpenFails(t)
  BY <1>19, <1>98, <1>99 DEF MapOpenFails
<1>20. CASE build = "mmap" /\ MapOpenToRead(t)
  BY <1>20, <1>98, <1>99 DEF MapOpenToRead
<1>21. CASE build = "mmap" /\ MapOpenToWrite(t)
  BY <1>21, <1>98, <1>99 DEF MapOpenToWrite
<1>22. CASE build = "mmap" /\ MapFlock(t)
  BY <1>22, <1>98, <1>99 DEF MapFlock
<1>23. CASE build = "mmap" /\ MapGiveUp(t)
  BY <1>23, <1>98, <1>99 DEF MapGiveUp
<1>24. CASE build = "mmap" /\ MapRead(t)
  <2>1. \A u \in Thread : Answers(value'[u], call'[u].key)
    BY <1>24, <1>99, ReadAnswers DEF MapRead
  <2> QED
    BY <1>98, <2>1
<1>25. CASE build = "mmap" /\ MapNoCopy(t)
  BY <1>25, <1>98, <1>99 DEF MapNoCopy
<1>26. CASE build = "mmap" /\ MapTruncate(t)
  BY <1>26, <1>98, <1>99 DEF MapTruncate
<1>27. CASE build = "mmap" /\ MapCopy(t)
  BY <1>27, <1>98, <1>99 DEF MapCopy
<1>28. CASE build = "mmap" /\ MapClose(t)
  BY <1>28, <1>98, <1>99 DEF MapClose
<1>29. CASE build = "mmap" /\ MapCrash(t)
  BY <1>29, <1>97, <1>98, <1>99 DEF MapCrash, Killed
<1> QED
  BY <1>1, <1>2, <1>3, <1>4, <1>5, <1>6, <1>7, <1>8, <1>9, <1>10, <1>11,
     <1>12, <1>13, <1>14, <1>15, <1>16, <1>17, <1>18, <1>19, <1>20, <1>21,
     <1>22, <1>23, <1>24, <1>25, <1>26, <1>27, <1>28, <1>29
     DEF ProcessStep, BothSteps, StdioSteps, MapSteps

LEMMA AnswerStep ==
  ASSUME FileTypeOK, Places, TextsFit, OfValues, [BuildNext]_buildVars
  PROVE  OfValues'
<1>1. CASE UNCHANGED buildVars
  BY <1>1 DEF buildVars, mapVars, vars, interface, OfValues
<1>2. CASE build' = build /\ UNCHANGED mapVars /\ Tick
  BY <1>2 DEF Tick, interface, OfValues
<1> QED
  BY <1>1, <1>2, AnswerStepByProcess, StepCases

(* A step of one process leaves the others where they are.                 *)
Same(u) ==
  /\ call'[u] = call[u] /\ at'[u] = at[u] /\ file'[u] = file[u]
  /\ value'[u] = value[u] /\ len'[u] = len[u]

LEMMA OthersByProcess ==
  ASSUME FileTypeOK, NEW t \in Thread, ProcessStep(t)
  PROVE  \A u \in Thread \ {t} : Same(u)
<1>0. /\ call = [u \in Thread |-> call[u]] /\ at = [u \in Thread |-> at[u]]
      /\ file = [u \in Thread |-> file[u]] /\ value = [u \in Thread |-> value[u]]
      /\ len = [u \in Thread |-> len[u]]
  BY DEF FileTypeOK, BuildTypeOK, TypeOK
<1> USE DEF Goto, Opened, Closed, files, interface, mapVars
<1>1. CASE UNCHANGED mapVars /\ Client(t)
  BY <1>0, <1>1 DEF Client, ClientNext, Invoke, Collect, Same
<1>2. CASE UNCHANGED mapVars /\ Enter(t)
  BY <1>0, <1>2 DEF Enter, Same
<1>3. CASE UNCHANGED mapVars /\ MkdirFails(t)
  BY <1>0, <1>3 DEF MkdirFails, Same
<1>4. CASE UNCHANGED mapVars /\ Measure(t)
  BY <1>0, <1>4 DEF Measure, Same
<1>5. CASE UNCHANGED mapVars /\ Leave(t)
  BY <1>0, <1>5 DEF Leave, Same
<1>6. CASE build = "stdio" /\ UNCHANGED mapVars /\ OpenFails(t)
  BY <1>0, <1>6 DEF OpenFails, Same
<1>7. CASE build = "stdio" /\ UNCHANGED mapVars /\ GiveUp(t)
  BY <1>0, <1>7 DEF GiveUp, Same
<1>8. CASE build = "stdio" /\ UNCHANGED mapVars /\ Flock(t)
  BY <1>0, <1>8 DEF Flock, Same
<1>9. CASE build = "stdio" /\ UNCHANGED mapVars /\ OpenToRead(t)
  BY <1>0, <1>9 DEF OpenToRead, Same
<1>10. CASE build = "stdio" /\ UNCHANGED mapVars /\ FindExpired(t)
  BY <1>0, <1>10 DEF FindExpired, Same
<1>11. CASE build = "stdio" /\ UNCHANGED mapVars /\ FindFresh(t)
  BY <1>0, <1>11 DEF FindFresh, Same
<1>12. CASE build = "stdio" /\ UNCHANGED mapVars /\ Read(t)
  BY <1>0, <1>12 DEF Read, Same
<1>13. CASE build = "stdio" /\ UNCHANGED mapVars /\ Unlink(t)
  BY <1>0, <1>13 DEF Unlink, Same
<1>14. CASE build = "stdio" /\ UNCHANGED mapVars /\ OpenToWrite(t)
  <2>1. PICK f : Opened(t, f)
    BY <1>14 DEF OpenToWrite
  <2> QED
    BY <1>0, <1>14, <2>1 DEF OpenToWrite, Same
<1>15. CASE build = "stdio" /\ UNCHANGED mapVars /\ Write(t)
  BY <1>0, <1>15 DEF Write, Same
<1>16. CASE build = "stdio" /\ UNCHANGED mapVars /\ Flush(t)
  BY <1>0, <1>16 DEF Flush, Same
<1>17. CASE build = "stdio" /\ UNCHANGED mapVars /\ DiskFull(t)
  BY <1>0, <1>17 DEF DiskFull, Same
<1>18. CASE build = "stdio" /\ UNCHANGED mapVars /\ Crash(t)
  BY <1>0, <1>18 DEF Crash, Same, Killed
<1>19. CASE build = "mmap" /\ MapOpenFails(t)
  BY <1>0, <1>19 DEF MapOpenFails, Same
<1>20. CASE build = "mmap" /\ MapOpenToRead(t)
  BY <1>0, <1>20 DEF MapOpenToRead, Same
<1>21. CASE build = "mmap" /\ MapOpenToWrite(t)
  <2>1. PICK f : Opened(t, f)
    BY <1>21 DEF MapOpenToWrite
  <2> QED
    BY <1>0, <1>21, <2>1 DEF MapOpenToWrite, Same
<1>22. CASE build = "mmap" /\ MapFlock(t)
  BY <1>0, <1>22 DEF MapFlock, Same
<1>23. CASE build = "mmap" /\ MapGiveUp(t)
  BY <1>0, <1>23 DEF MapGiveUp, Same
<1>24. CASE build = "mmap" /\ MapRead(t)
  BY <1>0, <1>24 DEF MapRead, Same
<1>25. CASE build = "mmap" /\ MapNoCopy(t)
  BY <1>0, <1>25 DEF MapNoCopy, Same
<1>26. CASE build = "mmap" /\ MapTruncate(t)
  BY <1>0, <1>26 DEF MapTruncate, Same
<1>27. CASE build = "mmap" /\ MapCopy(t)
  BY <1>0, <1>27 DEF MapCopy, Same
<1>28. CASE build = "mmap" /\ MapClose(t)
  BY <1>0, <1>28 DEF MapClose, Same
<1>29. CASE build = "mmap" /\ MapCrash(t)
  BY <1>0, <1>29 DEF MapCrash, Same, Killed
<1> QED
  BY <1>1, <1>2, <1>3, <1>4, <1>5, <1>6, <1>7, <1>8, <1>9, <1>10, <1>11,
     <1>12, <1>13, <1>14, <1>15, <1>16, <1>17, <1>18, <1>19, <1>20, <1>21,
     <1>22, <1>23, <1>24, <1>25, <1>26, <1>27, <1>28, <1>29
     DEF ProcessStep, BothSteps, StdioSteps, MapSteps

-----------------------------------------------------------------------------
(* With stdio: a clean file has a whole value of its key at rest, and at   *)
(* most one writer, whose progress its text shows.                         *)
WrittenSoFar(t) ==
  text[file[t]] = IF at[t] = "flush" THEN Direct(call[t].val) ELSE <<>>
Writing(u, f) == file[u] = f /\ call[u].op = "set"
CleanFile(f, k) ==
  /\ (\A u \in Thread : ~Writing(u, f)) => <<k, text[f]>> \in offered
  /\ \A t, u \in Thread : Writing(t, f) /\ Writing(u, f) => t = u
  /\ \A t \in Thread : Writing(t, f) => WrittenSoFar(t)
StdioClean ==
  build = "stdio" => \A f \in clean, k \in Key : Holds(f, k) => CleanFile(f, k)

(* A get no writer has disturbed has such a file, or its first line.       *)
QuietGet(t) ==
  /\ call[t].op = "get" /\ at[t] \notin {"out", "open", "unlink"}
  /\ file[t] # NoInode =>
       /\ \A u \in Thread : ~Writing(u, file[t])
       /\ <<call[t].key, text[file[t]]>> \in offered
       /\ at[t] = "read" => len[t] = Len(text[file[t]])
  /\ value[t] # NoValue =>
       \E e \in offered : e[1] = call[t].key /\ value[t] = AsString(Line(e[2]))
StdioQuiet == build = "stdio" => \A t \in quiet : QuietGet(t)

(* A clean file stays one if nothing is written to it, and no writer comes *)
(* or goes.                                                                *)
SameWriter(u, f) ==
  /\ Writing(u, f)' <=> Writing(u, f)
  /\ Writing(u, f) => call'[u] = call[u] /\ (at'[u] = "flush" <=> at[u] = "flush")

LEMMA CleanKept ==
  ASSUME StdioClean, offered \subseteq offered', build = "stdio",
         NEW f \in clean, NEW k \in Key, Holds(f, k),
         text'[f] = text[f], \A u \in Thread : SameWriter(u, f)
  PROVE  CleanFile(f, k)'
<1>1. CleanFile(f, k)
  BY DEF StdioClean
<1>2. \A u \in Thread : Writing(u, f)' <=> Writing(u, f)
  BY DEF SameWriter
<1>3. (\A u \in Thread : ~Writing(u, f)') => <<k, text'[f]>> \in offered'
  BY <1>1, <1>2 DEF CleanFile
<1>4. \A t, u \in Thread : Writing(t, f)' /\ Writing(u, f)' => t = u
  BY <1>1, <1>2 DEF CleanFile
<1>5. ASSUME NEW t \in Thread, Writing(t, f)'
      PROVE  WrittenSoFar(t)'
  <2>1. Writing(t, f) /\ WrittenSoFar(t) /\ file[t] = f /\ file'[t] = f
    BY <1>1, <1>2, <1>5 DEF CleanFile, Writing
  <2> QED
    BY <2>1 DEF SameWriter, WrittenSoFar
<1> QED
  BY <1>3, <1>4, <1>5 DEF CleanFile

(* So all of them do if the step is not the fopen of a set, and what it    *)
(* writes is none of them.                                                 *)
LEMMA AllCleanKept ==
  ASSUME FileTypeOK, Places, StdioClean, NEW t \in Thread, ProcessStep(t), build = "stdio",
         at[t] = "open" /\ call[t].op = "set" => file'[t] = NoInode,
         NEW f \in clean, NEW k \in Key, Holds(f, k)', text'[f] = text[f], SameWriter(t, f)
  PROVE  CleanFile(f, k)'
<1>1. f \in Inode /\ NoInode \notin Inode
  BY FileAssumption DEF FileTypeOK, BuildTypeOK, TypeOK
<1>2. Holds(f, k)
  BY <1>1, HoldsStepByProcess DEF Founded
<1>3. \A u \in Thread : SameWriter(u, f)
  BY OthersByProcess DEF SameWriter, Writing, Same
<1>4. offered \subseteq offered'
  BY TextByProcess
<1> QED
  BY <1>2, <1>3, <1>4, CleanKept

LEMMA StdioCleanStepByProcess ==
  ASSUME FileTypeOK, Places, OneKey, StdioClean, NEW t \in Thread, ProcessStep(t)
  PROVE  StdioClean'
<1>0. AtPlace(t) /\ (at[t] # "out" => InCall(t)) /\ build' = build
  BY CallInHand DEF Places, AtPlace, ProcessStep
<1>99. /\ file = [u \in Thread |-> file[u]] /\ call = [u \in Thread |-> call[u]]
       /\ at = [u \in Thread |-> at[u]] /\ text = [f \in Inode |-> text[f]]
       /\ clean \subseteq Inode /\ NoInode \notin Inode
       /\ dir \in [Key -> Inode \cup {NoInode}]
  BY FileAssumption DEF FileTypeOK, BuildTypeOK, TypeOK
<1> USE DEF Goto, Opened, Closed, files, interface, mapVars
<1>1. CASE UNCHANGED mapVars /\ Client(t)
  <2>1. /\ text' = text /\ clean' = clean /\ file' = file /\ file[t] = NoInode /\ at[t] = "out"
    BY <1>0, <1>1, <1>99 DEF Client, ClientNext, Invoke, Collect, AtPlace, HasFile
  <2>2. \A f \in clean' : SameWriter(t, f)
    BY <1>99, <2>1 DEF SameWriter, Writing
  <2> QED
    BY <1>0, <2>1, <2>2, AllCleanKept DEF StdioClean
<1>2. CASE UNCHANGED mapVars /\ Enter(t)
  <2>1. /\ text' = text /\ clean' \subseteq clean
        /\ at[t] = "open" /\ call[t].op = "set" => file'[t] = NoInode
    BY <1>0, <1>2, <1>99 DEF Enter, AtPlace, HasFile
  <2>2. \A f \in clean' : SameWriter(t, f)
    BY <1>0, <1>2, <1>99, <2>1 DEF Enter, AtPlace, HasFile, SameWriter, Writing
  <2> QED
    BY <1>0, <1>2, <2>1, <2>2, AllCleanKept DEF StdioClean
<1>3. CASE UNCHANGED mapVars /\ MkdirFails(t)
  <2>1. /\ text' = text /\ clean' \subseteq clean
        /\ at[t] = "open" /\ call[t].op = "set" => file'[t] = NoInode
    BY <1>0, <1>3, <1>99 DEF MkdirFails, AtPlace, HasFile
  <2>2. \A f \in clean' : SameWriter(t, f)
    BY <1>0, <1>3, <1>99, <2>1 DEF MkdirFails, AtPlace, HasFile, SameWriter, Writing
  <2> QED
    BY <1>0, <1>3, <2>1, <2>2, AllCleanKept DEF StdioClean
<1>4. CASE UNCHANGED mapVars /\ Measure(t)
  <2>1. /\ text' = text /\ clean' \subseteq clean
        /\ at[t] = "open" /\ call[t].op = "set" => file'[t] = NoInode
    BY <1>0, <1>4, <1>99 DEF Measure, AtPlace, HasFile
  <2>2. \A f \in clean' : SameWriter(t, f)
    BY <1>0, <1>4, <1>99, <2>1 DEF Measure, AtPlace, HasFile, SameWriter, Writing
  <2> QED
    BY <1>0, <1>4, <2>1, <2>2, AllCleanKept DEF StdioClean
<1>5. CASE UNCHANGED mapVars /\ Leave(t)
  <2>1. /\ text' = text /\ clean' \subseteq clean
        /\ at[t] = "open" /\ call[t].op = "set" => file'[t] = NoInode
    BY <1>0, <1>5, <1>99 DEF Leave, AtPlace, HasFile
  <2>2. \A f \in clean' : SameWriter(t, f)
    BY <1>0, <1>5, <1>99, <2>1 DEF Leave, AtPlace, HasFile, SameWriter, Writing
  <2> QED
    BY <1>0, <1>5, <2>1, <2>2, AllCleanKept DEF StdioClean
<1>6. CASE build = "stdio" /\ UNCHANGED mapVars /\ OpenFails(t)
  <2>1. /\ text' = text /\ clean' \subseteq clean
        /\ at[t] = "open" /\ call[t].op = "set" => file'[t] = NoInode
    BY <1>0, <1>6, <1>99 DEF OpenFails, AtPlace, HasFile, AfterAttempt
  <2>2. \A f \in clean' : SameWriter(t, f)
    BY <1>0, <1>6, <1>99, <2>1 DEF OpenFails, AtPlace, HasFile, SameWriter, Writing,
       AfterAttempt
  <2> QED
    BY <1>0, <1>6, <2>1, <2>2, AllCleanKept DEF StdioClean
<1>7. CASE build = "stdio" /\ UNCHANGED mapVars /\ GiveUp(t)
  <2>1. /\ text' = text /\ clean' \subseteq clean
        /\ at[t] = "open" /\ call[t].op = "set" => file'[t] = NoInode
    BY <1>0, <1>7, <1>99 DEF GiveUp, AtPlace, HasFile
  <2>2. \A f \in clean' : SameWriter(t, f)
    BY <1>0, <1>7, <1>99, <2>1 DEF GiveUp, AtPlace, HasFile, SameWriter, Writing
  <2> QED
    BY <1>0, <1>7, <2>1, <2>2, AllCleanKept DEF StdioClean
<1>8. CASE build = "stdio" /\ UNCHANGED mapVars /\ Flock(t)
  <2>1. /\ text' = text /\ clean' \subseteq clean
        /\ at[t] = "open" /\ call[t].op = "set" => file'[t] = NoInode
    BY <1>0, <1>8, <1>99 DEF Flock, AtPlace, HasFile
  <2>2. \A f \in clean' : SameWriter(t, f)
    BY <1>0, <1>8, <1>99, <2>1 DEF Flock, AtPlace, HasFile, SameWriter, Writing
  <2> QED
    BY <1>0, <1>8, <2>1, <2>2, AllCleanKept DEF StdioClean
<1>9. CASE build = "stdio" /\ UNCHANGED mapVars /\ OpenToRead(t)
  <2>1. /\ text' = text /\ clean' \subseteq clean
        /\ at[t] = "open" /\ call[t].op = "set" => file'[t] = NoInode
    BY <1>0, <1>9, <1>99 DEF OpenToRead, AtPlace, HasFile
  <2>2. \A f \in clean' : SameWriter(t, f)
    BY <1>0, <1>9, <1>99, <2>1 DEF OpenToRead, AtPlace, HasFile, SameWriter, Writing
  <2> QED
    BY <1>0, <1>9, <2>1, <2>2, AllCleanKept DEF StdioClean
<1>10. CASE build = "stdio" /\ UNCHANGED mapVars /\ FindExpired(t)
  <2>1. /\ text' = text /\ clean' \subseteq clean
        /\ at[t] = "open" /\ call[t].op = "set" => file'[t] = NoInode
    BY <1>0, <1>10, <1>99 DEF FindExpired, AtPlace, HasFile
  <2>2. \A f \in clean' : SameWriter(t, f)
    BY <1>0, <1>10, <1>99, <2>1 DEF FindExpired, AtPlace, HasFile, SameWriter, Writing
  <2> QED
    BY <1>0, <1>10, <2>1, <2>2, AllCleanKept DEF StdioClean
<1>11. CASE build = "stdio" /\ UNCHANGED mapVars /\ FindFresh(t)
  <2>1. /\ text' = text /\ clean' \subseteq clean
        /\ at[t] = "open" /\ call[t].op = "set" => file'[t] = NoInode
    BY <1>0, <1>11, <1>99 DEF FindFresh, AtPlace, HasFile
  <2>2. \A f \in clean' : SameWriter(t, f)
    BY <1>0, <1>11, <1>99, <2>1 DEF FindFresh, AtPlace, HasFile, SameWriter, Writing
  <2> QED
    BY <1>0, <1>11, <2>1, <2>2, AllCleanKept DEF StdioClean
<1>12. CASE build = "stdio" /\ UNCHANGED mapVars /\ Read(t)
  <2>1. /\ text' = text /\ clean' \subseteq clean
        /\ at[t] = "open" /\ call[t].op = "set" => file'[t] = NoInode
    BY <1>0, <1>12, <1>99 DEF Read, AtPlace, HasFile
  <2>2. \A f \in clean' : SameWriter(t, f)
    BY <1>0, <1>12, <1>99, <2>1 DEF Read, AtPlace, HasFile, SameWriter, Writing
  <2> QED
    BY <1>0, <1>12, <2>1, <2>2, AllCleanKept DEF StdioClean
<1>13. CASE build = "stdio" /\ UNCHANGED mapVars /\ Unlink(t)
  <2>1. /\ text' = text /\ clean' \subseteq clean
        /\ at[t] = "open" /\ call[t].op = "set" => file'[t] = NoInode
    BY <1>0, <1>13, <1>99 DEF Unlink, AtPlace, HasFile
  <2>2. \A f \in clean' : SameWriter(t, f)
    BY <1>0, <1>13, <1>99, <2>1 DEF Unlink, AtPlace, HasFile, SameWriter, Writing
  <2> QED
    BY <1>0, <1>13, <2>1, <2>2, AllCleanKept DEF StdioClean
<1>14. CASE build = "stdio" /\ UNCHANGED mapVars /\ OpenToWrite(t)
  <2>0. PICK f \in (IF dir[call[t].key] = NoInode THEN Unused ELSE {dir[call[t].key]}) :
          /\ text' = [text EXCEPT ![f] = <<>>]
          /\ file' = [file EXCEPT ![t] = f]
          /\ clean' = IF Writers(f) = {} THEN clean \cup {f} ELSE clean \ {f}
    BY <1>14 DEF OpenToWrite
  <2>1. /\ call[t].key \in Key /\ call' = call /\ call[t].op = "set" /\ at' = [at EXCEPT ![t] = "lock"]
        /\ f \in Inode /\ file[t] = NoInode /\ f # NoInode
        /\ text' = [text EXCEPT ![f] = <<>>]
        /\ file' = [file EXCEPT ![t] = f]
        /\ clean' \subseteq clean \cup {f}
    BY <1>0, <1>14, <1>99, <2>0 DEF OpenToWrite, Unused, InCall, AtPlace, HasFile
  <2>2. ASSUME NEW g \in clean', g # f, NEW k \in Key, Holds(g, k)'
        PROVE  CleanFile(g, k)'
    <3>1. g \in clean /\ g \in Inode /\ text'[g] = text[g] /\ Holds(g, k)
      BY <1>99, <2>1, <2>2, HoldsStepByProcess DEF Founded
    <3>2. SameWriter(t, g)
      BY <1>99, <2>1, <2>2, <3>1 DEF SameWriter, Writing
    <3>3. \A u \in Thread : SameWriter(u, g)
      BY <3>2, OthersByProcess DEF SameWriter, Writing, Same
    <3>4. offered \subseteq offered'
      BY TextByProcess
    <3> QED
      BY <1>14, <3>1, <3>3, <3>4, CleanKept
  <2>3. ASSUME f \in clean', NEW k \in Key
        PROVE  CleanFile(f, k)'
    <3>1. \A u \in Thread : ~Writing(u, f)
      BY <2>0, <2>3 DEF Writers, Writing
    <3>2. \A u \in Thread : Writing(u, f)' <=> u = t
      BY <1>99, <2>1, <3>1 DEF Writing
    <3>3. WrittenSoFar(t)'
      BY <1>99, <2>1 DEF WrittenSoFar
    <3> QED
      BY <3>2, <3>3 DEF CleanFile
  <2> QED
    BY <2>2, <2>3 DEF StdioClean
<1>15. CASE build = "stdio" /\ UNCHANGED mapVars /\ Write(t)
  <2>0. PICK f \in Inode, v \in Seq(Char) : f = file[t] /\ v = call[t].val
    BY <1>0, <1>15 DEF Write, AtPlace, InCall, HasFile
  <2>1. /\ f = file[t] /\ v = call[t].val /\ call[t].op = "set" /\ call' = call /\ file' = file
        /\ clean' = clean /\ at' = [at EXCEPT ![t] = "flush"] /\ at[t] = "write"
        /\ text' = [text EXCEPT ![f] = Overlay(Direct(v), 0, @)]
    BY <1>0, <1>15, <2>0 DEF Write, Written, AtPlace, InCall, HasFile
  <2>2. ASSUME NEW g \in clean', g # f, NEW k \in Key, Holds(g, k)'
        PROVE  CleanFile(g, k)'
    <3>1. g \in clean /\ g \in Inode /\ text'[g] = text[g] /\ Holds(g, k)
      BY <1>99, <2>1, <2>2, HoldsStepByProcess DEF Founded
    <3>2. SameWriter(t, g)
      BY <1>99, <2>1, <2>2, <3>1 DEF SameWriter, Writing
    <3>3. \A u \in Thread : SameWriter(u, g)
      BY <3>2, OthersByProcess DEF SameWriter, Writing, Same
    <3>4. offered \subseteq offered'
      BY TextByProcess
    <3> QED
      BY <1>15, <3>1, <3>3, <3>4, CleanKept
  <2>3. ASSUME f \in clean', NEW k \in Key, Holds(f, k)'
        PROVE  CleanFile(f, k)'
    <3>1. Holds(f, k)
      BY <2>1, <2>3, HoldsStepByProcess DEF Founded
    <3>2. CleanFile(f, k) /\ Writing(t, f)
      BY <1>15, <2>1, <2>3, <3>1 DEF StdioClean, Writing
    <3>3. text[f] = <<>> /\ \A u \in Thread : Writing(u, f) => u = t
      BY <2>1, <3>2 DEF CleanFile, WrittenSoFar
    <3>4. \A u \in Thread : Writing(u, f)' <=> u = t
      BY <2>1, <3>2, <3>3 DEF Writing
    <3>5. text'[f] = Direct(v)
      BY <1>99, <2>1, <3>3, WholeWrite DEF Char
    <3>6. WrittenSoFar(t)'
      BY <1>99, <2>1, <3>5 DEF WrittenSoFar
    <3> QED
      BY <3>4, <3>6 DEF CleanFile
  <2> QED
    BY <2>2, <2>3 DEF StdioClean
<1>16. CASE build = "stdio" /\ UNCHANGED mapVars /\ Flush(t)
  <2>0. PICK f \in Inode, v \in Seq(Char) : f = file[t] /\ v = call[t].val
    BY <1>0, <1>16 DEF Flush, AtPlace, InCall, HasFile
  <2>1. /\ f = file[t] /\ v = call[t].val /\ call[t].op = "set" /\ call' = call
        /\ file' = [file EXCEPT ![t] = NoInode]
        /\ clean' = clean /\ at' = [at EXCEPT ![t] = "leave"] /\ at[t] = "flush"
        /\ text' = [text EXCEPT ![f] = Overlay(Rest(v), Len(Direct(v)), @)]
        /\ <<call[t].key, v>> \in offered /\ offered' = offered /\ call[t].key \in Key
    BY <1>0, <1>16, <2>0 DEF Flush, Written, AtPlace, InCall, HasFile
  <2>2. ASSUME NEW g \in clean', g # f, NEW k \in Key, Holds(g, k)'
        PROVE  CleanFile(g, k)'
    <3>1. g \in clean /\ g \in Inode /\ text'[g] = text[g] /\ Holds(g, k)
      BY <1>99, <2>1, <2>2, HoldsStepByProcess DEF Founded
    <3>2. SameWriter(t, g)
      BY <1>99, <2>1, <2>2, <3>1 DEF SameWriter, Writing
    <3>3. \A u \in Thread : SameWriter(u, g)
      BY <3>2, OthersByProcess DEF SameWriter, Writing, Same
    <3>4. offered \subseteq offered'
      BY TextByProcess
    <3> QED
      BY <1>16, <3>1, <3>3, <3>4, CleanKept
  <2>3. ASSUME f \in clean', NEW k \in Key, Holds(f, k)'
        PROVE  CleanFile(f, k)'
    <3>1. Holds(f, k) /\ Holds(f, call[t].key)
      BY <2>1, <2>3, HoldsStepByProcess DEF Founded, Holds
    <3>2. k = call[t].key
      BY <2>1, <3>1 DEF OneKey
    <3>3. CleanFile(f, k) /\ Writing(t, f)
      BY <1>16, <2>1, <2>3, <3>1 DEF StdioClean, Writing
    <3>4. text[f] = Direct(v) /\ \A u \in Thread : Writing(u, f) => u = t
      BY <2>1, <3>3 DEF CleanFile, WrittenSoFar
    <3>5. text'[f] = v
      BY <1>99, <2>1, <3>4, WholeWrite DEF Char
    <3>6. \A u \in Thread : ~Writing(u, f)'
      BY <1>99, <2>1, <3>4 DEF Writing
    <3> QED
      BY <2>1, <3>2, <3>5, <3>6 DEF CleanFile
  <2> QED
    BY <2>2, <2>3 DEF StdioClean
<1>17. CASE build = "stdio" /\ UNCHANGED mapVars /\ DiskFull(t)
  <2>1. /\ clean' = clean \ {file[t]} /\ at[t] # "open" /\ call[t].op = "set"
        /\ file[t] \in Inode /\ file' = [file EXCEPT ![t] = NoInode]
        /\ \E x : text' = [text EXCEPT ![file[t]] = x]
    <3>1. call[t].val \in Seq(Char)
      BY <1>0, <1>17 DEF DiskFull, AtPlace, InCall
    <3>2. \E x : text' = [text EXCEPT ![file[t]] = x]
      BY <1>17, <3>1, ShortWrite
    <3> QED
      BY <1>0, <1>17, <3>2 DEF DiskFull, AtPlace, InCall, HasFile
  <2>2. \A f \in clean' : f \in clean /\ text'[f] = text[f] /\ SameWriter(t, f)
    BY <1>99, <2>1 DEF SameWriter, Writing
  <2> QED
    BY <1>0, <1>17, <2>1, <2>2, AllCleanKept DEF StdioClean
<1>18. CASE build = "stdio" /\ UNCHANGED mapVars /\ Crash(t)
  <2>1. /\ text' = text /\ clean' \subseteq clean
        /\ at[t] = "open" /\ call[t].op = "set" => file'[t] = NoInode
    BY <1>0, <1>18, <1>99 DEF Crash, AtPlace, HasFile, Killed, Writers
  <2>2. \A f \in clean' : SameWriter(t, f)
    BY <1>0, <1>18, <1>99, <2>1 DEF Crash, AtPlace, HasFile, SameWriter, Writing,
       Killed, Writers
  <2> QED
    BY <1>0, <1>18, <2>1, <2>2, AllCleanKept DEF StdioClean
<1>19. CASE build = "mmap"
  BY <1>0, <1>19 DEF StdioClean
<1> QED
  BY <1>1, <1>2, <1>3, <1>4, <1>5, <1>6, <1>7, <1>8, <1>9, <1>10, <1>11,
     <1>12, <1>13, <1>14, <1>15, <1>16, <1>17, <1>18, <1>19
     DEF ProcessStep, BothSteps, StdioSteps, MapSteps

LEMMA StdioCleanStep ==
  ASSUME FileTypeOK, Places, OneKey, StdioClean, [BuildNext]_buildVars
  PROVE  StdioClean'
<1>1. CASE UNCHANGED buildVars
  BY <1>1 DEF buildVars, mapVars, vars, files, interface, StdioClean, Holds, CleanFile,
     WrittenSoFar, Writing
<1>2. CASE build' = build /\ UNCHANGED mapVars /\ Tick
  BY <1>2 DEF Tick, interface, StdioClean, Holds, CleanFile, WrittenSoFar, Writing
<1> QED
  BY <1>1, <1>2, StdioCleanStepByProcess, StepCases

WritesTo(u, f) == file'[u] = f /\ call'[u].op = "set"

(* A quiet get stays one through the steps of others that write nothing to *)
(* its file.                                                               *)
LEMMA QuietKept ==
  ASSUME FileTypeOK, StdioQuiet, NEW t \in Thread, ProcessStep(t), Places,
         build = "stdio", NEW u \in quiet, u # t,
         file[u] # NoInode => text'[file[u]] = text[file[u]] /\ ~WritesTo(t, file[u])
  PROVE  QuietGet(u)'
<1>1. QuietGet(u) /\ u \in Thread
  BY DEF StdioQuiet, FileTypeOK, BuildTypeOK, TypeOK
<1>2. \A w \in Thread \ {t} : Same(w)
  BY OthersByProcess
<1>3. offered \subseteq offered'
  BY TextByProcess
<1>4. file[u] # NoInode => \A w \in Thread : ~WritesTo(w, file[u])
  <2>1. ASSUME file[u] # NoInode, NEW w \in Thread, w # t
        PROVE  ~WritesTo(w, file[u])
    BY <1>1, <1>2, <2>1 DEF QuietGet, Writing, WritesTo, Same
  <2> QED
    BY <2>1
<1>5. Same(u)
  BY <1>1, <1>2
<1> QED
  BY <1>1, <1>3, <1>4, <1>5 DEF QuietGet, Same, Writing, WritesTo

(* What fgets makes of a whole text.                                       *)
LEMMA GetsWhole ==
  ASSUME NEW s \in Seq(Char)
  PROVE  Gets(s, Len(s)) = AsString(Line(s))
<1>1. AtMost(s, Len(s)) = s
  BY DEF AtMost
<1>2. ~(s = <<>> /\ Len(s) > 0)
  OBVIOUS
<1> QED
  BY <1>1, <1>2 DEF Gets

LEMMA StdioQuietStepByProcess ==
  ASSUME FileTypeOK, Places, StdioClean, StdioQuiet, NEW t \in Thread, ProcessStep(t)
  PROVE  StdioQuiet'
<1>0. AtPlace(t) /\ (at[t] # "out" => InCall(t)) /\ build' = build
  BY CallInHand DEF Places, AtPlace, ProcessStep
<1>99. /\ file = [u \in Thread |-> file[u]] /\ call = [u \in Thread |-> call[u]]
       /\ at = [u \in Thread |-> at[u]] /\ text = [f \in Inode |-> text[f]]
       /\ len = [u \in Thread |-> len[u]] /\ value = [u \in Thread |-> value[u]]
       /\ clean \subseteq Inode /\ NoInode \notin Inode /\ quiet \subseteq Thread
       /\ file \in [Thread -> Inode \cup {NoInode}]
  BY FileAssumption DEF FileTypeOK, BuildTypeOK, TypeOK
<1>98. build = "stdio" => \A u \in quiet : QuietGet(u)
  BY DEF StdioQuiet
<1> USE DEF Goto, Opened, Closed, files, interface, mapVars
<1>1. CASE UNCHANGED mapVars /\ Client(t)
  <2>1. /\ text' = text /\ quiet' = quiet /\ file' = file /\ at[t] = "out" /\ file[t] = NoInode
    BY <1>0, <1>1 DEF Client, AtPlace, HasFile, ClientNext, Invoke, Collect
  <2>2. ASSUME build = "stdio", NEW u \in quiet'
        PROVE  QuietGet(u)'
    <3>1. u \in quiet /\ u # t /\ (file[u] # NoInode => ~WritesTo(t, file[u]))
      BY <1>98, <2>1, <2>2 DEF QuietGet, Writing, WritesTo
    <3> QED
      BY <2>1, <2>2, <3>1, QuietKept
  <2> QED
    BY <1>0, <2>2 DEF StdioQuiet
<1>2. CASE UNCHANGED mapVars /\ Enter(t)
  <2>1. /\ text' = text /\ quiet' \subseteq quiet
        /\ \A u \in quiet' \ {t} : file[u] # NoInode => ~WritesTo(t, file[u])
    BY <1>0, <1>2, <1>98, <1>99 DEF Enter, QuietGet, Writing, WritesTo, AtPlace, HasFile
  <2>2. build = "stdio" /\ t \in quiet' => QuietGet(t)'
    BY <1>0, <1>2, <1>98, <1>99 DEF Enter, QuietGet, Writing, WritesTo, AtPlace, HasFile
  <2> QED
    BY <1>0, <1>2, <1>98, <1>99, <2>1, <2>2, QuietKept DEF StdioQuiet
<1>3. CASE UNCHANGED mapVars /\ MkdirFails(t)
  <2>1. /\ text' = text /\ quiet' \subseteq quiet
        /\ \A u \in quiet' \ {t} : file[u] # NoInode => ~WritesTo(t, file[u])
    BY <1>0, <1>3, <1>98, <1>99 DEF MkdirFails, QuietGet, Writing, WritesTo, AtPlace,
       HasFile
  <2>2. build = "stdio" /\ t \in quiet' => QuietGet(t)'
    BY <1>0, <1>3, <1>98, <1>99 DEF MkdirFails, QuietGet, Writing, WritesTo, AtPlace,
       HasFile
  <2> QED
    BY <1>0, <1>3, <1>98, <1>99, <2>1, <2>2, QuietKept DEF StdioQuiet
<1>4. CASE UNCHANGED mapVars /\ Measure(t)
  <2>1. /\ text' = text /\ quiet' = quiet /\ UNCHANGED <<call, offered, value, file>>
        /\ at'[t] = "read" /\ len'[t] = Len(text[file[t]]) /\ at[t] = "size"
    BY <1>4, <1>99 DEF Measure
  <2>2. ASSUME build = "stdio", t \in quiet'
        PROVE  QuietGet(t)'
    BY <1>98, <2>1, <2>2 DEF QuietGet, Writing
  <2>3. ASSUME build = "stdio", NEW u \in quiet', u # t
        PROVE  QuietGet(u)'
    <3>1. u \in quiet /\ QuietGet(u) /\ (file[u] # NoInode => ~WritesTo(t, file[u]))
      BY <1>98, <2>1, <2>3 DEF QuietGet, Writing, WritesTo
    <3> QED
      BY <2>1, <2>3, <3>1, QuietKept
  <2> QED
    BY <1>0, <2>2, <2>3 DEF StdioQuiet
<1>5. CASE UNCHANGED mapVars /\ Leave(t)
  <2>1. /\ text' = text /\ quiet' \subseteq quiet
        /\ \A u \in quiet' \ {t} : file[u] # NoInode => ~WritesTo(t, file[u])
    BY <1>0, <1>5, <1>98, <1>99 DEF Leave, QuietGet, Writing, WritesTo, AtPlace, HasFile
  <2>2. t \in quiet' => QuietGet(t)'
    BY <1>0, <1>5, <1>98, <1>99 DEF Leave, QuietGet, Writing, WritesTo, AtPlace, HasFile
  <2> QED
    BY <1>0, <1>5, <1>98, <1>99, <2>1, <2>2, QuietKept DEF StdioQuiet
<1>6. CASE build = "stdio" /\ UNCHANGED mapVars /\ OpenFails(t)
  <2>1. /\ text' = text /\ quiet' \subseteq quiet
        /\ \A u \in quiet' \ {t} : file[u] # NoInode => ~WritesTo(t, file[u])
    BY <1>0, <1>6, <1>98, <1>99 DEF OpenFails, QuietGet, Writing, WritesTo, AtPlace,
       HasFile, AfterAttempt
  <2>2. t \in quiet' => QuietGet(t)'
    BY <1>0, <1>6, <1>98, <1>99 DEF OpenFails, QuietGet, Writing, WritesTo, AtPlace,
       HasFile, AfterAttempt
  <2> QED
    BY <1>0, <1>6, <1>98, <1>99, <2>1, <2>2, QuietKept DEF StdioQuiet
<1>7. CASE build = "stdio" /\ UNCHANGED mapVars /\ GiveUp(t)
  <2>1. /\ text' = text /\ quiet' \subseteq quiet
        /\ \A u \in quiet' \ {t} : file[u] # NoInode => ~WritesTo(t, file[u])
    BY <1>0, <1>7, <1>98, <1>99 DEF GiveUp, QuietGet, Writing, WritesTo, AtPlace,
       HasFile
  <2>2. t \in quiet' => QuietGet(t)'
    BY <1>0, <1>7, <1>98, <1>99 DEF GiveUp, QuietGet, Writing, WritesTo, AtPlace,
       HasFile
  <2> QED
    BY <1>0, <1>7, <1>98, <1>99, <2>1, <2>2, QuietKept DEF StdioQuiet
<1>8. CASE build = "stdio" /\ UNCHANGED mapVars /\ Flock(t)
  <2>1. /\ text' = text /\ quiet' \subseteq quiet
        /\ \A u \in quiet' \ {t} : file[u] # NoInode => ~WritesTo(t, file[u])
    BY <1>0, <1>8, <1>98, <1>99 DEF Flock, QuietGet, Writing, WritesTo, AtPlace, HasFile
  <2>2. t \in quiet' => QuietGet(t)'
    BY <1>0, <1>8, <1>98, <1>99 DEF Flock, QuietGet, Writing, WritesTo, AtPlace, HasFile
  <2> QED
    BY <1>0, <1>8, <1>98, <1>99, <2>1, <2>2, QuietKept DEF StdioQuiet
<1>9. CASE build = "stdio" /\ UNCHANGED mapVars /\ OpenToRead(t)
  <2>0. PICK f \in Inode, k \in Key : f = dir[k] /\ k = call[t].key /\ file' = [file EXCEPT ![t] = f]
    BY <1>0, <1>9, <1>99 DEF OpenToRead, AtPlace, InCall, FileTypeOK, BuildTypeOK,
       TypeOK
  <2>1. /\ text' = text /\ at[t] = "open" /\ quiet' \ {t} \subseteq quiet
        /\ call[t].op = "get" /\ at'[t] = "stat" /\ UNCHANGED <<call, offered, value>>
        /\ t \in quiet' => f \in clean /\ Writers(f) = {}
    BY <1>9, <1>98, <1>99, <2>0 DEF OpenToRead, QuietGet
  <2>2. ASSUME t \in quiet'
        PROVE  QuietGet(t)'
    <3>1. f \in clean /\ \A u \in Thread : ~Writing(u, f)
      BY <2>1, <2>2 DEF Writers, Writing
    <3>2. <<k, text[f]>> \in offered
      BY <1>9, <2>0, <3>1 DEF StdioClean, Holds, CleanFile
    <3>3. value'[t] = NoValue
      BY <1>0, <2>1 DEF AtPlace
    <3>4. file'[t] = f /\ \A u \in Thread : ~Writing(u, f)'
      BY <1>99, <2>0, <2>1, <3>1 DEF Writing
    <3> QED
      BY <2>0, <2>1, <3>2, <3>3, <3>4 DEF QuietGet, Writing
  <2>3. ASSUME NEW u \in quiet', u # t
        PROVE  QuietGet(u)'
    <3>1. u \in quiet /\ text' = text /\ ~WritesTo(t, file[u])
      BY <2>1, <2>3 DEF WritesTo
    <3> QED
      BY <1>0, <1>9, <2>3, <3>1, QuietKept
  <2> QED
    BY <2>2, <2>3 DEF StdioQuiet
<1>10. CASE build = "stdio" /\ UNCHANGED mapVars /\ FindExpired(t)
  <2>1. /\ text' = text /\ quiet' \subseteq quiet
        /\ \A u \in quiet' \ {t} : file[u] # NoInode => ~WritesTo(t, file[u])
    BY <1>0, <1>10, <1>98, <1>99 DEF FindExpired, QuietGet, Writing, WritesTo,
       AtPlace, HasFile
  <2>2. t \in quiet' => QuietGet(t)'
    BY <1>0, <1>10, <1>98, <1>99 DEF FindExpired, QuietGet, Writing, WritesTo,
       AtPlace, HasFile
  <2> QED
    BY <1>0, <1>10, <1>98, <1>99, <2>1, <2>2, QuietKept DEF StdioQuiet
<1>11. CASE build = "stdio" /\ UNCHANGED mapVars /\ FindFresh(t)
  <2>1. /\ text' = text /\ quiet' \subseteq quiet
        /\ \A u \in quiet' \ {t} : file[u] # NoInode => ~WritesTo(t, file[u])
    BY <1>0, <1>11, <1>98, <1>99 DEF FindFresh, QuietGet, Writing, WritesTo, AtPlace,
       HasFile
  <2>2. t \in quiet' => QuietGet(t)'
    BY <1>0, <1>11, <1>98, <1>99 DEF FindFresh, QuietGet, Writing, WritesTo, AtPlace,
       HasFile
  <2> QED
    BY <1>0, <1>11, <1>98, <1>99, <2>1, <2>2, QuietKept DEF StdioQuiet
<1>12. CASE build = "stdio" /\ UNCHANGED mapVars /\ Read(t)
  <2>1. /\ text' = text /\ quiet' = quiet /\ UNCHANGED <<call, offered>>
        /\ at'[t] = "leave" /\ value'[t] = Gets(text[file[t]], len[t]) /\ at[t] = "read"
        /\ file' = [file EXCEPT ![t] = NoInode] /\ file[t] \in Inode /\ call[t].op = "get"
    BY <1>0, <1>12, <1>99 DEF Read, AtPlace, InCall, HasFile
  <2>2. ASSUME t \in quiet'
        PROVE  QuietGet(t)'
    <3>1. /\ <<call[t].key, text[file[t]]>> \in offered /\ len[t] = Len(text[file[t]])
          /\ text[file[t]] \in Seq(Char)
      BY <1>12, <1>98, <1>99, <2>1, <2>2 DEF QuietGet, FileTypeOK
    <3>2. value'[t] = AsString(Line(text[file[t]]))
      BY <2>1, <3>1, GetsWhole
    <3>3. file'[t] = NoInode
      BY <1>99, <2>1
    <3>4. \E e \in offered : e[1] = call[t].key /\ value'[t] = AsString(Line(e[2]))
      BY <3>1, <3>2
    <3> QED
      BY <2>1, <3>3, <3>4 DEF QuietGet
  <2>3. ASSUME NEW u \in quiet', u # t
        PROVE  QuietGet(u)'
    <3>1. u \in quiet /\ ~WritesTo(t, file[u])
      BY <2>1, <2>3 DEF WritesTo
    <3> QED
      BY <1>0, <1>12, <2>1, <2>3, <3>1, QuietKept
  <2> QED
    BY <2>2, <2>3 DEF StdioQuiet
<1>13. CASE build = "stdio" /\ UNCHANGED mapVars /\ Unlink(t)
  <2>1. /\ text' = text /\ quiet' \subseteq quiet
        /\ \A u \in quiet' \ {t} : file[u] # NoInode => ~WritesTo(t, file[u])
    BY <1>0, <1>13, <1>98, <1>99 DEF Unlink, QuietGet, Writing, WritesTo, AtPlace,
       HasFile
  <2>2. t \in quiet' => QuietGet(t)'
    BY <1>0, <1>13, <1>98, <1>99 DEF Unlink, QuietGet, Writing, WritesTo, AtPlace,
       HasFile
  <2> QED
    BY <1>0, <1>13, <1>98, <1>99, <2>1, <2>2, QuietKept DEF StdioQuiet
<1>14. CASE build = "stdio" /\ UNCHANGED mapVars /\ OpenToWrite(t)
  <2>0. PICK f \in (IF dir[call[t].key] = NoInode THEN Unused ELSE {dir[call[t].key]}) :
          /\ text' = [text EXCEPT ![f] = <<>>]
          /\ file' = [file EXCEPT ![t] = f]
          /\ quiet' = {u \in quiet : file[u] # f}
    BY <1>14 DEF OpenToWrite
  <2>1. t \notin quiet /\ quiet' \subseteq quiet
    BY <1>14, <1>98, <2>0 DEF OpenToWrite, QuietGet
  <2>2. ASSUME NEW u \in quiet'
        PROVE  QuietGet(u)'
    <3>1. /\ u \in quiet /\ u # t /\ file[u] # f /\ file[u] \in Inode \cup {NoInode}
          /\ file'[u] = file[u] /\ file'[t] = f
      BY <1>99, <2>0, <2>1, <2>2
    <3>2. text'[file[u]] = text[file[u]] \/ file[u] = NoInode
      BY <1>99, <2>0, <3>1
    <3>3. ~WritesTo(t, file[u])
      BY <3>1 DEF WritesTo
    <3> QED
      BY <1>0, <1>14, <3>1, <3>2, <3>3, QuietKept
  <2> QED
    BY <2>2 DEF StdioQuiet
<1>15. CASE build = "stdio" /\ UNCHANGED mapVars /\ Write(t)
  <2>1. /\ quiet' = quiet /\ t \notin quiet
        /\ \A u \in quiet' \ {t} : file[u] # NoInode => text'[file[u]] = text[file[u]] /\ ~WritesTo(t, file[u])
    <3>1. Writing(t, file[t]) /\ call' = call /\ call[t].op = "set" /\ file[t] \in Inode
      BY <1>0, <1>15 DEF Write, AtPlace, InCall, HasFile, Writing
    <3>2. file'[t] \in {file[t], NoInode} /\ quiet' = quiet
          /\ \E x : text' = [text EXCEPT ![file[t]] = x]
      BY <1>0, <1>15, <1>99 DEF Write, Written
    <3>3. t \notin quiet /\ \A u \in quiet : file[u] # NoInode => file[u] # file[t]
      BY <1>15, <1>98, <1>99, <3>1 DEF QuietGet
    <3>4. \A u \in quiet \ {t} : file'[u] = file[u] /\ file[u] \in Inode \cup {NoInode}
      BY <1>99, OthersByProcess DEF Same
    <3> QED
      BY <1>99, <3>1, <3>2, <3>3, <3>4 DEF Writing, WritesTo
  <2> QED
    BY <1>0, <1>15, <2>1, QuietKept DEF StdioQuiet
<1>16. CASE build = "stdio" /\ UNCHANGED mapVars /\ Flush(t)
  <2>1. /\ quiet' = quiet /\ t \notin quiet
        /\ \A u \in quiet' \ {t} : file[u] # NoInode => text'[file[u]] = text[file[u]] /\ ~WritesTo(t, file[u])
    <3>1. Writing(t, file[t]) /\ call' = call /\ call[t].op = "set" /\ file[t] \in Inode
      BY <1>0, <1>16 DEF Flush, AtPlace, InCall, HasFile, Writing
    <3>2. file'[t] \in {file[t], NoInode} /\ quiet' = quiet
          /\ \E x : text' = [text EXCEPT ![file[t]] = x]
      BY <1>0, <1>16, <1>99 DEF Flush, Written
    <3>3. t \notin quiet /\ \A u \in quiet : file[u] # NoInode => file[u] # file[t]
      BY <1>16, <1>98, <1>99, <3>1 DEF QuietGet
    <3>4. \A u \in quiet \ {t} : file'[u] = file[u] /\ file[u] \in Inode \cup {NoInode}
      BY <1>99, OthersByProcess DEF Same
    <3> QED
      BY <1>99, <3>1, <3>2, <3>3, <3>4 DEF Writing, WritesTo
  <2> QED
    BY <1>0, <1>16, <2>1, QuietKept DEF StdioQuiet
<1>17. CASE build = "stdio" /\ UNCHANGED mapVars /\ DiskFull(t)
  <2>1. /\ quiet' = quiet /\ t \notin quiet
        /\ \A u \in quiet' \ {t} : file[u] # NoInode => text'[file[u]] = text[file[u]] /\ ~WritesTo(t, file[u])
    <3>1. Writing(t, file[t]) /\ call' = call /\ call[t].op = "set" /\ file[t] \in Inode
      BY <1>0, <1>17 DEF DiskFull, AtPlace, InCall, HasFile, Writing
    <3>2. file'[t] \in {file[t], NoInode} /\ quiet' = quiet
          /\ \E x : text' = [text EXCEPT ![file[t]] = x]
      <4>1. call[t].val \in Seq(Char)
        BY <1>0, <1>17 DEF DiskFull, AtPlace, InCall
      <4>2. \E x : text' = [text EXCEPT ![file[t]] = x]
        BY <1>17, <4>1, ShortWrite
      <4> QED
        BY <1>0, <1>17, <1>99, <4>2 DEF DiskFull
    <3>3. t \notin quiet /\ \A u \in quiet : file[u] # NoInode => file[u] # file[t]
      BY <1>17, <1>98, <1>99, <3>1 DEF QuietGet
    <3>4. \A u \in quiet \ {t} : file'[u] = file[u] /\ file[u] \in Inode \cup {NoInode}
      BY <1>99, OthersByProcess DEF Same
    <3> QED
      BY <1>99, <3>1, <3>2, <3>3, <3>4 DEF Writing, WritesTo
  <2> QED
    BY <1>0, <1>17, <2>1, QuietKept DEF StdioQuiet
<1>18. CASE build = "stdio" /\ UNCHANGED mapVars /\ Crash(t)
  <2>1. /\ text' = text /\ quiet' \subseteq quiet
        /\ \A u \in quiet' \ {t} : file[u] # NoInode => ~WritesTo(t, file[u])
    BY <1>0, <1>18, <1>98, <1>99 DEF Crash, QuietGet, Writing, WritesTo, AtPlace,
       HasFile, Killed
  <2>2. t \in quiet' => QuietGet(t)'
    BY <1>0, <1>18, <1>98, <1>99 DEF Crash, QuietGet, Writing, WritesTo, AtPlace,
       HasFile, Killed
  <2> QED
    BY <1>0, <1>18, <1>98, <1>99, <2>1, <2>2, QuietKept DEF StdioQuiet
<1>19. CASE build = "mmap"
  BY <1>0, <1>19 DEF StdioQuiet
<1> QED
  BY <1>1, <1>2, <1>3, <1>4, <1>5, <1>6, <1>7, <1>8, <1>9, <1>10, <1>11,
     <1>12, <1>13, <1>14, <1>15, <1>16, <1>17, <1>18, <1>19
     DEF ProcessStep, BothSteps, StdioSteps, MapSteps

LEMMA StdioQuietStep ==
  ASSUME FileTypeOK, Places, StdioClean, StdioQuiet, [BuildNext]_buildVars
  PROVE  StdioQuiet'
<1>1. CASE UNCHANGED buildVars
  BY <1>1 DEF buildVars, mapVars, vars, files, interface, StdioQuiet, QuietGet, Writing
<1>2. CASE build' = build /\ UNCHANGED mapVars /\ Tick
  BY <1>2 DEF Tick, interface, StdioQuiet, QuietGet, Writing
<1> QED
  BY <1>1, <1>2, StdioQuietStepByProcess, StepCases

-----------------------------------------------------------------------------
(* With a mapping: a clean file has a whole value of its key; a process    *)
(* that copies has the file to itself, in its length, and what it has      *)
(* copied so far; a get no writer has disturbed has a clean file, or what  *)
(* was in it.                                                              *)
MapClean ==
  build = "mmap" => \A f \in clean, k \in Key : Holds(f, k) => <<k, text[f]>> \in offered

Copying(t) ==
  /\ file[t] \notin clean
  /\ Len(text[file[t]]) = Len(call[t].val) /\ len[t] <= Len(call[t].val)
  /\ \A n \in 1 .. len[t] : text[file[t]][n] = call[t].val[n]
MapCopying == build = "mmap" => \A t \in Thread : at[t] = "copy" => Copying(t)

MapQuietGet(t) ==
  /\ call[t].op = "get" /\ at[t] \in {"size", "read", "leave"}
  /\ file[t] # NoInode => file[t] \in clean
  /\ value[t] # NoValue =>
       \E e \in offered : e[1] = call[t].key /\ value[t] = AsString(e[2])
MapQuiet == build = "mmap" => \A t \in quiet : MapQuietGet(t)

(* The places where a process has a file to itself.                        *)
LEMMA Alone ==
  ASSUME FileTypeOK, Places, Exclusive, NEW t \in Thread, at[t] \in {"write", "copy"},
         NEW u \in Thread, u # t, at[u] \in HasLock
  PROVE  file[u] # file[t]
<1>1. at[t] \in HasLock /\ call[t].op = "set"
  BY DEF HasLock, Places, AtPlace
<1>2. Mode(t) # "shared"
  BY <1>1 DEF Mode
<1> QED
  BY <1>1, <1>2 DEF Exclusive

LEMMA MapCleanStepByProcess ==
  ASSUME FileTypeOK, Places, OneKey, MapCopying, MapClean, NEW t \in Thread, ProcessStep(t)
  PROVE  MapClean'
<1>0. AtPlace(t) /\ (at[t] # "out" => InCall(t)) /\ build' = build
  BY CallInHand DEF Places, AtPlace, ProcessStep
<1>99. /\ file = [u \in Thread |-> file[u]] /\ call = [u \in Thread |-> call[u]]
       /\ at = [u \in Thread |-> at[u]] /\ text = [f \in Inode |-> text[f]]
       /\ len = [u \in Thread |-> len[u]] /\ value = [u \in Thread |-> value[u]]
       /\ clean \subseteq Inode /\ NoInode \notin Inode /\ quiet \subseteq Thread
       /\ file \in [Thread -> Inode \cup {NoInode}]
  BY FileAssumption DEF FileTypeOK, BuildTypeOK, TypeOK
<1>98. offered \subseteq offered' /\ \A u \in Thread \ {t} : Same(u)
  BY TextByProcess, OthersByProcess
<1> USE DEF Goto, Opened, Closed, files, interface, mapVars
<1>1. CASE UNCHANGED mapVars /\ Client(t)
  <2>1. /\ text' = text /\ clean' = clean /\ quiet' = quiet /\ file' = file /\ at' = at
        /\ at[t] = "out" /\ file[t] = NoInode
    BY <1>0, <1>1 DEF Client, AtPlace, HasFile, ClientNext, Invoke, Collect
  <2> QED
    BY <1>0, <1>98, <1>99, <2>1, HoldsStepByProcess DEF MapClean, Founded
<1>2. CASE UNCHANGED mapVars /\ Enter(t)
  <2>1. /\ text' = text /\ clean' = clean
        /\ at[t] = "open" /\ call[t].op = "set" => file'[t] = NoInode
    BY <1>0, <1>2, <1>99 DEF Enter, AtPlace, HasFile
  <2> QED
    BY <1>0, <1>98, <1>99, <2>1, HoldsStepByProcess DEF MapClean, Founded
<1>3. CASE UNCHANGED mapVars /\ MkdirFails(t)
  <2>1. /\ text' = text /\ clean' = clean
        /\ at[t] = "open" /\ call[t].op = "set" => file'[t] = NoInode
    BY <1>0, <1>3, <1>99 DEF MkdirFails, AtPlace, HasFile
  <2> QED
    BY <1>0, <1>98, <1>99, <2>1, HoldsStepByProcess DEF MapClean, Founded
<1>4. CASE UNCHANGED mapVars /\ Measure(t)
  <2>1. /\ text' = text /\ clean' = clean
        /\ at[t] = "open" /\ call[t].op = "set" => file'[t] = NoInode
    BY <1>0, <1>4, <1>99 DEF Measure, AtPlace, HasFile
  <2> QED
    BY <1>0, <1>98, <1>99, <2>1, HoldsStepByProcess DEF MapClean, Founded
<1>5. CASE UNCHANGED mapVars /\ Leave(t)
  <2>1. /\ text' = text /\ clean' = clean
        /\ at[t] = "open" /\ call[t].op = "set" => file'[t] = NoInode
    BY <1>0, <1>5, <1>99 DEF Leave, AtPlace, HasFile
  <2> QED
    BY <1>0, <1>98, <1>99, <2>1, HoldsStepByProcess DEF MapClean, Founded
<1>6. CASE build = "stdio"
  BY <1>0, <1>6 DEF MapClean
<1>7. CASE build = "mmap" /\ MapOpenFails(t)
  <2>1. /\ text' = text /\ clean' = clean
        /\ at[t] = "open" /\ call[t].op = "set" => file'[t] = NoInode
    BY <1>0, <1>7, <1>99 DEF MapOpenFails, AtPlace, HasFile
  <2> QED
    BY <1>0, <1>98, <1>99, <2>1, HoldsStepByProcess DEF MapClean, Founded
<1>8. CASE build = "mmap" /\ MapOpenToRead(t)
  <2>1. /\ text' = text /\ clean' = clean
        /\ at[t] = "open" /\ call[t].op = "set" => file'[t] = NoInode
    BY <1>0, <1>8, <1>99 DEF MapOpenToRead, AtPlace, HasFile
  <2> QED
    BY <1>0, <1>98, <1>99, <2>1, HoldsStepByProcess DEF MapClean, Founded
<1>9. CASE build = "mmap" /\ MapOpenToWrite(t)
  <2>1. PICK g \in Inode \cup {NoInode} : file' = [file EXCEPT ![t] = g]
    BY <1>0, <1>9, <1>99 DEF MapOpenToWrite, AtPlace, InCall, Unused, FileTypeOK,
       BuildTypeOK, TypeOK
  <2>2. \A f \in clean' : f \in clean /\ text'[f] = text[f] /\ ~(f \in Unused /\ file'[t] = f)
    <3>1. CASE Opened(t, dir[call[t].key]) /\ UNCHANGED <<dir, text, mtime, clean>> /\ dir[call[t].key] # NoInode
      BY <1>0, <1>9, <1>99, <3>1 DEF MapOpenToWrite, Unused, Named, InCall, AtPlace
    <3>2. CASE \E f \in Unused :
                 /\ text' = [text EXCEPT ![f] = <<>>]
                 /\ clean' = clean \ {f}
                 /\ Opened(t, f)
      BY <1>99, <3>2
    <3> QED
      BY <1>9, <3>1, <3>2 DEF MapOpenToWrite
  <2> QED
    BY <1>0, <1>98, <1>99, <2>2, HoldsStepByProcess DEF MapClean, Founded
<1>10. CASE build = "mmap" /\ MapFlock(t)
  <2>1. /\ text' = text /\ clean' = clean
        /\ at[t] = "open" /\ call[t].op = "set" => file'[t] = NoInode
    BY <1>0, <1>10, <1>99 DEF MapFlock, AtPlace, HasFile
  <2> QED
    BY <1>0, <1>98, <1>99, <2>1, HoldsStepByProcess DEF MapClean, Founded
<1>11. CASE build = "mmap" /\ MapGiveUp(t)
  <2>1. /\ text' = text /\ clean' = clean
        /\ at[t] = "open" /\ call[t].op = "set" => file'[t] = NoInode
    BY <1>0, <1>11, <1>99 DEF MapGiveUp, AtPlace, HasFile
  <2> QED
    BY <1>0, <1>98, <1>99, <2>1, HoldsStepByProcess DEF MapClean, Founded
<1>12. CASE build = "mmap" /\ MapRead(t)
  <2>1. /\ text' = text /\ clean' = clean
        /\ at[t] = "open" /\ call[t].op = "set" => file'[t] = NoInode
    BY <1>0, <1>12, <1>99 DEF MapRead, AtPlace, HasFile
  <2> QED
    BY <1>0, <1>98, <1>99, <2>1, HoldsStepByProcess DEF MapClean, Founded
<1>13. CASE build = "mmap" /\ MapNoCopy(t)
  <2>1. /\ text' = text /\ clean' = clean
        /\ at[t] = "open" /\ call[t].op = "set" => file'[t] = NoInode
    BY <1>0, <1>13, <1>99 DEF MapNoCopy, AtPlace, HasFile
  <2> QED
    BY <1>0, <1>98, <1>99, <2>1, HoldsStepByProcess DEF MapClean, Founded
<1>14. CASE build = "mmap" /\ MapTruncate(t)
  <2>1. /\ at[t] = "write" /\ clean' = clean \ {file[t]}
        /\ \E x : text' = [text EXCEPT ![file[t]] = x]
    BY <1>14 DEF MapTruncate
  <2> QED
    BY <1>0, <1>14, <1>98, <1>99, <2>1, HoldsStepByProcess DEF MapClean, Founded
<1>15. CASE build = "mmap" /\ MapCopy(t)
  <2>1. /\ at[t] = "copy" /\ clean' = clean
        /\ \E x : text' = [text EXCEPT ![file[t]] = x]
    BY <1>15 DEF MapCopy
  <2>2. file[t] \notin clean
    BY <1>15, <2>1 DEF MapCopying, Copying
  <2> QED
    BY <1>0, <1>15, <1>98, <1>99, <2>1, <2>2, HoldsStepByProcess DEF MapClean, Founded
<1>16. CASE build = "mmap" /\ MapClose(t)
  <2>0. PICK f \in Inode, v \in Seq(Char) : f = file[t] /\ v = call[t].val
    BY <1>0, <1>16 DEF MapClose, AtPlace, InCall, HasFile
  <2>1. /\ at[t] = "copy" /\ clean' = clean \cup {f} /\ text' = text /\ offered' = offered
        /\ <<call[t].key, v>> \in offered /\ call[t].key \in Key /\ len[t] = Len(v)
    BY <1>0, <1>16, <2>0 DEF MapClose, AtPlace, InCall
  <2>2. text[f] = v
    <3>1. text[f] \in Seq(Char) /\ Len(text[f]) = Len(v) /\ \A n \in 1 .. Len(v) : text[f][n] = v[n]
      BY <1>16, <2>0, <2>1 DEF MapCopying, Copying, FileTypeOK
    <3> QED
      BY <3>1
  <2>3. ASSUME NEW g \in clean', NEW k \in Key, Holds(g, k)'
        PROVE  <<k, text[g]>> \in offered
    <3>1. g \in Inode /\ Holds(g, k)
      BY <1>99, <2>1, <2>3, HoldsStepByProcess DEF Founded
    <3>2. CASE g = f
      <4>1. k = call[t].key
        BY <2>0, <2>1, <3>1, <3>2 DEF OneKey, Holds
      <4> QED
        BY <2>1, <2>2, <3>2, <4>1
    <3>3. CASE g # f
      BY <1>16, <2>1, <3>1, <3>3 DEF MapClean
    <3> QED
      BY <3>2, <3>3
  <2> QED
    BY <2>1, <2>3 DEF MapClean
<1>17. CASE build = "mmap" /\ MapCrash(t)
  <2>1. /\ text' = text /\ clean' = clean
        /\ at[t] = "open" /\ call[t].op = "set" => file'[t] = NoInode
    BY <1>0, <1>17, <1>99 DEF MapCrash, AtPlace, HasFile, Killed
  <2> QED
    BY <1>0, <1>98, <1>99, <2>1, HoldsStepByProcess DEF MapClean, Founded
<1> QED
  BY <1>1, <1>2, <1>3, <1>4, <1>5, <1>6, <1>7, <1>8, <1>9, <1>10, <1>11,
     <1>12, <1>13, <1>14, <1>15, <1>16, <1>17
     DEF ProcessStep, BothSteps, StdioSteps, MapSteps

LEMMA MapCleanStep ==
  ASSUME FileTypeOK, Places, OneKey, MapCopying, MapClean, [BuildNext]_buildVars
  PROVE  MapClean'
<1>1. CASE UNCHANGED buildVars
  BY <1>1 DEF buildVars, mapVars, vars, files, interface, MapClean, Holds
<1>2. CASE build' = build /\ UNCHANGED mapVars /\ Tick
  BY <1>2 DEF Tick, interface, MapClean, Holds
<1> QED
  BY <1>1, <1>2, MapCleanStepByProcess, StepCases

LEMMA MapCopyingStepByProcess ==
  ASSUME FileTypeOK, Places, Exclusive, MapCopying, NEW t \in Thread, ProcessStep(t)
  PROVE  MapCopying'
<1>0. AtPlace(t) /\ (at[t] # "out" => InCall(t)) /\ build' = build
  BY CallInHand DEF Places, AtPlace, ProcessStep
<1>99. /\ file = [u \in Thread |-> file[u]] /\ call = [u \in Thread |-> call[u]]
       /\ at = [u \in Thread |-> at[u]] /\ text = [f \in Inode |-> text[f]]
       /\ len = [u \in Thread |-> len[u]] /\ value = [u \in Thread |-> value[u]]
       /\ clean \subseteq Inode /\ NoInode \notin Inode /\ quiet \subseteq Thread
       /\ file \in [Thread -> Inode \cup {NoInode}]
  BY FileAssumption DEF FileTypeOK, BuildTypeOK, TypeOK
<1>98. offered \subseteq offered' /\ \A u \in Thread \ {t} : Same(u)
  BY TextByProcess, OthersByProcess
<1> USE DEF Goto, Opened, Closed, files, interface, mapVars
<1>1. CASE UNCHANGED mapVars /\ Client(t)
  <2>1. /\ text' = text /\ clean' = clean /\ quiet' = quiet /\ file' = file /\ at' = at
        /\ at[t] = "out" /\ file[t] = NoInode
    BY <1>0, <1>1 DEF Client, AtPlace, HasFile, ClientNext, Invoke, Collect
  <2> QED
    BY <1>0, <1>98, <2>1 DEF MapCopying, Copying, Same
<1>2. CASE UNCHANGED mapVars /\ Enter(t)
  <2>1. text' = text /\ clean' = clean /\ at'[t] # "copy"
    BY <1>0, <1>2, <1>99 DEF Enter, AtPlace, HasFile
  <2> QED
    BY <1>0, <1>98, <2>1 DEF MapCopying, Copying, Same
<1>3. CASE UNCHANGED mapVars /\ MkdirFails(t)
  <2>1. text' = text /\ clean' = clean /\ at'[t] # "copy"
    BY <1>0, <1>3, <1>99 DEF MkdirFails, AtPlace, HasFile
  <2> QED
    BY <1>0, <1>98, <2>1 DEF MapCopying, Copying, Same
<1>4. CASE UNCHANGED mapVars /\ Measure(t)
  <2>1. text' = text /\ clean' = clean /\ at'[t] # "copy"
    BY <1>0, <1>4, <1>99 DEF Measure, AtPlace, HasFile
  <2> QED
    BY <1>0, <1>98, <2>1 DEF MapCopying, Copying, Same
<1>5. CASE UNCHANGED mapVars /\ Leave(t)
  <2>1. text' = text /\ clean' = clean /\ at'[t] # "copy"
    BY <1>0, <1>5, <1>99 DEF Leave, AtPlace, HasFile
  <2> QED
    BY <1>0, <1>98, <2>1 DEF MapCopying, Copying, Same
<1>6. CASE build = "stdio"
  BY <1>0, <1>6 DEF MapCopying
<1>7. CASE build = "mmap" /\ MapOpenFails(t)
  <2>1. text' = text /\ clean' = clean /\ at'[t] # "copy"
    BY <1>0, <1>7, <1>99 DEF MapOpenFails, AtPlace, HasFile
  <2> QED
    BY <1>0, <1>98, <2>1 DEF MapCopying, Copying, Same
<1>8. CASE build = "mmap" /\ MapOpenToRead(t)
  <2>1. text' = text /\ clean' = clean /\ at'[t] # "copy"
    BY <1>0, <1>8, <1>99 DEF MapOpenToRead, AtPlace, HasFile
  <2> QED
    BY <1>0, <1>98, <2>1 DEF MapCopying, Copying, Same
<1>9. CASE build = "mmap" /\ MapOpenToWrite(t)
  <2>8. ASSUME NEW u \in Thread, u # t, at'[u] = "copy"
        PROVE  Copying(u)'
    <3>1. Same(u) /\ at[u] = "copy" /\ Copying(u) /\ file[u] \in Inode
      <4>1. Same(u)
        BY <1>9, <1>98, <2>8, Zenon
      <4>2. at[u] = "copy"
        BY <2>8, <4>1 DEF Same
      <4>3. Copying(u) /\ AtPlace(u)
        BY <1>9, <4>2, Zenon DEF MapCopying, Places
      <4>4. AtPlace(u) => file[u] \in Inode
        BY <1>99, <2>8, <4>2, Zenon DEF AtPlace, HasFile
      <4> QED
        BY <4>1, <4>2, <4>3, <4>4, Zenon
    <3>2. text'[file[u]] = text[file[u]] /\ file[u] \notin clean'
      <4>1. CASE UNCHANGED <<text, clean>>
        BY <3>1, <4>1 DEF Copying
      <4>2. CASE \E f \in Unused : text' = [text EXCEPT ![f] = <<>>] /\ clean' = clean \ {f}
        BY <1>99, <3>1, <4>2 DEF Unused, Copying
      <4> QED
        BY <1>9, <4>1, <4>2 DEF MapOpenToWrite
    <3> QED
      BY <3>1, <3>2 DEF Same, Copying
  <2>9. at'[t] # "copy"
    BY <1>9, <1>99 DEF MapOpenToWrite
  <2> QED
    BY <2>8, <2>9 DEF MapCopying
<1>10. CASE build = "mmap" /\ MapFlock(t)
  <2>1. text' = text /\ clean' = clean /\ at'[t] # "copy"
    BY <1>0, <1>10, <1>99 DEF MapFlock, AtPlace, HasFile
  <2> QED
    BY <1>0, <1>98, <2>1 DEF MapCopying, Copying, Same
<1>11. CASE build = "mmap" /\ MapGiveUp(t)
  <2>1. text' = text /\ clean' = clean /\ at'[t] # "copy"
    BY <1>0, <1>11, <1>99 DEF MapGiveUp, AtPlace, HasFile
  <2> QED
    BY <1>0, <1>98, <2>1 DEF MapCopying, Copying, Same
<1>12. CASE build = "mmap" /\ MapRead(t)
  <2>1. text' = text /\ clean' = clean /\ at'[t] # "copy"
    BY <1>0, <1>12, <1>99 DEF MapRead, AtPlace, HasFile
  <2> QED
    BY <1>0, <1>98, <2>1 DEF MapCopying, Copying, Same
<1>13. CASE build = "mmap" /\ MapNoCopy(t)
  <2>1. text' = text /\ clean' = clean /\ at'[t] # "copy"
    BY <1>0, <1>13, <1>99 DEF MapNoCopy, AtPlace, HasFile
  <2> QED
    BY <1>0, <1>98, <2>1 DEF MapCopying, Copying, Same
<1>14. CASE build = "mmap" /\ MapTruncate(t)
  <2>1. /\ at[t] = "write" /\ clean' = clean \ {file[t]} /\ call' = call /\ file' = file
        /\ text' = [text EXCEPT ![file[t]] = Fitted(@, Len(call[t].val))] /\ len'[t] = 0
        /\ file[t] \in Inode /\ call[t].val \in Seq(Char)
    BY <1>0, <1>14, <1>99 DEF MapTruncate, AtPlace, InCall, HasFile
  <2>8. ASSUME NEW u \in Thread, u # t, at'[u] = "copy"
        PROVE  Copying(u)'
    <3>1. Same(u) /\ at[u] = "copy" /\ Copying(u) /\ file[u] \in Inode
      <4>1. Same(u)
        BY <1>14, <1>98, <2>8, Zenon
      <4>2. at[u] = "copy"
        BY <2>8, <4>1 DEF Same
      <4>3. Copying(u) /\ AtPlace(u)
        BY <1>14, <4>2, Zenon DEF MapCopying, Places
      <4>4. AtPlace(u) => file[u] \in Inode
        BY <1>99, <2>8, <4>2, Zenon DEF AtPlace, HasFile
      <4> QED
        BY <4>1, <4>2, <4>3, <4>4, Zenon
    <3>2. text'[file[u]] = text[file[u]] /\ file[u] \notin clean'
      <4>1. file[u] # file[t]
        BY <2>1, <2>8, <3>1, Alone DEF HasLock
      <4> QED
        BY <1>99, <2>1, <3>1, <4>1 DEF Copying
    <3> QED
      BY <3>1, <3>2 DEF Same, Copying
  <2>9. Copying(t)'
    <3>1. text'[file[t]] = Fitted(text[file[t]], Len(call[t].val))
      BY <1>99, <2>1
    <3>2. Len(call[t].val) \in Nat /\ Len(Fitted(text[file[t]], Len(call[t].val))) = Len(call[t].val)
      BY <2>1 DEF Fitted
    <3> QED
      BY <2>1, <3>1, <3>2 DEF Copying
  <2> QED
    BY <2>8, <2>9 DEF MapCopying
<1>15. CASE build = "mmap" /\ MapCopy(t)
  <2>1. /\ at[t] = "copy" /\ clean' = clean /\ call' = call /\ file' = file
        /\ file[t] \in Inode /\ call[t].val \in Seq(Char)
        /\ len[t] < Len(call[t].val) /\ len'[t] = len[t] + 1 /\ len[t] \in Nat
        /\ text' = [text EXCEPT ![file[t]][len[t] + 1] = call[t].val[len[t] + 1]]
    BY <1>0, <1>15, <1>99 DEF MapCopy, AtPlace, InCall, HasFile, FileTypeOK
  <2>8. ASSUME NEW u \in Thread, u # t, at'[u] = "copy"
        PROVE  Copying(u)'
    <3>1. Same(u) /\ at[u] = "copy" /\ Copying(u) /\ file[u] \in Inode
      <4>1. Same(u)
        BY <1>15, <1>98, <2>8, Zenon
      <4>2. at[u] = "copy"
        BY <2>8, <4>1 DEF Same
      <4>3. Copying(u) /\ AtPlace(u)
        BY <1>15, <4>2, Zenon DEF MapCopying, Places
      <4>4. AtPlace(u) => file[u] \in Inode
        BY <1>99, <2>8, <4>2, Zenon DEF AtPlace, HasFile
      <4> QED
        BY <4>1, <4>2, <4>3, <4>4, Zenon
    <3>2. text'[file[u]] = text[file[u]] /\ file[u] \notin clean'
      <4>1. file[u] # file[t]
        BY <2>1, <2>8, <3>1, Alone DEF HasLock
      <4> QED
        BY <1>99, <2>1, <3>1, <4>1 DEF Copying
    <3> QED
      BY <3>1, <3>2 DEF Same, Copying
  <2>9. Copying(t)'
    <3> DEFINE old == text[file[t]]
               n == len[t] + 1
               v == call[t].val
    <3>1. Copying(t) /\ old \in Seq(Char) /\ v \in Seq(Char)
      BY <1>15, <2>1 DEF MapCopying, FileTypeOK
    <3>2. /\ Len(old) = Len(v) /\ n \in 1 .. Len(old) /\ v[n] \in Char
          /\ \A m \in 1 .. n - 1 : old[m] = v[m]
      BY <2>1, <3>1 DEF Copying
    <3>3. text'[file[t]] = [old EXCEPT ![n] = v[n]]
      BY <1>99, <2>1
    <3> HIDE DEF old, n, v
    <3>4. /\ Len([old EXCEPT ![n] = v[n]]) = Len(v)
          /\ \A m \in 1 .. n : [old EXCEPT ![n] = v[n]][m] = v[m]
      <4>1. /\ Len([old EXCEPT ![n] = v[n]]) = Len(old)
            /\ \A m \in 1 .. Len(old) : [old EXCEPT ![n] = v[n]][m] = IF m = n THEN v[n] ELSE old[m]
        BY <3>1, <3>2, ExceptSeq
      <4> QED
        BY <3>1, <3>2, <4>1
    <3>5. n <= Len(v) /\ file[t] \notin clean
      BY <3>1, <3>2 DEF Copying
    <3> QED
      BY <2>1, <3>3, <3>4, <3>5 DEF Copying, n, v
  <2> QED
    BY <2>8, <2>9 DEF MapCopying
<1>16. CASE build = "mmap" /\ MapClose(t)
  <2>1. at[t] = "copy" /\ clean' = clean \cup {file[t]} /\ text' = text /\ at'[t] # "copy"
    BY <1>16, <1>99 DEF MapClose
  <2>8. ASSUME NEW u \in Thread, u # t, at'[u] = "copy"
        PROVE  Copying(u)'
    <3>1. Same(u) /\ at[u] = "copy" /\ Copying(u) /\ file[u] \in Inode
      <4>1. Same(u)
        BY <1>16, <1>98, <2>8, Zenon
      <4>2. at[u] = "copy"
        BY <2>8, <4>1 DEF Same
      <4>3. Copying(u) /\ AtPlace(u)
        BY <1>16, <4>2, Zenon DEF MapCopying, Places
      <4>4. AtPlace(u) => file[u] \in Inode
        BY <1>99, <2>8, <4>2, Zenon DEF AtPlace, HasFile
      <4> QED
        BY <4>1, <4>2, <4>3, <4>4, Zenon
    <3>2. text'[file[u]] = text[file[u]] /\ file[u] \notin clean'
      <4>1. file[u] # file[t]
        BY <2>1, <2>8, <3>1, Alone DEF HasLock
      <4> QED
        BY <2>1, <3>1, <4>1 DEF Copying
    <3> QED
      BY <3>1, <3>2 DEF Same, Copying
  <2> QED
    BY <2>1, <2>8 DEF MapCopying
<1>17. CASE build = "mmap" /\ MapCrash(t)
  <2>1. text' = text /\ clean' = clean /\ at'[t] # "copy"
    BY <1>0, <1>17, <1>99 DEF MapCrash, AtPlace, HasFile, Killed
  <2> QED
    BY <1>0, <1>98, <2>1 DEF MapCopying, Copying, Same
<1> QED
  BY <1>1, <1>2, <1>3, <1>4, <1>5, <1>6, <1>7, <1>8, <1>9, <1>10, <1>11,
     <1>12, <1>13, <1>14, <1>15, <1>16, <1>17
     DEF ProcessStep, BothSteps, StdioSteps, MapSteps

LEMMA MapCopyingStep ==
  ASSUME FileTypeOK, Places, Exclusive, MapCopying, [BuildNext]_buildVars
  PROVE  MapCopying'
<1>1. CASE UNCHANGED buildVars
  BY <1>1 DEF buildVars, mapVars, vars, files, interface, MapCopying, Copying
<1>2. CASE build' = build /\ UNCHANGED mapVars /\ Tick
  BY <1>2 DEF Tick, interface, MapCopying, Copying
<1> QED
  BY <1>1, <1>2, MapCopyingStepByProcess, StepCases

(* A quiet get stays one through the steps of others that leave its file   *)
(* clean.                                                                  *)
LEMMA MapQuietKept ==
  ASSUME FileTypeOK, Places, MapQuiet, NEW t \in Thread, ProcessStep(t),
         build = "mmap", NEW u \in quiet, u # t,
         file[u] \in clean => file[u] \in clean'
  PROVE  MapQuietGet(u)'
<1>1. MapQuietGet(u) /\ u \in Thread
  BY DEF MapQuiet, FileTypeOK, BuildTypeOK, TypeOK
<1>2. Same(u) /\ offered \subseteq offered'
  BY <1>1, OthersByProcess, TextByProcess
<1> QED
  BY <1>1, <1>2 DEF MapQuietGet, Same

LEMMA MapQuietStepByProcess ==
  ASSUME FileTypeOK, Places, Exclusive, MapClean, MapQuiet, NEW t \in Thread, ProcessStep(t)
  PROVE  MapQuiet'
<1>0. AtPlace(t) /\ (at[t] # "out" => InCall(t)) /\ build' = build
  BY CallInHand DEF Places, AtPlace, ProcessStep
<1>99. /\ file = [u \in Thread |-> file[u]] /\ call = [u \in Thread |-> call[u]]
       /\ at = [u \in Thread |-> at[u]] /\ value = [u \in Thread |-> value[u]]
       /\ clean \subseteq Inode /\ NoInode \notin Inode /\ quiet \subseteq Thread
  BY FileAssumption DEF FileTypeOK, BuildTypeOK, TypeOK
<1>98. build = "mmap" => \A u \in quiet : MapQuietGet(u)
  BY DEF MapQuiet
<1> USE DEF Goto, Opened, Closed, files, interface, mapVars
<1>1. CASE UNCHANGED mapVars /\ Client(t)
  <2>1. /\ text' = text /\ clean' = clean /\ quiet' = quiet /\ file' = file /\ at' = at
        /\ at[t] = "out" /\ file[t] = NoInode
    BY <1>0, <1>1 DEF Client, AtPlace, HasFile, ClientNext, Invoke, Collect
  <2>2. build = "mmap" => t \notin quiet'
    BY <1>98, <2>1 DEF MapQuietGet
  <2> QED
    BY <1>0, <2>1, <2>2, MapQuietKept DEF MapQuiet
<1>2. CASE UNCHANGED mapVars /\ Enter(t)
  <2>1. clean' = clean /\ quiet' \subseteq quiet
    BY <1>2 DEF Enter
  <2>2. build = "mmap" /\ t \in quiet' => MapQuietGet(t)'
    BY <1>0, <1>2, <1>98, <1>99 DEF Enter, MapQuietGet, AtPlace, HasFile
  <2> QED
    BY <1>0, <2>1, <2>2, MapQuietKept DEF MapQuiet
<1>3. CASE UNCHANGED mapVars /\ MkdirFails(t)
  <2>1. clean' = clean /\ quiet' \subseteq quiet
    BY <1>3 DEF MkdirFails
  <2>2. build = "mmap" /\ t \in quiet' => MapQuietGet(t)'
    BY <1>0, <1>3, <1>98, <1>99 DEF MkdirFails, MapQuietGet, AtPlace, HasFile
  <2> QED
    BY <1>0, <2>1, <2>2, MapQuietKept DEF MapQuiet
<1>4. CASE UNCHANGED mapVars /\ Measure(t)
  <2>1. clean' = clean /\ quiet' \subseteq quiet
    BY <1>4 DEF Measure
  <2>2. build = "mmap" /\ t \in quiet' => MapQuietGet(t)'
    BY <1>0, <1>4, <1>98, <1>99 DEF Measure, MapQuietGet, AtPlace, HasFile
  <2> QED
    BY <1>0, <2>1, <2>2, MapQuietKept DEF MapQuiet
<1>5. CASE UNCHANGED mapVars /\ Leave(t)
  <2>1. clean' = clean /\ quiet' \subseteq quiet
    BY <1>5 DEF Leave
  <2>2. build = "mmap" /\ t \in quiet' => MapQuietGet(t)'
    BY <1>0, <1>5, <1>98, <1>99 DEF Leave, MapQuietGet, AtPlace, HasFile
  <2> QED
    BY <1>0, <2>1, <2>2, MapQuietKept DEF MapQuiet
<1>6. CASE build = "stdio"
  BY <1>0, <1>6 DEF MapQuiet
<1>7. CASE build = "mmap" /\ MapOpenFails(t)
  <2>1. clean' = clean /\ quiet' \subseteq quiet
    BY <1>7 DEF MapOpenFails
  <2>2. t \in quiet' => MapQuietGet(t)'
    BY <1>0, <1>7, <1>98, <1>99 DEF MapOpenFails, MapQuietGet, AtPlace, HasFile
  <2>3. ASSUME NEW u \in quiet', u # t
        PROVE  MapQuietGet(u)'
    BY <1>0, <1>7, <2>1, <2>3, MapQuietKept
  <2> QED
    BY <2>2, <2>3 DEF MapQuiet
<1>8. CASE build = "mmap" /\ MapOpenToRead(t)
  <2>1. clean' = clean /\ quiet' \subseteq quiet
    BY <1>8 DEF MapOpenToRead
  <2>2. t \in quiet' => MapQuietGet(t)'
    BY <1>0, <1>8, <1>98, <1>99 DEF MapOpenToRead, MapQuietGet, AtPlace, HasFile
  <2>3. ASSUME NEW u \in quiet', u # t
        PROVE  MapQuietGet(u)'
    BY <1>0, <1>8, <2>1, <2>3, MapQuietKept
  <2> QED
    BY <2>2, <2>3 DEF MapQuiet
<1>9. CASE build = "mmap" /\ MapOpenToWrite(t)
  <2>1. quiet' = quiet /\ \A u \in quiet : file[u] \in clean => file[u] \in clean'
    <3>1. CASE clean' = clean
      BY <1>9, <3>1 DEF MapOpenToWrite
    <3>2. CASE \E f \in Unused : clean' = clean \ {f}
      BY <1>9, <1>99, <3>2 DEF MapOpenToWrite, Unused
    <3> QED
      BY <1>9, <3>1, <3>2 DEF MapOpenToWrite
  <2>2. t \notin quiet'
    BY <1>9, <1>98, <2>1 DEF MapOpenToWrite, MapQuietGet
  <2>3. ASSUME NEW u \in quiet', u # t
        PROVE  MapQuietGet(u)'
    BY <1>0, <1>9, <2>1, <2>3, MapQuietKept
  <2> QED
    BY <2>2, <2>3 DEF MapQuiet
<1>10. CASE build = "mmap" /\ MapFlock(t)
  <2>1. clean' = clean /\ quiet' \ {t} \subseteq quiet
    BY <1>10 DEF MapFlock, Undisturbed
  <2>2. t \in quiet' => MapQuietGet(t)'
    <3>1. at[t] = "lock" /\ file' = file /\ call' = call /\ value' = value /\ t \notin quiet
      BY <1>10, <1>98 DEF MapFlock, MapQuietGet
    <3>2. value[t] = NoValue /\ call[t].op \in {"get", "set"}
      BY <1>0, <3>1 DEF AtPlace, InCall
    <3>3. t \in quiet' => call[t].op = "get" /\ file[t] \in clean /\ at'[t] = "size"
      BY <1>10, <1>99, <3>1, <3>2 DEF MapFlock, Undisturbed, Mode
    <3> QED
      BY <2>1, <3>1, <3>2, <3>3 DEF MapQuietGet
  <2>3. ASSUME NEW u \in quiet', u # t
        PROVE  MapQuietGet(u)'
    BY <1>0, <1>10, <2>1, <2>3, MapQuietKept
  <2> QED
    BY <2>2, <2>3 DEF MapQuiet
<1>11. CASE build = "mmap" /\ MapGiveUp(t)
  <2>1. clean' = clean /\ quiet' \subseteq quiet
    BY <1>11 DEF MapGiveUp
  <2>2. t \in quiet' => MapQuietGet(t)'
    BY <1>0, <1>11, <1>98, <1>99 DEF MapGiveUp, MapQuietGet, AtPlace, HasFile
  <2>3. ASSUME NEW u \in quiet', u # t
        PROVE  MapQuietGet(u)'
    BY <1>0, <1>11, <2>1, <2>3, MapQuietKept
  <2> QED
    BY <2>2, <2>3 DEF MapQuiet
<1>12. CASE build = "mmap" /\ MapRead(t)
  <2>1. clean' = clean /\ quiet' \subseteq quiet
    BY <1>12 DEF MapRead
  <2>2. t \in quiet' => MapQuietGet(t)'
    <3>1. /\ file[t] \in Inode /\ call[t].key \in Key /\ call' = call /\ offered' = offered
          /\ at'[t] = "leave" /\ file'[t] = NoInode /\ quiet' = quiet
          /\ value'[t] = AsString(text[file[t]])
      BY <1>0, <1>12, <1>99 DEF MapRead, AtPlace, InCall, HasFile
    <3>2. t \in quiet => call[t].op = "get" /\ <<call[t].key, text[file[t]]>> \in offered
      BY <1>12, <1>98, <1>99, <3>1 DEF MapQuietGet, MapClean, Holds
    <3>3. t \in quiet => \E e \in offered : e[1] = call[t].key /\ value'[t] = AsString(e[2])
      BY <3>1, <3>2
    <3> QED
      BY <3>1, <3>2, <3>3 DEF MapQuietGet
  <2>3. ASSUME NEW u \in quiet', u # t
        PROVE  MapQuietGet(u)'
    BY <1>0, <1>12, <2>1, <2>3, MapQuietKept
  <2> QED
    BY <2>2, <2>3 DEF MapQuiet
<1>13. CASE build = "mmap" /\ MapNoCopy(t)
  <2>1. clean' = clean /\ quiet' \subseteq quiet
    BY <1>13 DEF MapNoCopy
  <2>2. t \in quiet' => MapQuietGet(t)'
    BY <1>0, <1>13, <1>98, <1>99 DEF MapNoCopy, MapQuietGet, AtPlace, HasFile
  <2>3. ASSUME NEW u \in quiet', u # t
        PROVE  MapQuietGet(u)'
    BY <1>0, <1>13, <2>1, <2>3, MapQuietKept
  <2> QED
    BY <2>2, <2>3 DEF MapQuiet
<1>14. CASE build = "mmap" /\ MapTruncate(t)
  <2>1. /\ quiet' = quiet /\ clean' = clean \ {file[t]} /\ at[t] = "write"
        /\ \A u \in quiet \ {t} : file[u] \in clean => file[u] \in clean'
    <3>1. quiet' = quiet /\ clean' = clean \ {file[t]} /\ at[t] = "write" /\ file[t] \in Inode
      BY <1>0, <1>14, <1>99 DEF MapTruncate, AtPlace, InCall, HasFile
    <3>2. ASSUME NEW u \in quiet \ {t}, file[u] \in clean
          PROVE  file[u] # file[t]
      <4>1. u \in Thread /\ MapQuietGet(u) /\ file[u] # NoInode
        BY <1>14, <1>98, <1>99, <3>2
      <4>2. at[u] \in HasFile /\ at[u] \in {"size", "read", "leave"}
        BY <4>1 DEF Places, AtPlace, MapQuietGet
      <4>3. at[u] \in HasLock
        BY <4>2 DEF HasFile, HasLock
      <4> QED
        BY <3>1, <3>2, <4>1, <4>3, Alone
    <3> QED
      BY <3>1, <3>2
  <2>2. t \notin quiet'
    BY <1>14, <1>98, <2>1 DEF MapQuietGet
  <2>3. ASSUME NEW u \in quiet', u # t
        PROVE  MapQuietGet(u)'
    BY <1>0, <1>14, <2>1, <2>3, MapQuietKept
  <2> QED
    BY <2>2, <2>3 DEF MapQuiet
<1>15. CASE build = "mmap" /\ MapCopy(t)
  <2>1. clean' = clean /\ quiet' \subseteq quiet
    BY <1>15 DEF MapCopy
  <2>2. t \in quiet' => MapQuietGet(t)'
    BY <1>0, <1>15, <1>98, <1>99 DEF MapCopy, MapQuietGet, AtPlace, HasFile
  <2>3. ASSUME NEW u \in quiet', u # t
        PROVE  MapQuietGet(u)'
    BY <1>0, <1>15, <2>1, <2>3, MapQuietKept
  <2> QED
    BY <2>2, <2>3 DEF MapQuiet
<1>16. CASE build = "mmap" /\ MapClose(t)
  <2>1. clean \subseteq clean' /\ quiet' \subseteq quiet
    BY <1>16 DEF MapClose
  <2>2. t \in quiet' => MapQuietGet(t)'
    BY <1>0, <1>16, <1>98, <1>99 DEF MapClose, MapQuietGet, AtPlace, HasFile
  <2>3. ASSUME NEW u \in quiet', u # t
        PROVE  MapQuietGet(u)'
    BY <1>0, <1>16, <2>1, <2>3, MapQuietKept
  <2> QED
    BY <2>2, <2>3 DEF MapQuiet
<1>17. CASE build = "mmap" /\ MapCrash(t)
  <2>1. clean' = clean /\ quiet' \subseteq quiet
    BY <1>17 DEF MapCrash, Killed
  <2>2. t \in quiet' => MapQuietGet(t)'
    BY <1>0, <1>17, <1>98, <1>99 DEF MapCrash, MapQuietGet, AtPlace, HasFile, Killed
  <2>3. ASSUME NEW u \in quiet', u # t
        PROVE  MapQuietGet(u)'
    BY <1>0, <1>17, <2>1, <2>3, MapQuietKept
  <2> QED
    BY <2>2, <2>3 DEF MapQuiet
<1> QED
  BY <1>1, <1>2, <1>3, <1>4, <1>5, <1>6, <1>7, <1>8, <1>9, <1>10, <1>11,
     <1>12, <1>13, <1>14, <1>15, <1>16, <1>17
     DEF ProcessStep, BothSteps, StdioSteps, MapSteps

LEMMA MapQuietStep ==
  ASSUME FileTypeOK, Places, Exclusive, MapClean, MapQuiet, [BuildNext]_buildVars
  PROVE  MapQuiet'
<1>1. CASE UNCHANGED buildVars
  BY <1>1 DEF buildVars, mapVars, vars, files, interface, MapQuiet, MapQuietGet
<1>2. CASE build' = build /\ UNCHANGED mapVars /\ Tick
  BY <1>2 DEF Tick, interface, MapQuiet, MapQuietGet
<1> QED
  BY <1>1, <1>2, MapQuietStepByProcess, StepCases

-----------------------------------------------------------------------------
(* The invariant, and what it says.                                        *)
FileInv ==
  /\ FileTypeOK /\ Places /\ Locks /\ Exclusive
  /\ OneKey /\ TextsFit /\ OfValues
  /\ NeverStaleLine
  /\ StdioClean /\ StdioQuiet
  /\ MapClean /\ MapCopying /\ MapQuiet

LEMMA FileInitially == BuildInit => FileInv
<1> SUFFICES ASSUME BuildInit
             PROVE  FileInv
  OBVIOUS
<1> USE FileAssumption DEF BuildInit, Init, InterfaceInit
<1>1. FileTypeOK
  BY DEF FileTypeOK, BuildTypeOK, TypeOK, Steps
<1>2. Places
  BY DEF Places, AtPlace, HasFile, NoCall
<1>3. Locks /\ Exclusive
  BY DEF Locks, Exclusive, HasLock
<1>4. \A f \in Inode, k \in Key : ~Holds(f, k)
  BY DEF Holds
<1>5. OneKey /\ TextsFit /\ StdioClean /\ MapClean
  BY <1>4 DEF OneKey, TextsFit, StdioClean, MapClean
<1>6. OfValues /\ NeverStaleLine
  BY DEF OfValues, NeverStaleLine, NeverStale
<1>7. StdioQuiet /\ MapQuiet /\ MapCopying
  BY DEF StdioQuiet, MapQuiet, MapCopying
<1> QED
  BY <1>1, <1>2, <1>3, <1>5, <1>6, <1>7 DEF FileInv

LEMMA FileInvariant == BuildSpec => []FileInv
<1>1. FileInv /\ [BuildNext]_buildVars => FileInv'
  <2> SUFFICES ASSUME FileInv, [BuildNext]_buildVars
               PROVE  FileInv'
    OBVIOUS
  <2> USE DEF FileInv
  <2>1. FileTypeOK' /\ Places' /\ Locks' /\ Exclusive'
    BY FileTypeStep, PlaceStep, LocksStep, ExclusiveStep
  <2>2. OneKey' /\ TextsFit' /\ OfValues' /\ NeverStaleLine'
    BY OneKeyStep, TextsStep, AnswerStep, FreshStep
  <2>3. StdioClean' /\ StdioQuiet'
    BY StdioCleanStep, StdioQuietStep
  <2>4. MapClean' /\ MapCopying' /\ MapQuiet'
    BY MapCleanStep, MapCopyingStep, MapQuietStep
  <2> QED
    BY <2>1, <2>2, <2>3, <2>4
<1> QED
  BY <1>1, FileInitially, PTL DEF BuildSpec

(* The types of the file cache, in both builds: no attempt is made beyond  *)
(* the last (FILE_CACHE_ATTEMPT), and no file is written in the future.    *)
THEOREM FileCacheTypeCorrect == BuildSpec => []BuildTypeOK
<1>1. FileInv => BuildTypeOK
  BY DEF FileInv, FileTypeOK
<1> QED
  BY <1>1, FileInvariant, PTL

(* A file that one writer at a time has written, none failing or dying     *)
(* over it, holds at rest a whole value set under its key, though fopen    *)
(* and fclose write outside of the lock (lines 236-254); and so it does    *)
(* with a mapping once no writer is at work (lines 263-283).               *)
THEOREM FilesAreWhole == BuildSpec => []WholeAtRest
<1>1. FileInv => WholeAtRest
  <2> SUFFICES ASSUME FileInv, NEW k \in Key, dir[k] # NoInode, dir[k] \in clean,
                      Writers(dir[k]) = {}
               PROVE  <<k, text[dir[k]]>> \in offered
    BY DEF WholeAtRest
  <2>1. build \in {"stdio", "mmap"} /\ Holds(dir[k], k) /\ dir[k] \in Inode
    BY DEF FileInv, FileTypeOK, BuildTypeOK, TypeOK, Holds
  <2>2. CASE build = "stdio"
    <3>1. \A u \in Thread : ~Writing(u, dir[k])
      BY DEF Writers, Writing
    <3> QED
      BY <2>1, <2>2, <3>1 DEF FileInv, StdioClean, CleanFile
  <2>3. CASE build = "mmap"
    BY <2>1, <2>3 DEF FileInv, MapClean
  <2> QED
    BY <2>1, <2>2, <2>3
<1> QED
  BY <1>1, FileInvariant, PTL

LEMMA QuietIsWhole == FileInv => WholeValue
<1> SUFFICES ASSUME FileInv
             PROVE  WholeValue
  OBVIOUS
<1>1. CASE build = "stdio"
  BY <1>1 DEF FileInv, StdioQuiet, QuietGet, WholeValue, WholeAnswer
<1>2. CASE build # "stdio"
  BY <1>2 DEF FileInv, FileTypeOK, BuildTypeOK, MapQuiet, MapQuietGet, WholeValue
<1> QED
  BY <1>1, <1>2

(* A get that no writer disturbs hands out the first line of a value set   *)
(* under its key (lines 127-169); with a mapping, the value (186-206).     *)
THEOREM UndisturbedGetsAreWhole == BuildSpec => []WholeValue
BY QuietIsWhole, FileInvariant, PTL

(* Whatever writers, crashes and a full disk make of a file, each          *)
(* character a get reads from it stands at its place in a value that was   *)
(* set under its key (lines 236-254, 267-283); and the buffer as it was    *)
(* allocated is handed out by none that no writer has disturbed            *)
(* (lines 158-169): what such a get hands out is a text.                   *)
THEOREM AnswersOfTheirKey == BuildSpec => []OfItsKey
<1>1. FileInv => OfItsKey
  <2> SUFFICES ASSUME FileInv, NEW t \in quiet, t \in Thread, value[t] = Garbage
               PROVE  FALSE
    <3>1. FileInv => OfValues /\ quiet \subseteq Thread
      BY DEF FileInv, FileTypeOK, BuildTypeOK, TypeOK
    <3> QED
      BY <3>1 DEF OfItsKey, OfValues
  <2>0. value[t] # NoValue
    BY FileAssumption
  <2>1. PICK s \in Seq(Char) : value[t] = AsString(Line(s)) \/ value[t] = AsString(s)
    <3>1. WholeValue /\ offered \subseteq Key \X Value
      BY QuietIsWhole DEF FileInv, FileTypeOK
    <3>2. PICK e \in offered : value[t] = AsString(Line(e[2])) \/ value[t] = AsString(e[2])
      BY <2>0, <3>1 DEF WholeValue, WholeAnswer
    <3> QED
      BY <3>1, <3>2, ValueIsText
  <2>2. AsString(Line(s)) \in Seq(Char) /\ AsString(s) \in Seq(Char)
    BY LineFacts, StringFacts
  <2>3. Garbage \notin Seq(Char)
    BY FileAssumption DEF Char
  <2> QED
    BY <2>1, <2>2, <2>3
<1> QED
  BY <1>1, FileInvariant, PTL

(* With stdio, a get waits for and reads only a file that had not expired  *)
(* when the get was called (line 142).                                     *)
THEOREM NoExpiredFileIsRead == BuildSpec => []NeverStaleLine
<1>1. FileInv => NeverStaleLine
  BY DEF FileInv
<1> QED
  BY <1>1, FileInvariant, PTL

(* Every mapping that is left is accounted for.                            *)
LEMMA KeptStep ==
  ASSUME mapped \in [Thread -> SUBSET Inode], kept \in [Thread -> SUBSET Inode],
         \A t \in Thread : mapped[t] \subseteq kept[t], [BuildNext]_buildVars
  PROVE  \A t \in Thread : mapped'[t] \subseteq kept'[t]
<1>1. CASE UNCHANGED mapVars
  BY <1>1 DEF mapVars
<1>2. ASSUME NEW t \in Thread, MapSteps(t)
      PROVE  \A u \in Thread : mapped'[u] \subseteq kept'[u]
  <2>1. CASE UNCHANGED mapVars
    BY <2>1 DEF mapVars
  <2>2. CASE MayRemain(t)
    BY <2>2 DEF MayRemain
  <2>3. CASE MapCrash(t)
    BY <2>3 DEF MapCrash
  <2>4. UNCHANGED mapVars \/ MayRemain(t) \/ MapCrash(t)
    BY <1>2 DEF MapSteps, MapOpenFails, MapOpenToRead, MapOpenToWrite, MapFlock, MapGiveUp,
       MapRead, MapNoCopy, MapTruncate, MapCopy, MapClose
  <2> QED
    BY <2>1, <2>2, <2>3, <2>4
<1>3. UNCHANGED mapVars \/ \E t \in Thread : MapSteps(t)
  BY StepCases DEF buildVars, ProcessStep
<1> QED
  BY <1>1, <1>2, <1>3

(* A process outside get and set has no file open and none locked, which-  *)
(* ever way its call has ended; with a mapping none that keeps a lock      *)
(* either, unless the copy could not be made (lines 198-203) or the text   *)
(* fills its last page (line 205).                                         *)
THEOREM EveryFileIsClosed == BuildSpec => []NothingLeftOpen
<1> DEFINE Accounted == \A t \in Thread : mapped[t] \subseteq kept[t]
<1>1. BuildInit => Accounted
  BY DEF BuildInit
<1>2. FileInv /\ Accounted /\ [BuildNext]_buildVars => Accounted'
  BY KeptStep DEF FileInv, FileTypeOK, BuildTypeOK
<1>3. FileInv /\ Accounted => NothingLeftOpen
  <2> SUFFICES ASSUME FileInv, Accounted, NEW t \in Thread, stage[t] # "busy"
               PROVE  /\ file[t] = NoInode /\ \A f \in Inode : locks[f][t] = "none"
                      /\ mapped[t] \subseteq kept[t]
    BY DEF NothingLeftOpen
  <2>1. at[t] = "out" /\ file[t] = NoInode
    BY DEF FileInv, Places, AtPlace, HasFile
  <2> QED
    BY <2>1 DEF FileInv, Locks, HasLock
<1> QED
  BY <1>1, <1>2, <1>3, FileInvariant, PTL DEF BuildSpec
=============================================================================
