-------------------------- MODULE DaCloudMemProofs --------------------------
(***************************************************************************)
(* What the pools of DaCloudMem guarantee for any number of blocks and     *)
(* holders and for all sizes and requests: types, regions that never       *)
(* overlap and stay inside a block of a safe size unless two calls take a  *)
(* region of one block at once, and, until two holders outgrow one block,  *)
(* a chain from which no block is lost.                                    *)
(***************************************************************************)
EXTENDS DaCloudMem, TLAPS

-----------------------------------------------------------------------------
(* Requests whose rounding fits the 32 bits the mask of line 68 keeps.     *)
SmallRequests == \A needed \in Requests : needed + 3 < WORD

(* The request of a call in progress is one of those.                      *)
CallsSmall == \A h \in Holder : call[h].at # "out" => call[h].need \in Requests

(* Rounding, within 32 bits: up to a multiple of four, by less than four.  *)
LEMMA RoundedBounds ==
  ASSUME NEW needed \in Requests, SmallRequests
  PROVE  /\ Rounded(needed) \in Nat
         /\ needed <= Rounded(needed)
         /\ Rounded(needed) < needed + 4
         /\ Rounded(needed) % 4 = 0
<1>1. needed \in Nat /\ WORD \in Nat /\ needed + 3 < WORD
  BY MemAssumption DEF SmallRequests
<1>2. Low32(needed + 3) = needed + 3
  BY <1>1 DEF Low32
<1>3. Rounded(needed) = (needed + 3) - ((needed + 3) % 4)
  BY <1>2 DEF Rounded
<1> QED
  BY <1>1, <1>3

-----------------------------------------------------------------------------
(* Type correctness.                                                       *)
(* A pool that someone may use is there.                                   *)
Opened == users # {} => root \in live

Typed == TypeOK /\ CallsSmall /\ Opened

(* The steps of a call that touch neither blocks nor pointers: only the    *)
(* record of h changes, and not to one that follows a link.                *)
LEMMA LocalStep ==
  ASSUME Typed, NEW h \in Holder, NEW c \in CallRecord,
         h \in users \/ c.at = "out", c.at # "move",
         c.at # "out" => c.need \in Requests,
         call' = [call EXCEPT ![h] = c],
         UNCHANGED <<blocks, top, root, dcm, regions, users, forked>>,
         torn' \in SUBSET live
  PROVE  Typed'
<1>1. call' \in [Holder -> CallRecord]
  BY DEF Typed, TypeOK
<1>2. \A g \in Holder : call'[g] = IF g = h THEN c ELSE call[g]
  BY DEF Typed, TypeOK
<1>3. CallsSmall'
  BY <1>2 DEF Typed, CallsSmall
<1>4. \A g \in Holder :
        /\ g \in users' => dcm'[g] \in live'
        /\ g \notin users' => call'[g].at = "out"
        /\ call'[g].at = "move" => {call'[g].made, next'[dcm'[g]]} \subseteq live'
  BY <1>2 DEF Typed, TypeOK, blocks
<1>5. \A b \in live' : size'[b] < LONG_MAX
  BY DEF Typed, TypeOK, blocks
<1>6. Opened'
  BY DEF Typed, Opened, blocks
<1> QED
  BY <1>1, <1>3, <1>4, <1>5, <1>6 DEF Typed, TypeOK, blocks, Region

LEMMA TypedCorrect == SmallRequests => (Spec => []Typed)
<1> SUFFICES ASSUME SmallRequests
             PROVE  Spec => []Typed
  OBVIOUS
<1> USE MemAssumption
<1>1. Init => Typed
  <2> SUFFICES ASSUME Init
               PROVE  Typed
    OBVIOUS
  <2>1. \A h \in Holder : call[h] = Idle /\ call[h].at = "out"
    BY DEF Init, Idle
  <2>2. call \in [Holder -> CallRecord]
    BY DEF Init, CallRecord, Idle
  <2> QED
    BY <2>1, <2>2 DEF Init, Typed, TypeOK, Opened, CallsSmall
<1>2. Typed /\ [Next]_vars => Typed'
  <2> SUFFICES ASSUME Typed, [Next]_vars
               PROVE  Typed'
    OBVIOUS
  <2>0. /\ Idle \in CallRecord /\ Idle.at = "out"
        /\ \A h \in Holder : call[h] \in CallRecord
        /\ \A h \in Holder : call[h].at # "out" => h \in users /\ dcm[h] \in live
    BY DEF Idle, CallRecord, Typed, TypeOK
  <2>1. ASSUME NEW n \in InitSizes, Create(n)
        PROVE  Typed'
    <3>1. PICK b \in Block \ live :
            /\ live' = live \cup {b}
            /\ size' = [size EXCEPT ![b] = n]
            /\ top' = [top EXCEPT ![b] = 0]
            /\ next' = [next EXCEPT ![b] = NULL]
            /\ root' = b
            /\ dcm' = [dcm EXCEPT ![Main] = b]
      BY <2>1 DEF Create
    <3>2. /\ users' = {Main}
          /\ UNCHANGED <<call, regions, torn, forked>>
          /\ \A h \in Holder : call[h].at = "out"
      BY <2>0, <2>1 DEF Create, Typed, Opened
    <3>3. /\ size' \in [Block -> Nat] /\ top' \in [Block -> Nat]
          /\ next' \in [Block -> Block \cup {NULL}]
          /\ dcm' \in [Holder -> Block \cup {NULL}] /\ dcm'[Main] = b
      BY <3>1 DEF Typed, TypeOK
    <3>4. \A c \in live' : size'[c] < LONG_MAX
      BY <3>1 DEF Typed, TypeOK
    <3> QED
      BY <3>1, <3>2, <3>3, <3>4 DEF Typed, TypeOK, Opened, CallsSmall
  <2>2. ASSUME NEW h \in Holder, Copy(h)
        PROVE  Typed'
    BY <2>2 DEF Copy, Typed, TypeOK, Opened, CallsSmall, blocks
  <2>3. ASSUME NEW h \in Holder, NEW needed \in Requests, Call(h, needed)
        PROVE  Typed'
    <3> DEFINE c == [call[h] EXCEPT !.at = "check", !.need = needed]
    <3>1. c \in CallRecord /\ c.at = "check" /\ c.need = needed
      BY <2>0 DEF CallRecord
    <3>2. call' = [call EXCEPT ![h] = c]
      BY <2>3 DEF Call
    <3> HIDE DEF c
    <3> QED
      BY <2>3, <3>1, <3>2, LocalStep DEF Call, Typed, TypeOK
  <2>4. ASSUME NEW h \in Holder, CheckFits(h)
        PROVE  Typed'
    <3> DEFINE c == [call[h] EXCEPT !.at = "take", !.seen = top[dcm[h]]]
    <3>1. h \in users /\ dcm[h] \in live
      BY <2>0, <2>4 DEF CheckFits
    <3>2. c \in CallRecord /\ c.at = "take" /\ c.need = call[h].need
      BY <2>0, <3>1 DEF CallRecord, Typed, TypeOK
    <3>3. call' = [call EXCEPT ![h] = c]
      BY <2>4 DEF CheckFits
    <3>4. torn' \in SUBSET live
      BY <2>4, <3>1 DEF CheckFits, Typed, TypeOK
    <3>5. c.need \in Requests
      BY <2>4, <3>2 DEF CheckFits, Typed, CallsSmall
    <3> HIDE DEF c
    <3> QED
      BY <2>4, <3>1, <3>2, <3>3, <3>4, <3>5, LocalStep DEF CheckFits
  <2>5. ASSUME NEW h \in Holder, CheckFull(h)
        PROVE  Typed'
    <3> DEFINE c == [call[h] EXCEPT !.at = "grow"]
    <3>1. h \in users /\ c \in CallRecord /\ c.at = "grow" /\ c.need = call[h].need
      BY <2>0, <2>5 DEF CallRecord, CheckFull
    <3>2. call' = [call EXCEPT ![h] = c]
      BY <2>5 DEF CheckFull
    <3>3. c.need \in Requests
      BY <2>5, <3>1 DEF CheckFull, Typed, CallsSmall
    <3> HIDE DEF c
    <3> QED
      BY <2>5, <3>1, <3>2, <3>3, LocalStep DEF CheckFull, Typed, TypeOK
  <2>6. ASSUME NEW h \in Holder, Take(h)
        PROVE  Typed'
    <3>1. PICK n \in Reads(h) : call' = [call EXCEPT ![h].at = "bump", ![h].seen = n]
      BY <2>6 DEF Take
    <3> DEFINE c == [call[h] EXCEPT !.at = "bump", !.seen = n]
    <3>2. h \in users /\ n \in Nat
      BY <2>0, <2>6, <3>1 DEF Take, Reads, CallRecord, Typed, TypeOK
    <3>3. c \in CallRecord /\ c.at = "bump" /\ c.need = call[h].need
      BY <2>0, <3>2 DEF CallRecord
    <3>4. call' = [call EXCEPT ![h] = c]
      BY <3>1
    <3>5. c.need \in Requests
      BY <2>6, <3>3 DEF Take, Typed, CallsSmall
    <3> HIDE DEF c
    <3> QED
      BY <2>6, <3>2, <3>3, <3>4, <3>5, LocalStep DEF Take, Typed, TypeOK
  <2>7. ASSUME NEW h \in Holder, Bump(h)
        PROVE  Typed'
    <3>1. PICK n \in Reads(h) : top' = [top EXCEPT ![dcm[h]] = n + Rounded(call[h].need)]
      BY <2>7 DEF Bump
    <3>2. h \in users /\ dcm[h] \in live /\ n \in Nat
      BY <2>0, <2>7, <3>1 DEF Bump, Reads, CallRecord, Typed, TypeOK
    <3>3. call[h].need \in Requests /\ call[h].need \in Nat /\ call[h].seen \in Nat
      BY <2>0, <2>7 DEF Bump, CallRecord, Typed, CallsSmall
    <3>4. top' \in [Block -> Nat]
      BY <3>1, <3>2, <3>3, RoundedBounds DEF Typed, TypeOK
    <3>5. regions' \in SUBSET Region
      BY <2>7, <3>2, <3>3 DEF Bump, Typed, TypeOK, Region
    <3>6. \A g \in Holder : call'[g] = IF g = h THEN Idle ELSE call[g]
      BY <2>7 DEF Bump, Typed, TypeOK
    <3>7. call' \in [Holder -> CallRecord]
      BY <2>0, <2>7 DEF Bump, Typed, TypeOK
    <3>8. UNCHANGED <<live, size, next, root, dcm, users, torn, forked>>
      BY <2>7 DEF Bump, blocks
    <3>9. \A g \in Holder :
            /\ g \in users' => dcm'[g] \in live'
            /\ g \notin users' => call'[g].at = "out"
            /\ call'[g].at = "move" => {call'[g].made, next'[dcm'[g]]} \subseteq live'
      BY <2>0, <3>6, <3>8 DEF Typed, TypeOK
    <3> QED
      BY <2>0, <3>4, <3>5, <3>6, <3>7, <3>8, <3>9 DEF Typed, TypeOK, Opened, CallsSmall
  <2>8. ASSUME NEW h \in Holder, Append(h)
        PROVE  Typed'
    <3> DEFINE old == dcm[h]
               n == NewSize(size[old], call[h].need)
    <3>1. PICK b \in Block \ live :
            /\ live' = live \cup {b}
            /\ size' = [size EXCEPT ![b] = n]
            /\ top' = [top EXCEPT ![b] = 0]
            /\ next' = Linked(old, b)
            /\ call' = [call EXCEPT ![h].at = "move", ![h].made = b]
      BY <2>8 DEF Append
    <3>2. /\ old \in live /\ h \in users /\ n < LONG_MAX
          /\ UNCHANGED <<root, dcm, regions, users, torn>>
          /\ forked' \in BOOLEAN
      BY <2>0, <2>8 DEF Append, Allowed, Typed, TypeOK
    <3>3. n \in Nat
      BY <2>0, <3>2 DEF NewSize, CallRecord, Typed, TypeOK
    <3>4. /\ size' \in [Block -> Nat] /\ top' \in [Block -> Nat]
          /\ \A c \in live' : size'[c] < LONG_MAX
      <4> HIDE DEF n
      <4> QED
        BY <3>1, <3>2, <3>3 DEF Typed, TypeOK
    <3>5. /\ next' \in [Block -> Block \cup {NULL}]
          /\ next'[old] = b
          /\ \A p \in live : p # old => next'[p] = next[p]
      BY <3>1, <3>2 DEF Linked, Typed, TypeOK
    <3> DEFINE c == [call[h] EXCEPT !.at = "move", !.made = b]
    <3>6. c \in CallRecord /\ c.at = "move" /\ c.made = b /\ c.need = call[h].need
      BY <2>0 DEF CallRecord
    <3>7. /\ call' \in [Holder -> CallRecord]
          /\ \A g \in Holder : call'[g] = IF g = h THEN c ELSE call[g]
      <4>1. call' = [call EXCEPT ![h] = c]
        BY <3>1
      <4> HIDE DEF c
      <4> QED
        BY <3>6, <4>1 DEF Typed, TypeOK
    <3> HIDE DEF c
    <3>8. ASSUME NEW g \in Holder, call'[g].at = "move"
          PROVE  {call'[g].made, next'[dcm'[g]]} \subseteq live'
      <4>1. CASE g = h
        BY <3>1, <3>2, <3>5, <3>6, <3>7, <4>1
      <4>2. CASE g # h
        <5>1. call'[g] = call[g] /\ dcm'[g] = dcm[g]
          BY <3>2, <3>7, <4>2
        <5>2. dcm[g] \in live /\ call[g].made \in live /\ next[dcm[g]] \in live
          BY <2>0, <3>8, <5>1 DEF Typed, TypeOK
        <5>3. next'[dcm[g]] \in live'
          BY <3>1, <3>5, <5>2
        <5> QED
          BY <3>1, <5>1, <5>2, <5>3
      <4> QED
        BY <4>1, <4>2
    <3>9. \A g \in Holder : /\ g \in users' => dcm'[g] \in live'
                            /\ g \notin users' => call'[g].at = "out"
      BY <2>0, <3>1, <3>2, <3>7 DEF Typed, TypeOK
    <3>10. CallsSmall' /\ Opened'
      <4>1. call[h].need \in Requests
        BY <2>8 DEF Append, Typed, CallsSmall
      <4> QED
        BY <3>1, <3>2, <3>6, <3>7, <4>1 DEF Typed, CallsSmall, Opened
    <3> QED
      BY <3>1, <3>2, <3>4, <3>5, <3>7, <3>8, <3>9, <3>10 DEF Typed, TypeOK
  <2>9. ASSUME NEW h \in Holder, Move(h)
        PROVE  Typed'
    <3>1. PICK b \in {next[dcm[h]], call[h].made} : dcm' = [dcm EXCEPT ![h] = b]
      BY <2>9 DEF Move
    <3>2. b \in live /\ h \in users
      BY <2>0, <2>9, <3>1 DEF Move, Typed, TypeOK
    <3>3. \A g \in Holder : /\ dcm'[g] = IF g = h THEN b ELSE dcm[g]
                            /\ call'[g] = IF g = h THEN [call[h] EXCEPT !.at = "check", !.made = NULL]
                                                   ELSE call[g]
      BY <2>9, <3>1 DEF Move, Typed, TypeOK
    <3>4. /\ call' \in [Holder -> CallRecord]
          /\ call'[h].at = "check" /\ call'[h].need = call[h].need
      BY <2>0, <2>9, <3>3 DEF Move, CallRecord, Typed, TypeOK
    <3>5. dcm' \in [Holder -> Block \cup {NULL}]
      BY <3>1, <3>2 DEF Typed, TypeOK
    <3>6. UNCHANGED <<live, size, next, top, root, regions, users, torn, forked>>
      BY <2>9 DEF Move, blocks
    <3>7. \A g \in Holder :
            /\ g \in users' => dcm'[g] \in live'
            /\ g \notin users' => call'[g].at = "out"
            /\ call'[g].at = "move" => {call'[g].made, next'[dcm'[g]]} \subseteq live'
      BY <3>2, <3>3, <3>4, <3>6 DEF Typed, TypeOK
    <3>8. CallsSmall'
      BY <2>9, <3>3, <3>4 DEF Move, Typed, CallsSmall
    <3> QED
      BY <3>4, <3>5, <3>6, <3>7, <3>8 DEF Typed, TypeOK, Opened
  <2>10. ASSUME NEW h \in Holder, AllocFails(h)
         PROVE  Typed'
    BY <2>0, <2>10, LocalStep DEF AllocFails, Typed, TypeOK
  <2>11. CASE Free
    <3>1. \A h \in Holder : call'[h].at = "out"
      BY <2>11 DEF Free
    <3>2. CallsSmall' /\ Opened'
      BY <2>11, <3>1 DEF Free, CallsSmall, Opened
    <3>3. /\ size' \in [Block -> Nat] /\ top' \in [Block -> Nat]
          /\ next' \in [Block -> Block \cup {NULL}]
          /\ \A b \in live' : size'[b] < LONG_MAX
      BY <2>11 DEF Free, Typed, TypeOK
    <3> QED
      BY <2>11, <3>1, <3>2, <3>3 DEF Free, Typed, TypeOK
  <2>12. CASE UNCHANGED vars
    BY <2>12 DEF vars, Typed, TypeOK, Opened, CallsSmall, Region
  <2> QED
    BY <2>1, <2>2, <2>3, <2>4, <2>5, <2>6, <2>7, <2>8, <2>9, <2>10, <2>11, <2>12 DEF Next
<1> QED
  BY <1>1, <1>2, PTL DEF Spec

(* A pool keeps its types: whoever may use it is at a live block, a call   *)
(* follows links to live blocks only, no block has LONG_MAX bytes.         *)
THEOREM TypeCorrect == SmallRequests => (Spec => []TypeOK)
<1>1. Typed => TypeOK
  BY DEF Typed
<1> QED
  BY <1>1, TypedCorrect, PTL

-----------------------------------------------------------------------------
(* The inductive invariant behind the two statements on regions.           *)

(* What was handed out lies in a live block, below the bump pointer.       *)
Below ==
  \A r \in regions :
    r.blk \in live /\ (r.blk \notin torn => r.off + r.len <= top[r.blk])

(* The bump pointer is a multiple of four, and therefore cannot step over  *)
(* the end of a block of a safe size.                                      *)
Aligned ==
  \A b \in live \ torn : /\ top[b] % 4 = 0
                         /\ SafeSize(size[b]) => top[b] <= size[b]

(* Who is between the check and the bump in a block where no one has met   *)
(* another there is alone, and what it has read of n still holds.          *)
Alone ==
  \A h \in Holder, b \in live \ torn :
    Taking(h, b) => /\ call[h].seen = top[b]
                    /\ Fits(b, call[h].need)
                    /\ \A g \in Holder : Taking(g, b) => g = h

RegionInv == Below /\ Aligned /\ Alone /\ RegionsDisjoint

(* The arithmetic of a bump within a block of a safe size.                 *)
LEMMA SafeBump ==
  ASSUME NEW a \in Nat, NEW n \in Nat, NEW needed \in Requests,
         SmallRequests, SafeSize(a), n <= a, n % 4 = 0, needed < a - n
  PROVE  n + Rounded(needed) <= a
<1>1. /\ needed \in Nat /\ Rounded(needed) \in Nat
      /\ Rounded(needed) < needed + 4
      /\ Rounded(needed) % 4 = 0
  BY RoundedBounds, MemAssumption
<1> DEFINE m == Rounded(needed)
<1>2. m \in Nat /\ m < needed + 4 /\ m % 4 = 0
  BY <1>1
<1>3. a % 4 \in {0, 1}
  BY DEF SafeSize
<1> HIDE DEF m
<1>4. n + m <= a
  BY <1>1, <1>2, <1>3
<1> QED
  BY <1>4 DEF m

(* A step that touches neither blocks nor regions and lets nobody in.      *)
LEMMA QuietStep ==
  ASSUME RegionInv,
         UNCHANGED <<live, size, top, regions, torn>>,
         \A h \in Holder : call'[h].at \in {"take", "bump"} =>
           call'[h] = call[h] /\ dcm'[h] = dcm[h]
  PROVE  RegionInv'
<1>1. Below' /\ Aligned' /\ RegionsDisjoint'
  BY DEF RegionInv, Below, Aligned, RegionsDisjoint, Overlap
<1>2. \A h \in Holder, b \in Block : Taking(h, b)' => Taking(h, b) /\ call'[h] = call[h]
  BY DEF Taking
<1>3. Alone'
  <2> SUFFICES ASSUME NEW h \in Holder, NEW b \in live \ torn, Taking(h, b)'
               PROVE  (/\ call[h].seen = top[b]
                       /\ Fits(b, call[h].need)
                       /\ \A g \in Holder : Taking(g, b) => g = h)'
    BY DEF Alone
  <2>1. Taking(h, b) /\ call'[h] = call[h]
    BY DEF Taking
  <2>2. \A g \in Holder : Taking(g, b)' => Taking(g, b)
    BY DEF Taking
  <2> QED
    BY <2>1, <2>2 DEF RegionInv, Alone, Fits, Avail
<1> QED
  BY <1>1, <1>3 DEF RegionInv

LEMMA RegionInvStep ==
  ASSUME SmallRequests, RegionInv, Typed, Typed', [Next]_vars
  PROVE  RegionInv'
<1> USE MemAssumption
<1>0. /\ \A h \in Holder : call[h].at # "out" => h \in users /\ dcm[h] \in live
      /\ \A h \in Holder, b \in Block : Taking(h, b) => b \in live
      /\ TypeOK
  BY DEF Typed, TypeOK, Taking
<1>1. ASSUME NEW n \in InitSizes, Create(n)
      PROVE  RegionInv'
  <2>1. PICK b \in Block \ live :
          /\ live' = live \cup {b}
          /\ size' = [size EXCEPT ![b] = n]
          /\ top' = [top EXCEPT ![b] = 0]
    BY <1>1 DEF Create
  <2>2. /\ UNCHANGED <<regions, torn, call>>
        /\ \A h \in Holder : call[h].at = "out"
    BY <1>1 DEF Create, Typed, TypeOK, Opened
  <2>3. /\ top'[b] = 0 /\ size'[b] = n /\ n \in Nat
        /\ \A c \in live : top'[c] = top[c] /\ size'[c] = size[c]
    BY <2>1 DEF Typed, TypeOK
  <2>4. Below' /\ Aligned'
    BY <2>1, <2>2, <2>3 DEF RegionInv, Below, Aligned
  <2>5. Alone' /\ RegionsDisjoint'
    BY <2>2 DEF RegionInv, Alone, Taking, RegionsDisjoint, Overlap
  <2> QED
    BY <2>4, <2>5 DEF RegionInv
<1>2. ASSUME NEW h \in Holder, Copy(h)
      PROVE  RegionInv'
  BY <1>0, <1>2, QuietStep DEF Copy, blocks, TypeOK
<1>3. ASSUME NEW h \in Holder, NEW needed \in Requests, Call(h, needed)
      PROVE  RegionInv'
  BY <1>0, <1>3, QuietStep DEF Call, blocks, TypeOK, CallRecord
<1>4. ASSUME NEW h \in Holder, CheckFits(h)
      PROVE  RegionInv'
  <2> DEFINE b == dcm[h]
  <2>1. /\ b \in live /\ Fits(b, call[h].need)
        /\ UNCHANGED <<live, size, top, dcm, regions>>
        /\ torn \subseteq torn'
        /\ b \notin torn' => \A g \in Holder \ {h} : ~Taking(g, b)
    BY <1>0, <1>4 DEF CheckFits, blocks
  <2>2. /\ call'[h].seen = top[b] /\ call'[h].need = call[h].need
        /\ \A g \in Holder \ {h} : call'[g] = call[g]
    BY <1>0, <1>4 DEF CheckFits, TypeOK, CallRecord
  <2>3. \A g \in Holder \ {h}, c \in Block : Taking(g, c)' <=> Taking(g, c)
    BY <2>1, <2>2 DEF Taking
  <2>4. \A c \in Block : Taking(h, c)' => c = b
    BY <2>1 DEF Taking
  <2>5. Below' /\ Aligned' /\ RegionsDisjoint'
    BY <2>1 DEF RegionInv, Below, Aligned, RegionsDisjoint, Overlap
  <2>6. Alone'
    <3> SUFFICES ASSUME NEW g \in Holder, NEW c \in live \ torn', Taking(g, c)'
                 PROVE  /\ call'[g].seen = top[c]
                        /\ Fits(c, call'[g].need)
                        /\ \A k \in Holder : Taking(k, c)' => k = g
      BY <2>1 DEF Alone, Fits, Avail
    <3>1. c \in Block /\ c \notin torn
      BY <1>0, <2>1 DEF TypeOK
    <3>2. CASE g = h
      BY <2>1, <2>2, <2>3, <2>4, <3>1, <3>2
    <3>3. CASE g # h
      <4>1. Taking(g, c) /\ call'[g] = call[g]
        BY <2>2, <2>3, <3>1, <3>3
      <4>2. c # b
        BY <2>1, <3>3, <4>1
      <4>3. \A k \in Holder : Taking(k, c)' => Taking(k, c)
        BY <2>3, <2>4, <3>1, <4>2
      <4> QED
        BY <3>1, <4>1, <4>3 DEF RegionInv, Alone
    <3> QED
      BY <3>2, <3>3
  <2> QED
    BY <2>5, <2>6 DEF RegionInv
<1>5. ASSUME NEW h \in Holder, CheckFull(h)
      PROVE  RegionInv'
  BY <1>0, <1>5, QuietStep DEF CheckFull, blocks, TypeOK, CallRecord
<1>6. ASSUME NEW h \in Holder, Take(h)
      PROVE  RegionInv'
  <2>1. PICK n \in Reads(h) : call' = [call EXCEPT ![h].at = "bump", ![h].seen = n]
    BY <1>6 DEF Take
  <2> DEFINE b == dcm[h]
  <2>2. b \in live /\ UNCHANGED <<live, size, top, dcm, regions, torn>>
    BY <1>0, <1>6 DEF Take, blocks
  <2>3. /\ call'[h].seen = n /\ call'[h].need = call[h].need
        /\ \A g \in Holder \ {h} : call'[g] = call[g]
    BY <1>0, <2>1 DEF TypeOK, CallRecord
  <2>4. Taking(h, b)
    BY <1>6 DEF Take, Taking
  <2>5. \A g \in Holder, c \in Block : Taking(g, c)' => Taking(g, c)
    BY <1>6, <2>2, <2>3 DEF Take, Taking
  <2>6. Below' /\ Aligned' /\ RegionsDisjoint'
    BY <2>2 DEF RegionInv, Below, Aligned, RegionsDisjoint, Overlap
  <2>7. Alone'
    <3> SUFFICES ASSUME NEW g \in Holder, NEW c \in live \ torn, Taking(g, c)'
                 PROVE  /\ call'[g].seen = top[c]
                        /\ Fits(c, call'[g].need)
                        /\ \A k \in Holder : Taking(k, c)' => k = g
      BY <2>2 DEF Alone, Fits, Avail
    <3>1. c \in Block /\ Taking(g, c)
      BY <1>0, <2>5 DEF TypeOK
    <3>2. call[g].seen = top[c] /\ Fits(c, call[g].need) /\ \A k \in Holder : Taking(k, c) => k = g
      BY <3>1 DEF RegionInv, Alone
    <3>3. call'[g].seen = top[c] /\ call'[g].need = call[g].need
      <4>1. CASE g = h
        BY <2>1, <2>3, <3>1, <3>2, <4>1 DEF Reads, Taking
      <4>2. CASE g # h
        BY <2>3, <3>2, <4>2
      <4> QED
        BY <4>1, <4>2
    <3> QED
      BY <2>5, <3>1, <3>2, <3>3
  <2> QED
    BY <2>6, <2>7 DEF RegionInv
<1>7. ASSUME NEW h \in Holder, Bump(h)
      PROVE  RegionInv'
  <2> DEFINE b == dcm[h]
             needed == call[h].need
             new == [blk |-> b, off |-> call[h].seen, len |-> needed, by |-> h]
  <2>1. PICK n \in Reads(h) : top' = [top EXCEPT ![b] = n + Rounded(needed)]
    BY <1>7 DEF Bump
  <2>2. /\ b \in live /\ b \in Block /\ Taking(h, b)
        /\ UNCHANGED <<live, size, dcm, torn>>
        /\ regions' = regions \cup {new}
        /\ top[b] \in Nat /\ size[b] \in Nat
        /\ needed \in Requests
    BY <1>0, <1>7 DEF Bump, Taking, TypeOK, blocks, Typed, CallsSmall
  <2>3. /\ needed \in Nat /\ Rounded(needed) \in Nat
        /\ needed <= Rounded(needed) /\ Rounded(needed) % 4 = 0
    BY <2>2, RoundedBounds
  <2>4. b \notin torn => /\ call[h].seen = top[b] /\ n = top[b]
                         /\ Fits(b, needed)
                         /\ \A g \in Holder : Taking(g, b) => g = h
    BY <2>1, <2>2 DEF RegionInv, Alone, Reads
  <2>5. \A c \in Block : c # b => top'[c] = top[c]
    BY <2>1, <2>2, <1>0 DEF TypeOK
  <2>6. b \notin torn => top'[b] = top[b] + Rounded(needed)
    BY <2>1, <2>2, <2>4, <1>0 DEF TypeOK
  <2>7. Below'
    <3>1. ASSUME NEW r \in regions
          PROVE  r.blk \in live' /\ (r.blk \notin torn' => r.off + r.len <= top'[r.blk])
      <4>1. r.blk \in Block /\ r.off \in Nat /\ r.len \in Nat /\ top[r.blk] \in Nat
        BY <1>0 DEF TypeOK, Region
      <4>2. r.blk \in live /\ (r.blk \notin torn => r.off + r.len <= top[r.blk])
        BY DEF RegionInv, Below
      <4>3. r.blk \notin torn => top[r.blk] <= top'[r.blk] /\ top'[r.blk] \in Nat
        BY <2>2, <2>3, <2>5, <2>6, <4>1
      <4> QED
        BY <2>2, <4>1, <4>2, <4>3
    <3>2. new.blk \in live' /\ (new.blk \notin torn' => new.off + new.len <= top'[new.blk])
      BY <2>2, <2>3, <2>4, <2>6
    <3> QED
      BY <2>2, <3>1, <3>2 DEF Below
  <2>8. Aligned'
    <3> SUFFICES ASSUME b \notin torn
                 PROVE  top'[b] % 4 = 0 /\ (SafeSize(size[b]) => top'[b] <= size[b])
      BY <2>2, <2>5, <1>0 DEF RegionInv, Aligned, TypeOK
    <3>1. top[b] % 4 = 0 /\ (SafeSize(size[b]) => top[b] <= size[b])
      BY <2>2 DEF RegionInv, Aligned
    <3>2. top'[b] % 4 = 0
      BY <2>2, <2>3, <2>6, <3>1
    <3>3. SafeSize(size[b]) => top'[b] <= size[b]
      <4> SUFFICES ASSUME SafeSize(size[b])
                   PROVE  top[b] + Rounded(needed) <= size[b]
        BY <2>6
      <4>1. needed < size[b] - top[b]
        BY <2>2, <2>4, <3>1 DEF Fits, Avail
      <4> QED
        BY <2>2, <3>1, <4>1, SafeBump
    <3> QED
      BY <3>2, <3>3
  <2>9. Alone'
    <3>1. \A g \in Holder, c \in Block : Taking(g, c)' => g # h /\ Taking(g, c) /\ call'[g] = call[g]
      BY <1>0, <1>7, <2>2 DEF Bump, Taking, Idle, TypeOK
    <3> SUFFICES ASSUME NEW g \in Holder, NEW c \in live \ torn, Taking(g, c)'
                 PROVE  (/\ call[g].seen = top[c]
                         /\ Fits(c, call[g].need)
                         /\ \A k \in Holder : Taking(k, c) => k = g)'
      BY <2>2 DEF Alone
    <3>2. c \in Block /\ g # h /\ Taking(g, c) /\ call'[g] = call[g]
      BY <1>0, <3>1 DEF TypeOK
    <3>3. c # b
      BY <2>4, <3>2
    <3>4. top'[c] = top[c] /\ size'[c] = size[c]
      BY <2>2, <2>5, <3>2, <3>3
    <3>5. call[g].seen = top[c] /\ Fits(c, call[g].need) /\ \A k \in Holder : Taking(k, c) => k = g
      BY <3>2 DEF RegionInv, Alone
    <3> QED
      BY <3>1, <3>2, <3>4, <3>5 DEF Fits, Avail
  <2>10. RegionsDisjoint'
    <3>1. b \notin torn => \A r \in regions : r.blk = b => r.off + r.len <= new.off
      BY <2>4 DEF RegionInv, Below
    <3>2. \A r \in regions : r.off \in Nat /\ r.len \in Nat
      BY <1>0 DEF TypeOK, Region
    <3>3. new.off \in Nat /\ new.len \in Nat /\ new.blk = b
      BY <1>0, <2>3 DEF TypeOK, CallRecord
    <3>4. \A r \in regions : b \notin torn => ~Overlap(r, new) /\ ~Overlap(new, r)
      <4> HIDE DEF new
      <4> QED
        BY <3>1, <3>2, <3>3 DEF Overlap
    <3>5. ~Overlap(new, new)
      BY DEF Overlap
    <3>6. \A r \in regions : r.blk \notin torn => \A s \in regions : ~Overlap(r, s)
      BY DEF RegionInv, RegionsDisjoint
    <3>7. \A r \in regions : r.blk # b => ~Overlap(r, new)
      BY <3>3 DEF Overlap
    <3> QED
      BY <2>2, <3>3, <3>4, <3>5, <3>6, <3>7 DEF RegionsDisjoint, Overlap
  <2> QED
    BY <2>7, <2>8, <2>9, <2>10 DEF RegionInv
<1>8. ASSUME NEW h \in Holder, Append(h)
      PROVE  RegionInv'
  <2> DEFINE n == NewSize(size[dcm[h]], call[h].need)
  <2>1. PICK b \in Block \ live :
          /\ live' = live \cup {b}
          /\ size' = [size EXCEPT ![b] = n]
          /\ top' = [top EXCEPT ![b] = 0]
          /\ call' = [call EXCEPT ![h].at = "move", ![h].made = b]
    BY <1>8 DEF Append
  <2>2. UNCHANGED <<dcm, regions, torn>>
    BY <1>8 DEF Append
  <2>3. /\ top'[b] = 0 /\ size'[b] \in Nat
        /\ \A c \in live : top'[c] = top[c] /\ size'[c] = size[c]
    BY <1>0, <2>1 DEF Typed, TypeOK
  <2>4. Below' /\ Aligned'
    BY <2>1, <2>2, <2>3 DEF RegionInv, Below, Aligned
  <2>5. RegionsDisjoint'
    BY <2>2 DEF RegionInv, RegionsDisjoint, Overlap
  <2>6. \A g \in Holder, c \in Block : Taking(g, c)' => c \in live /\ Taking(g, c) /\ call'[g] = call[g]
    <3> SUFFICES ASSUME NEW g \in Holder, NEW c \in Block, Taking(g, c)'
                 PROVE  c \in live /\ Taking(g, c) /\ call'[g] = call[g]
      OBVIOUS
    <3>1. call'[h].at = "move"
      BY <1>0, <2>1 DEF TypeOK, CallRecord
    <3>2. g # h
      BY <3>1 DEF Taking
    <3>3. call'[g] = call[g]
      BY <1>0, <2>1, <3>2 DEF TypeOK
    <3> QED
      BY <1>0, <2>2, <3>3 DEF Taking
  <2>7. Alone'
    <3> SUFFICES ASSUME NEW g \in Holder, NEW c \in live' \ torn', Taking(g, c)'
                 PROVE  (/\ call[g].seen = top[c]
                         /\ Fits(c, call[g].need)
                         /\ \A k \in Holder : Taking(k, c) => k = g)'
      BY DEF Alone
    <3>1. c \in Block
      BY <1>0, <2>1 DEF TypeOK
    <3>2. c \in live \ torn /\ Taking(g, c) /\ call'[g] = call[g]
      BY <2>2, <2>6, <3>1
    <3>3. call[g].seen = top[c] /\ Fits(c, call[g].need) /\ \A k \in Holder : Taking(k, c) => k = g
      BY <3>2 DEF RegionInv, Alone
    <3> QED
      BY <2>3, <2>6, <3>1, <3>2, <3>3 DEF Fits, Avail
  <2> QED
    BY <2>4, <2>5, <2>7 DEF RegionInv
<1>9. ASSUME NEW h \in Holder, Move(h)
      PROVE  RegionInv'
  <2>1. /\ call'[h].at = "check"
        /\ \A g \in Holder \ {h} : call'[g] = call[g] /\ dcm'[g] = dcm[g]
    BY <1>0, <1>9 DEF Move, TypeOK, CallRecord
  <2> QED
    BY <1>9, <2>1, QuietStep DEF Move, blocks
<1>10. ASSUME NEW h \in Holder, AllocFails(h)
       PROVE  RegionInv'
  BY <1>0, <1>10, QuietStep DEF AllocFails, blocks, TypeOK, Idle
<1>11. CASE Free
  <2>1. /\ live' = live \ Chain
        /\ regions' = {r \in regions : r.blk \notin Chain}
        /\ torn' = torn \ Chain /\ call' = call
        /\ \A h \in Holder : call[h].at = "out"
        /\ \A b \in Block \ Chain : size'[b] = size[b] /\ top'[b] = top[b]
    BY <1>11 DEF Free
  <2>2. Below'
    BY <1>0, <2>1 DEF RegionInv, Below, TypeOK
  <2>3. Aligned'
    BY <1>0, <2>1 DEF RegionInv, Aligned, TypeOK
  <2>4. RegionsDisjoint'
    BY <2>1 DEF RegionInv, RegionsDisjoint, Overlap, Below
  <2>5. Alone'
    BY <2>1 DEF Alone, Taking
  <2> QED
    BY <2>2, <2>3, <2>4, <2>5 DEF RegionInv
<1>12. CASE UNCHANGED vars
  BY <1>12, QuietStep DEF vars
<1> QED
  BY <1>1, <1>2, <1>3, <1>4, <1>5, <1>6, <1>7, <1>8, <1>9, <1>10, <1>11, <1>12 DEF Next

LEMMA RegionInvCorrect == SmallRequests => (Spec => []RegionInv)
<1> SUFFICES ASSUME SmallRequests
             PROVE  Spec => []RegionInv
  OBVIOUS
<1>1. Init => RegionInv
  BY DEF Init, RegionInv, Below, Aligned, Alone, RegionsDisjoint
<1>2. RegionInv /\ Typed /\ Typed' /\ [Next]_vars => RegionInv'
  BY RegionInvStep
<1> QED
  BY <1>1, <1>2, TypedCorrect, PTL DEF Spec

(* No two regions handed out of a block share a byte (da_cloud_mem_alloc), *)
(* for any sizes, requests and number of threads, each with its copy of    *)
(* the owner, whose steps interleave, in a block in which no two calls     *)
(* were between lines 67 and 70 at once; it is there that a lock is due.   *)
THEOREM Disjointness == SmallRequests => (Spec => []RegionsDisjoint)
<1>1. RegionInv => RegionsDisjoint
  BY DEF RegionInv
<1> QED
  BY <1>1, RegionInvCorrect, PTL

(* In such a block, when its size leaves a remainder of 0 or 1 modulo four *)
(* as the first block of every caller does, a region lies inside it.       *)
THEOREM Containment == SmallRequests => (Spec => []RegionsInBlock)
<1>1. RegionInv /\ Typed => RegionsInBlock
  <2> SUFFICES ASSUME RegionInv, Typed, NEW r \in regions,
                      SafeSize(size[r.blk]), r.blk \notin torn
               PROVE  r.off + r.len <= size[r.blk]
    BY DEF RegionsInBlock
  <2>1. r.off \in Nat /\ r.len \in Nat /\ r.blk \in Block
    BY DEF Typed, TypeOK, Region
  <2>2. r.blk \in live /\ r.off + r.len <= top[r.blk]
    BY DEF RegionInv, Below
  <2>3. top[r.blk] <= size[r.blk]
    BY <2>2 DEF RegionInv, Aligned
  <2> QED
    BY <2>1, <2>2, <2>3 DEF Typed, TypeOK
<1> QED
  BY <1>1, RegionInvCorrect, TypedCorrect, PTL

-----------------------------------------------------------------------------
(* Until two holders outgrow one block, links lead from live blocks to     *)
(* live blocks, whatever holds the first block and what its blocks link to *)
(* holds them all, and there are blocks only while there is a first one.   *)
ChainInv ==
  ~forked =>
    /\ \A p \in live : next[p] # NULL => next[p] \in live
    /\ \A b \in live : b = root \/ \E p \in live : next[p] = b
    /\ \A S \in SUBSET live :
         (root \in S /\ \A p \in S : next[p] # NULL => next[p] \in S) => S = live
    /\ live # {} => root \in live

(* A block appended behind one without a successor is reached by the       *)
(* chain, and whatever was reached still is.                               *)
LEMMA AppendReached ==
  ASSUME ChainInv, TypeOK, ~forked, root \in live,
         NEW old \in live, next[old] = NULL, NEW b \in Block \ live,
         live' = live \cup {b}, next' = Linked(old, b), root' = root,
         NEW S \in SUBSET live',
         root \in S, \A p \in S : next'[p] # NULL => next'[p] \in S
  PROVE  S = live'
<1>1. /\ next'[old] = b
      /\ \A p \in live : p # old => next'[p] = next[p]
  BY MemAssumption DEF Linked, TypeOK
<1> DEFINE T == S \ {b}
<1>2. T \in SUBSET live /\ root \in T
  OBVIOUS
<1>3. ASSUME NEW p \in T, next[p] # NULL
      PROVE  next[p] \in T
  <2>1. p # old /\ p \in live
    BY <1>2, <1>3
  <2>2. next[p] \in live
    BY <1>3, <2>1 DEF ChainInv
  <2>3. next'[p] = next[p]
    BY <1>1, <2>1
  <2> QED
    BY <1>3, <2>2, <2>3
<1>4. T = live
  BY <1>2, <1>3 DEF ChainInv
<1>5. b \in S
  BY <1>1, <1>4, MemAssumption DEF TypeOK
<1> QED
  BY <1>4, <1>5

(* A step that changes neither the chain nor its history.                  *)
LEMMA ChainStays ==
  ASSUME ChainInv, UNCHANGED <<live, next, root, forked>>
  PROVE  ChainInv'
BY DEF ChainInv

LEMMA ChainInvStep ==
  ASSUME ChainInv, Typed, Typed', [Next]_vars
  PROVE  ChainInv'
<1> USE MemAssumption
<1> SUFFICES ASSUME ~forked'
             PROVE  ChainInv'
  BY DEF ChainInv
<1>0. TypeOK
  BY DEF Typed
<1>1. ASSUME NEW n \in InitSizes, Create(n)
      PROVE  ChainInv'
  <2>1. PICK b \in Block \ live :
          /\ live' = live \cup {b}
          /\ next' = [next EXCEPT ![b] = NULL]
          /\ root' = b
    BY <1>1 DEF Create
  <2>2. live = {}
    BY <1>1 DEF Create, ChainInv
  <2>3. live' = {b} /\ next'[b] = NULL
    BY <1>0, <2>1, <2>2 DEF TypeOK
  <2> QED
    BY <2>1, <2>3 DEF ChainInv
<1>2. ASSUME NEW h \in Holder, Copy(h)
      PROVE  ChainInv'
  BY <1>2, ChainStays DEF Copy, blocks
<1>3. ASSUME NEW h \in Holder, NEW needed \in Requests, Call(h, needed)
      PROVE  ChainInv'
  BY <1>3, ChainStays DEF Call, blocks
<1>4. ASSUME NEW h \in Holder, CheckFits(h) \/ CheckFull(h)
      PROVE  ChainInv'
  BY <1>4, ChainStays DEF CheckFits, CheckFull, blocks
<1>5. ASSUME NEW h \in Holder, Take(h) \/ Bump(h)
      PROVE  ChainInv'
  BY <1>5, ChainStays DEF Take, Bump, blocks
<1>6. ASSUME NEW h \in Holder, Append(h)
      PROVE  ChainInv'
  <2> DEFINE old == dcm[h]
  <2>1. ~forked /\ root' = root /\ next[old] = NULL
    BY <1>6 DEF Append
  <2>2. old \in live /\ root \in live
    BY <1>6 DEF Append, Typed, TypeOK, Opened
  <2>3. PICK b \in Block \ live : live' = live \cup {b} /\ next' = Linked(old, b)
    BY <1>6 DEF Append
  <2>4. /\ next'[b] = NULL /\ next'[old] = b
        /\ \A p \in live : p # old => next'[p] = next[p]
    BY <1>0, <2>2, <2>3 DEF Linked, TypeOK
  <2>5. \A p \in live' : next'[p] # NULL => next'[p] \in live'
    BY <2>1, <2>3, <2>4 DEF ChainInv
  <2>6. \A c \in live' : c = root' \/ \E p \in live' : next'[p] = c
    <3>1. ASSUME NEW c \in live, c # root
          PROVE  \E p \in live' : next'[p] = c
      <4>1. PICK p \in live : next[p] = c
        BY <2>1, <3>1 DEF ChainInv
      <4>2. p # old
        BY <1>0, <2>1, <3>1, <4>1 DEF TypeOK
      <4> QED
        BY <2>3, <2>4, <4>1, <4>2
    <3> QED
      BY <2>1, <2>2, <2>3, <2>4, <3>1
  <2>7. \A S \in SUBSET live' :
          (root' \in S /\ \A p \in S : next'[p] # NULL => next'[p] \in S) => S = live'
    BY <1>0, <2>1, <2>2, <2>3, AppendReached
  <2> QED
    BY <2>1, <2>2, <2>3, <2>5, <2>6, <2>7 DEF ChainInv
<1>7. ASSUME NEW h \in Holder, Move(h) \/ AllocFails(h)
      PROVE  ChainInv'
  BY <1>7, ChainStays DEF Move, AllocFails, blocks
<1>8. CASE Free
  <2>1. ~forked /\ root \in live
    BY <1>8 DEF Free
  <2>2. \A b \in live : b \in Chain
    <3> SUFFICES ASSUME NEW b \in live, NEW S \in SUBSET live,
                        root \in S, \A p \in S : next[p] \in live => next[p] \in S
                 PROVE  b \in S
      BY DEF Chain
    <3>1. \A p \in S : next[p] # NULL => next[p] \in S
      BY <2>1 DEF ChainInv
    <3> QED
      BY <2>1, <3>1 DEF ChainInv
  <2>3. live' = {}
    BY <1>8, <2>2 DEF Free
  <2> QED
    BY <2>3 DEF ChainInv
<1>9. CASE UNCHANGED vars
  BY <1>9, ChainStays DEF vars
<1> QED
  BY <1>1, <1>2, <1>3, <1>4, <1>5, <1>6, <1>7, <1>8, <1>9 DEF Next

LEMMA ChainInvCorrect == SmallRequests => (Spec => []ChainInv)
<1> SUFFICES ASSUME SmallRequests
             PROVE  Spec => []ChainInv
  OBVIOUS
<1>1. Init => ChainInv
  BY MemAssumption DEF Init, ChainInv
<1>2. ChainInv /\ Typed /\ Typed' /\ [Next]_vars => ChainInv'
  BY ChainInvStep
<1> QED
  BY <1>1, <1>2, TypedCorrect, PTL DEF Spec

(* Until two holders outgrow one block (line 138), however many of them    *)
(* allocate and however their steps interleave, no block ever drops out of *)
(* the chain da_cloud_membuf_free follows.                                 *)
THEOREM ChainHoldsEveryBlock == SmallRequests => (Spec => []NoOrphan)
<1>1. ChainInv => NoOrphan
  BY DEF ChainInv, NoOrphan
<1> QED
  BY <1>1, ChainInvCorrect, PTL

(* da_cloud_membuf_free then leaves no block and no region behind.         *)
THEOREM NothingLeftBehind == SmallRequests => (Spec => []FreedEntirely)
<1>1. ChainInv /\ RegionInv => FreedEntirely
  BY DEF ChainInv, RegionInv, Below, FreedEntirely
<1> QED
  BY <1>1, ChainInvCorrect, RegionInvCorrect, PTL
=============================================================================
