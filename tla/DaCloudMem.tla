----------------------------- MODULE DaCloudMem -----------------------------
(***************************************************************************)
(* The memory pools of dacloud_mem.c.                                      *)
(*                                                                         *)
(* A pool is a chain of blocks (struct da_cloud_membuf, each with one      *)
(* struct da_cloud_mem).  Its owner keeps two pointers: root, the first    *)
(* block, given to da_cloud_membuf_free, and dcm, the block allocations    *)
(* are tried in, passed by address to da_cloud_membuf_alloc.  An           *)
(* allocation bumps the block's pointer n; a block too small is followed   *)
(* by a new, larger one and dcm moves on to it.  Nothing is ever given     *)
(* back but the whole chain.                                               *)
(*                                                                         *)
(* The structure that holds root and dcm is copied by value by some        *)
(* callers (examples/dacloud_mt.c copies struct da_cloud_config, and with  *)
(* it cache_dcm, once for each thread).  A Holder is one such copy, used   *)
(* by one thread: all share the blocks, each moves a dcm of its own.  No   *)
(* lock is taken, so an allocation is a sequence of steps between which    *)
(* the other holders take theirs.                                          *)
(*                                                                         *)
(* An address is a block and an offset into its payload: the pointers n    *)
(* and e of struct da_cloud_mem are top[b] and size[b].                    *)
(***************************************************************************)
EXTENDS Integers, FiniteSets

CONSTANTS
  Block,       \* identities of the blocks malloc can hand out
  NULL,        \* the null pointer
  Holder,      \* the copies of the structure that owns the pool
  Main,        \* the copy the pool was created in
  InitSizes,   \* the sizes callers pass to da_cloud_membuf_create
  Requests,    \* the sizes callers pass to da_cloud_membuf_alloc
  SIZE,        \* number of values of a size_t
  WORD,        \* number of values the mask 0xfffffffc keeps: 2^32
  LONG_MAX,    \* the bound on the size of a new block
  MaxRegions   \* bound of the model: calls begin below that many regions

ASSUME MemAssumption ==
  /\ NULL \notin Block
  /\ Main \in Holder
  /\ SIZE \in Nat \ {0} /\ WORD \in Nat \ {0} /\ LONG_MAX \in Nat
  /\ InitSizes \subseteq 1 .. (LONG_MAX - 1)
  /\ Requests \subseteq Nat \ {0}
  /\ WORD % 4 = 0
  /\ MaxRegions \in Nat

VARIABLES
  live,     \* the blocks allocated and not yet freed
  size,     \* size[b]: field a, and the distance of field e from the payload
  top,      \* top[b]: the offset of field n
  next,     \* next[b]: field n of struct da_cloud_membuf
  root,     \* the first block
  dcm,      \* dcm[h]: the current block of each holder
  call,     \* call[h]: where holder h is in da_cloud_membuf_alloc, its locals
  regions,  \* the memory handed out: [blk, off, len, by]
  users,    \* the holders that may still use the pool
  torn,     \* history: the blocks two calls took a region of at once
  forked    \* history: whether some block was given two successors

vars == <<live, size, top, next, root, dcm, call, regions, users, torn, forked>>
blocks == <<live, size, next>>

Region == [blk : Block, off : Nat, len : Nat, by : Holder]

Idle == [at |-> "out", need |-> 0, seen |-> 0, made |-> NULL]

CallRecord ==
  [at : {"out", "check", "take", "bump", "grow", "move"},
   need : Nat, seen : Nat, made : Block \cup {NULL}]

(* TypeOK also says that whoever may use the pool is at a live block, that *)
(* the link a call is about to follow leads to one (line 139), and that no *)
(* block has LONG_MAX bytes (line 132).                                    *)
TypeOK ==
  /\ live \in SUBSET Block
  /\ size \in [Block -> Nat]
  /\ top \in [Block -> Nat]
  /\ next \in [Block -> Block \cup {NULL}]
  /\ root \in Block \cup {NULL}
  /\ dcm \in [Holder -> Block \cup {NULL}]
  /\ call \in [Holder -> CallRecord]
  /\ regions \in SUBSET Region
  /\ users \in SUBSET Holder
  /\ torn \in SUBSET live
  /\ forked \in BOOLEAN
  /\ \A b \in live : size[b] < LONG_MAX
  /\ \A h \in Holder :
       /\ h \in users => dcm[h] \in live
       /\ h \notin users => call[h].at = "out"
       /\ call[h].at = "move" => {call[h].made, next[dcm[h]]} \subseteq live

-----------------------------------------------------------------------------
(* The arithmetic of da_cloud_mem_alloc and da_cloud_membuf_alloc.         *)

(* (size_t)(e - n): a difference below zero is a huge size_t.              *)
Avail(b) ==
  IF top[b] <= size[b] THEN size[b] - top[b] ELSE SIZE - (top[b] - size[b])

(* (needed + 3) & 0xfffffffc: a multiple of four, cut to 32 bits.          *)
Low32(x) == IF x < WORD THEN x ELSE x % WORD
RoundedDown(needed) == Low32(needed) - (needed % 4)            \* a mutant
Rounded(needed) == Low32(needed + 3) - ((needed + 3) % 4)

FitsExactly(b, needed) == needed <= Avail(b)                   \* a mutant
Fits(b, needed) == needed < Avail(b)

(* The size of the block appended when the current one is too small.       *)
NewSize(a, needed) == (a + (a \div 2 + needed)) % SIZE
AnySize(n) == TRUE                                             \* a mutant
Allowed(n) == n < LONG_MAX

-----------------------------------------------------------------------------
Init ==
  /\ live = {}
  /\ size = [b \in Block |-> 0]
  /\ top = [b \in Block |-> 0]
  /\ next = [b \in Block |-> NULL]
  /\ root = NULL
  /\ dcm = [h \in Holder |-> NULL]
  /\ call = [h \in Holder |-> Idle]
  /\ regions = {}
  /\ users = {}
  /\ torn = {}
  /\ forked = FALSE

(* da_cloud_membuf_create by the owner of the pool, and the assignment of  *)
(* root that follows it in every caller.  When malloc fails the callers    *)
(* keep no pool, which is a step that changes nothing.                     *)
Create(n) ==
  /\ root \notin live
  /\ \E b \in Block \ live :
       /\ live' = live \cup {b}
       /\ size' = [size EXCEPT ![b] = n]
       /\ top' = [top EXCEPT ![b] = 0]
       /\ next' = [next EXCEPT ![b] = NULL]
       /\ root' = b
       /\ dcm' = [dcm EXCEPT ![Main] = b]
  /\ users' = {Main}
  /\ UNCHANGED <<call, regions, torn, forked>>

(* The owning structure is copied by value by the thread that owns it.     *)
Copy(h) ==
  /\ Main \in users /\ h \notin users
  /\ call[Main].at = "out"
  /\ dcm' = [dcm EXCEPT ![h] = dcm[Main]]
  /\ users' = users \cup {h}
  /\ UNCHANGED <<blocks, top, root, call, regions, torn, forked>>

(* da_cloud_membuf_alloc is called (a holder has one thread).              *)
Call(h, needed) ==
  /\ h \in users
  /\ call[h].at = "out"
  /\ Cardinality(regions) < MaxRegions
  /\ call' = [call EXCEPT ![h].at = "check", ![h].need = needed]
  /\ UNCHANGED <<blocks, top, root, dcm, regions, users, torn, forked>>

(* h is between lines 67 and 70 of da_cloud_mem_alloc in block b.          *)
Taking(h, b) == call[h].at \in {"take", "bump"} /\ dcm[h] = b

(* Line 67: n is read, and the request fits or does not.                   *)
CheckFits(h) ==
  LET b == dcm[h]
  IN /\ call[h].at = "check"
     /\ Fits(b, call[h].need)
     /\ call' = [call EXCEPT ![h].at = "take", ![h].seen = top[b]]
     /\ torn' = torn \cup {c \in {b} : \E g \in Holder \ {h} : Taking(g, c)}
     /\ UNCHANGED <<blocks, top, root, dcm, regions, users, forked>>

CheckFull(h) ==
  /\ call[h].at = "check"
  /\ ~Fits(dcm[h], call[h].need)
  /\ call' = [call EXCEPT ![h].at = "grow"]
  /\ UNCHANGED <<blocks, top, root, dcm, regions, users, torn, forked>>

(* What a later line finds in n: its value, or, as nothing orders the      *)
(* accesses of two threads, the value the build kept of an earlier line.   *)
Reads(h) == {call[h].seen, top[dcm[h]]}

(* Line 69: region = n.                                                    *)
Take(h) ==
  /\ call[h].at = "take"
  /\ \E n \in Reads(h) : call' = [call EXCEPT ![h].at = "bump", ![h].seen = n]
  /\ UNCHANGED <<blocks, top, root, dcm, regions, users, torn, forked>>

(* Line 70: n += the rounded size; the region is returned.                 *)
Bump(h) ==
  LET b == dcm[h]
  IN /\ call[h].at = "bump"
     /\ \E n \in Reads(h) : top' = [top EXCEPT ![b] = n + Rounded(call[h].need)]
     /\ regions' = regions \cup
          {[blk |-> b, off |-> call[h].seen, len |-> call[h].need, by |-> h]}
     /\ call' = [call EXCEPT ![h] = Idle]
     /\ UNCHANGED <<blocks, root, dcm, users, torn, forked>>

(* The current block's field n becomes the new block, whose own is NULL.    *)
NotLinked(old, new) == [next EXCEPT ![new] = NULL]             \* a mutant
Linked(old, new) == [next EXCEPT ![new] = NULL, ![old] = new]

(* Lines 131 to 138: a larger block is made and linked after the current   *)
(* one, in the place of whatever was linked there.                         *)
Append(h) ==
  LET old == dcm[h]
      n == NewSize(size[old], call[h].need)
  IN /\ call[h].at = "grow"
     /\ Allowed(n)
     /\ \E b \in Block \ live :
          /\ live' = live \cup {b}
          /\ size' = [size EXCEPT ![b] = n]
          /\ top' = [top EXCEPT ![b] = 0]
          /\ next' = Linked(old, b)
          /\ call' = [call EXCEPT ![h].at = "move", ![h].made = b]
     /\ forked' = (forked \/ next[old] # NULL)
     /\ UNCHANGED <<root, dcm, regions, users, torn>>

(* Lines 139 and 141: the holder moves on to the block the current one is  *)
(* linked to (or, by a build that kept it, to the one it has just linked)  *)
(* and the recursive call checks there.                                    *)
Move(h) ==
  /\ call[h].at = "move"
  /\ \E b \in {next[dcm[h]], call[h].made} : dcm' = [dcm EXCEPT ![h] = b]
  /\ call' = [call EXCEPT ![h].at = "check", ![h].made = NULL]
  /\ UNCHANGED <<blocks, top, root, regions, users, torn, forked>>

(* A size of LONG_MAX or more (line 132) and a failing malloc (line 135)   *)
(* return NULL.                                                            *)
AllocFails(h) ==
  /\ call[h].at = "grow"
  /\ call' = [call EXCEPT ![h] = Idle]
  /\ UNCHANGED <<blocks, top, root, dcm, regions, users, torn, forked>>

(* The blocks da_cloud_membuf_free reaches from root along next.           *)
RootOnly == {root}                                             \* a mutant
Chain ==
  {b \in live :
     \A S \in SUBSET live :
       (root \in S /\ \A p \in S : next[p] \in live => next[p] \in S) => b \in S}

(* da_cloud_membuf_free(root), when the threads have been joined: every    *)
(* block of the chain goes, with what was handed out of it.  The pointers  *)
(* root and dcm are left as they are, dangling: it is the callers that use *)
(* none of them before the next create.  The fields of a freed block are   *)
(* no longer memory; they are given the value 0.                           *)
Free ==
  /\ root \in live
  /\ \A h \in Holder : call[h].at = "out"
  /\ live' = live \ Chain
  /\ regions' = {r \in regions : r.blk \notin Chain}
  /\ torn' = torn \ Chain
  /\ users' = {}
  /\ size' = [b \in Block |-> IF b \in Chain THEN 0 ELSE size[b]]
  /\ top' = [b \in Block |-> IF b \in Chain THEN 0 ELSE top[b]]
  /\ next' = [b \in Block |-> IF b \in Chain THEN NULL ELSE next[b]]
  /\ UNCHANGED <<root, dcm, call, forked>>

Next ==
  \/ \E n \in InitSizes : Create(n)
  \/ \E h \in Holder : Copy(h)
  \/ \E h \in Holder, needed \in Requests : Call(h, needed)
  \/ \E h \in Holder : CheckFits(h)
  \/ \E h \in Holder : CheckFull(h)
  \/ \E h \in Holder : Take(h)
  \/ \E h \in Holder : Bump(h)
  \/ \E h \in Holder : Append(h)
  \/ \E h \in Holder : Move(h)
  \/ \E h \in Holder : AllocFails(h)
  \/ Free

Spec == Init /\ [][Next]_vars

-----------------------------------------------------------------------------
Overlap(r, s) ==
  /\ r.blk = s.blk /\ r # s
  /\ r.off < s.off + s.len /\ s.off < r.off + r.len

(* Two regions handed out of one block, to one holder or to several, never *)
(* share a byte, in every block that no two calls took a region of at once *)
(* (from the check of line 67 to the bump of line 70).                     *)
RegionsDisjoint ==
  \A r, s \in regions : r.blk \notin torn => ~Overlap(r, s)

(* The same of every block, as the use of one pool from several threads    *)
(* would need it (examples/dacloud_mt.c): it does not hold.                *)
ThreadsDisjoint == \A r, s \in regions : ~Overlap(r, s)

(* The size of a block for which the bump pointer, always a multiple of    *)
(* four, cannot step over the end of the block.  The sizes callers create  *)
(* pools with (4096 and 4161 bytes) are such; the sizes of the blocks      *)
(* appended later depend on the request and need not be.                   *)
SafeSize(n) == n % 4 \in {0, 1}

(* Every region handed out of a block of such a size lies in the block, so *)
(* that its owner may write all of it, unless two calls took a region of   *)
(* the block at once.  In a block of another size the rounding of line 68  *)
(* can move n past e, after which every request fits.                      *)
RegionsInBlock ==
  \A r \in regions :
    (SafeSize(size[r.blk]) /\ r.blk \notin torn) => r.off + r.len <= size[r.blk]

(* Every block but the first is linked after another one, so that          *)
(* da_cloud_membuf_free finds it, however many holders allocate, until two *)
(* of them outgrow the same block: the successor the second links to it    *)
(* (line 138) takes the place of the first one's.                          *)
NoOrphan ==
  ~forked => \A b \in live : b = root \/ \E p \in live : next[p] = b

(* Freeing a pool none of whose blocks was outgrown twice leaves no block  *)
(* and no region behind.                                                   *)
FreedEntirely == (~forked /\ root \notin live) => (live = {} /\ regions = {})
=============================================================================
