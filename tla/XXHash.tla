-------------------------------- MODULE XXHash --------------------------------
(***************************************************************************)
(* XXH32 and XXH64 of import/xxhash.h, at once over a whole input and      *)
(* piece by piece through a state.  da_cloud_header_add hashes its buffer  *)
(* with XXH64 at once.                                                     *)
(*                                                                         *)
(* How bits are mixed is left out: a round, a merge or an avalanche is     *)
(* taken to keep what it is given, so that an accumulator is the sequence  *)
(* of the words mixed into it, and a hash is the record of what went where *)
(* and in which order.  Two inputs with the same record have the same hash *)
(* in the code; two with different records are taken to have different     *)
(* ones.  A byte is any value, an input a sequence of bytes.               *)
(***************************************************************************)
EXTENDS Integers, Sequences, TLC

CONSTANT LENGTHS   \* numbers total_len_32 can be: 2^32; a model takes fewer

(* Two inputs shorter than a stripe of XXH32 are together no longer than   *)
(* total_len_32 can tell.                                                  *)
ASSUME LengthsAssumption == LENGTHS \in Nat /\ LENGTHS > 30

(* s in words of n bytes, and what is left of it then.                     *)
Words(s, n) == [k \in 1 .. Len(s) \div n |-> SubSeq(s, (k - 1) * n + 1, k * n)]
Rest(s, n) == SubSeq(s, (Len(s) \div n) * n + 1, Len(s))

(* The four accumulators after the whole stripes of s: a round for each    *)
(* word, the words dealt to the four in turn.                              *)
Rounds(v, s, lane) ==
  LET w == Words(s, lane)
  IN [n \in 1 .. 4 |-> v[n] \o [k \in 1 .. Len(w) \div 4 |-> w[4 * (k - 1) + n]]]

Seeds(seed) == [n \in 1 .. 4 |-> <<seed>>]

(* The hash before its last bytes: of all four accumulators, or of the     *)
(* third alone, which still is the seed.                                   *)
Start(v, large) == IF large THEN v ELSE <<v[3]>>

-----------------------------------------------------------------------------
(* XXH32: words of four bytes in stripes of 16.                            *)
XXH32_finalize(h, s) == h @@ [tail |-> Words(s, 4) \o Words(Rest(s, 4), 1)]

XXH32(s, seed) ==
  XXH32_finalize([start |-> Start(Rounds(Seeds(seed), s, 4), Len(s) >= 16),
                  len |-> Len(s) % LENGTHS], Rest(s, 16))

XXH32_reset(seed) ==
  [total_len |-> 0, large_len |-> FALSE, v |-> Seeds(seed), mem |-> <<>>]

(* The length is kept modulo 2^32, and that there were 16 bytes apart.     *)
LargeNow(st, s, total) == Len(s) >= 16 \/ total >= 16          \* a mutant
Large(st, s, total) == st.large_len \/ Len(s) >= 16 \/ total >= 16

XXH32_update(st, s) ==
  LET total == (st.total_len + Len(s)) % LENGTHS
      fill == IF st.mem = <<>> THEN 0 ELSE 16 - Len(st.mem)
      rest == SubSeq(s, fill + 1, Len(s))
      counted == [st EXCEPT !.total_len = total, !.large_len = Large(st, s, total)]
  IN IF Len(st.mem) + Len(s) < 16
     THEN [counted EXCEPT !.mem = @ \o s]
     ELSE [counted EXCEPT
             !.v = Rounds(Rounds(@, st.mem \o SubSeq(s, 1, fill), 4), rest, 4),
             !.mem = Rest(rest, 16)]

XXH32_digest(st) ==
  XXH32_finalize([start |-> Start(st.v, st.large_len), len |-> st.total_len], st.mem)

-----------------------------------------------------------------------------
(* XXH64: words of eight bytes in stripes of 32; at the end one of four.   *)
XXH64_finalize(h, s) ==
  h @@ [tail |-> Words(s, 8) \o Words(Rest(s, 8), 4) \o Words(Rest(s, 4), 1)]

XXH64(s, seed) ==
  XXH64_finalize([start |-> Start(Rounds(Seeds(seed), s, 8), Len(s) >= 32),
                  len |-> Len(s)], Rest(s, 32))

XXH64_reset(seed) == [total_len |-> 0, v |-> Seeds(seed), mem |-> <<>>]

XXH64_update(st, s) ==
  LET fill == IF st.mem = <<>> THEN 0 ELSE 32 - Len(st.mem)
      rest == SubSeq(s, fill + 1, Len(s))
      counted == [st EXCEPT !.total_len = @ + Len(s)]
  IN IF Len(st.mem) + Len(s) < 32
     THEN [counted EXCEPT !.mem = @ \o s]
     ELSE [counted EXCEPT
             !.v = Rounds(Rounds(@, st.mem \o SubSeq(s, 1, fill), 8), rest, 8),
             !.mem = Rest(rest, 32)]

(* The last bytes are as many as the length says, modulo 32, and not as    *)
(* memsize says.                                                           *)
XXH64_digest(st) ==
  XXH64_finalize([start |-> Start(st.v, st.total_len >= 32), len |-> st.total_len],
                 SubSeq(st.mem, 1, st.total_len % 32))
=============================================================================
