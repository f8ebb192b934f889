----------------------------- MODULE XXHashStream -----------------------------
(***************************************************************************)
(* An input hashed piece by piece through an XXH32_state_t and an          *)
(* XXH64_state_t (import/xxhash.h): reset, any number of updates, a digest *)
(* at any time, and reset again.                                           *)
(***************************************************************************)
EXTENDS XXHash

CONSTANT MaxLength   \* bound of the model: bytes of an input

ASSUME MaxLengthAssumption == MaxLength \in Nat

VARIABLES
  fed,     \* history: the input so far
  st32,    \* the XXH32_state_t
  st64     \* the XXH64_state_t

stream == <<fed, st32, st64>>

(* Bytes that tell places apart.                                           *)
Piece(n) == [k \in 1 .. n |-> Len(fed) + k]

StreamInit ==
  /\ fed = <<>>
  /\ st32 = XXH32_reset(0)
  /\ st64 = XXH64_reset(0)

Reset ==
  /\ fed' = <<>>
  /\ st32' = XXH32_reset(0)
  /\ st64' = XXH64_reset(0)

Update ==
  \E n \in 0 .. MaxLength - Len(fed) :
    /\ fed' = fed \o Piece(n)
    /\ st32' = XXH32_update(st32, Piece(n))
    /\ st64' = XXH64_update(st64, Piece(n))

StreamNext == Reset \/ Update

StreamSpec == StreamInit /\ [][StreamNext]_stream
-----------------------------------------------------------------------------
(* An input handed over in pieces, wherever it is cut, has at any time the *)
(* hash it has at once: also where a piece ends inside a stripe, fills the *)
(* buffer exactly, or is empty, and where the length has passed what       *)
(* total_len_32 can hold (lines 2173-2244, 2588-2657).                     *)
StreamingAgrees ==
  /\ XXH32_digest(st32) = XXH32(fed, 0)
  /\ XXH64_digest(st64) = XXH64(fed, 0)
=============================================================================
