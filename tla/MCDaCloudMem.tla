---------------------------- MODULE MCDaCloudMem ----------------------------
(* Small pools: a first block of 8 or 9 bytes stands for the 4096 and 4161 *)
(* of the callers (the same residues modulo four), the requests have every *)
(* residue, and a word of 64 values keeps the mask of line 68 out of reach *)
(* of the requests, as 2^32 is out of reach of a header or a property.     *)
EXTENDS DaCloudMem, TLC

MCInitSizes == {8, 9}
MCRequests == {1, 4, 6, 7}
BlockSymmetry == Permutations(Block)
=============================================================================
