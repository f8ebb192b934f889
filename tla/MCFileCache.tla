---------------------------- MODULE MCFileCache -----------------------------
(* Two processes and one file.  Of the two values one fills the buffer of   *)
(* stdio, so that set writes a part of it with the lock and a part without, *)
(* and ends in a second line; the other stays in the buffer as a whole.     *)
(* Neither ends with a page.                                                *)
EXTENDS FileCacheMmap, TLC

MCValues == {<<"a", "newline", "b">>, <<"d">>}
FileSymmetry == Permutations(Inode) \cup Permutations(Thread)
=============================================================================
