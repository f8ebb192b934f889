-------------------------- MODULE MCFileCacheKeys ---------------------------
(* Two processes, two keys and two files, so that the file an unlink has    *)
(* left without a name may come to hold the values of the other key.  The   *)
(* value fills the buffer of stdio, ends in a second line, and fills the    *)
(* last page of its file: what a get can read of it with a mapping has a    *)
(* hole that a dead writer has left.                                        *)
EXTENDS FileCacheMmap, TLC

MCValues == {<<"a", "newline", "b">>}
FileSymmetry == Permutations(Inode) \cup Permutations(Thread) \cup Permutations(Key)
=============================================================================
