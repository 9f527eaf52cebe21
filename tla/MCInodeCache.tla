--------------------------- MODULE MCInodeCache ---------------------------
(* A small instance of InodeCache. *)
EXTENDS InodeCache

CONSTANTS t1, t2, t3, o1, o2, o3, o4
===========================================================================
