--------------------------- MODULE MCUnsignedDir ---------------------------
(* A small instance of UnsignedDir. *)
EXTENDS UnsignedDir

CONSTANTS f1, f2, w1, w2
===========================================================================
