----------------------------- MODULE MCDbLife -----------------------------
(* A small instance of DbLife. *)
EXTENDS DbLife

CONSTANTS main, o1, o2, here, there, t1, t2, closer, c1

\* the main database is up to date, the other one appears and is published
MCMaxVersion == [p \in Files |-> 1]
===========================================================================
