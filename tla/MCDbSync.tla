----------------------------- MODULE MCDbSync -----------------------------
(* Small instances of DbSync. *)
EXTENDS DbSync

CONSTANTS nA, nB, a1, a2, b1, stableA

\* a1 and a2 are two builds under one name
MCNameOf == [h \in Hashes |-> IF h = b1 THEN nB ELSE nA]
MCWalk == <<a1, a2, b1>>
===========================================================================
