---------------------------- MODULE MCPkgInodes ----------------------------
(* Small instances of PkgInodes. *)
EXTENDS PkgInodes, TLC

CONSTANTS main, sub, t1, t2, t3, hA, hB, hC, u1, u2

\* hA and hB live in the main database, everything else in the sub-database
MCHome == [p \in Pkgs |-> IF p \in {hA, hB, u2} THEN main ELSE sub]
MCInoCnt == [p \in Pkgs |-> IF p = hA THEN 2 ELSE 1]

\* the goroutines are interchangeable
Sym == Permutations(Threads)
============================================================================
