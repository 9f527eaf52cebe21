---------------------------- MODULE InodeSpace ----------------------------
(***************************************************************************)
(* What the rest of the program relies on where inode numbers of packages  *)
(* are concerned: one space of numbers in which every package gets, at     *)
(* most once, a range of its own above the special numbers, and of which   *)
(* the kernel is only told what is reserved.                               *)
(***************************************************************************)
EXTENDS Naturals

CONSTANTS
    Pkgs,       \* packages
    Size,       \* how many numbers each of them needs
    FirstIno    \* first number that may be reserved

VARIABLES
    base,       \* first number of a package's range, 0 when it has none
    answered    \* packages a number of which was given to the kernel

vars == <<base, answered>>

Init ==
    /\ base = [p \in Pkgs |-> 0]
    /\ answered = {}

\* the range of p, as of b, has no number in common with that of q
Apart(b, p, q) == b[p] + Size[p] <= b[q] \/ b[q] + Size[q] <= b[p]

Reserve(p) ==
    /\ base[p] = 0
    /\ base' = [base EXCEPT ![p] = base'[p]]
    /\ base'[p] >= FirstIno
    /\ \A q \in Pkgs \ {p} : base[q] # 0 => Apart(base', p, q)
    /\ UNCHANGED answered

Answer(p) ==
    /\ base[p] # 0
    /\ answered' = answered \cup {p}
    /\ UNCHANGED base

Next == \E p \in Pkgs : Reserve(p) \/ Answer(p)

Spec == Init /\ [][Next]_vars
=============================================================================
