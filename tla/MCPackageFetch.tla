-------------------------- MODULE MCPackageFetch --------------------------
(* A small instance of PackageFetch. *)
EXTENDS PackageFetch

CONSTANTS t1, t2, t3
===========================================================================
