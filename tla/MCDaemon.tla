----------------------------- MODULE MCDaemon -----------------------------
(* A small instance of Daemon. *)
EXTENDS Daemon

CONSTANTS r1, r2
===========================================================================
