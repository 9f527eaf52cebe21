--------------------------- MODULE MCFuseServer ---------------------------
(* A small instance of FuseServer. *)
EXTENDS FuseServer

CONSTANTS lk, rd, fg, pk, rl, main, sub

MCKind == [r \in Reqs |->
    CASE r = lk -> "lookup"
      [] r = rd -> "read"
      [] r = fg -> "forget"
      [] r = pk -> "pkg"
      [] OTHER -> "release"]
===========================================================================
