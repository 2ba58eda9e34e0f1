--------------------------- MODULE MCProjectRounds ---------------------------
(* TLC instances of ProjectRounds. *)
EXTENDS ProjectRounds

CONSTANTS r1, r2

Two == {r1, r2}
=============================================================================
