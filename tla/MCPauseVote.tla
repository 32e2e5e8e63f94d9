---------------------------- MODULE MCPauseVote ----------------------------
(* Small instances of PauseVote. *)
EXTENDS PauseVote, TLC

CONSTANTS a, b, c

Two == {a, b}
Three == {a, b, c}

(* Players differ in nothing but their names. *)
Symmetry == Permutations(Players)
=============================================================================
