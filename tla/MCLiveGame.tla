---------------------------- MODULE MCLiveGame ----------------------------
(* Small instances of LiveGame. *)
EXTENDS LiveGame, TLC

CONSTANTS a, b, c

Two == {a, b}
Three == {a, b, c}

(* Players differ in nothing but their names. *)
Symmetry == Permutations(Players)
=============================================================================
