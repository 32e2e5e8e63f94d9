---------------------------- MODULE MCMatchmaking ----------------------------
EXTENDS Matchmaking, TLC

CONSTANTS A, B, C, L1, L2, c1, c2

MCGames == 1..2
MCThreeGames == 1..3

MCDefaults == [maxPlayers |-> 2, deckSize |-> 36]
MCValues == [maxPlayers |-> {2, 3}, deckSize |-> {36, 52}]

(* Two values of a setting, and one that is out of range. *)
MCPatches == {"deckSize" :> 36, "deckSize" :> 52, "maxPlayers" :> 9}

(* Users, lobbies and slots are interchangeable. *)
Symmetric ==
  {p @@ q @@ r : p \in Permutations({A, B}), q \in Permutations({L1, L2}),
                 r \in Permutations({c1, c2})}

=============================================================================
