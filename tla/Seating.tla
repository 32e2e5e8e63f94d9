------------------------------- MODULE Seating -------------------------------
(***************************************************************************)
(* Who sits in which game, as the parts around a game see it: the games    *)
(* that were dealt, whether they are over, and the pointer                 *)
(* `userInGame:<userId>` from a user to a game.  Games are dealt by        *)
(* GamesService.createFromComposition, which lobbies.service.ts calls when *)
(* a lobby starts and rematch.service.ts when everybody agreed to play     *)
(* again; the cards themselves are the subject of DurakEngine.             *)
(***************************************************************************)
EXTENDS Naturals, FiniteSets

CONSTANTS Users,      \* everybody with an account
          Games,      \* game ids, in the order they are drawn: 1..n
          NoGame,     \* no pointer
          Null        \* nothing there

ASSUME GamesAssumption ==
  IsFiniteSet(Games) /\ Games = 1..Cardinality(Games) /\ 1 \in Games

VARIABLES game,       \* the games dealt so far, by id
          inGame,     \* userInGame:<userId>
          up          \* the API process runs

seatingVars == <<game, inGame, up>>

Dealt == DOMAIN game

Finished(g) == g \in Dealt /\ game[g].over

(* createFromComposition: the engine deals, the profiles are loaded, and
   persistNew writes the game, its index entry and one pointer per seat in a
   single multi.  A pointer to another game is overwritten. *)
CreateFromComposition(g, players) ==
  /\ g = Cardinality(Dealt) + 1
  /\ g \in Games
  /\ game' = [h \in Dealt \cup {g} |->
                IF h = g THEN [players |-> players, over |-> FALSE]
                         ELSE game[h]]
  /\ inGame' = [u \in Users |-> IF u \in players THEN g ELSE inGame[u]]

(* persistMutation with status game_over: the pointers of all seats are
   deleted, whatever they point at by now. *)
GameEnds(g) ==
  /\ up
  /\ g \in Dealt /\ ~game[g].over
  /\ game' = [game EXCEPT ![g].over = TRUE]
  /\ inGame' = [u \in Users |->
                  IF u \in game[g].players THEN NoGame ELSE inGame[u]]
  /\ UNCHANGED up

SeatingTypeOK ==
  /\ Dealt \subseteq Games
  /\ \A g \in Dealt : game[g] \in [players : SUBSET Users, over : BOOLEAN]
  /\ inGame \in [Users -> Games \cup {NoGame}]
  /\ up \in BOOLEAN

=============================================================================
