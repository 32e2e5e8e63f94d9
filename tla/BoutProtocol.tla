---------------------------- MODULE BoutProtocol ----------------------------
(***************************************************************************)
(* What the rest of the server may rely on when it hands a command to the  *)
(* game engine, without any card in sight: in which phase which player may *)
(* act, how the phase answers, that the roles always belong to two players *)
(* who are still in, and that a bout waits for passes only while somebody  *)
(* still owes one.  The engine (DurakEngine) implements it; the service    *)
(* and its turn timer (LiveGame) run it.                                   *)
(***************************************************************************)
CONSTANT Players

VARIABLES
  status,      (* the phase, GameState.status                  *)
  attacker,    (* the primary attacker                         *)
  defender,
  passed,      (* passedPlayerIds                              *)
  out          (* finishedPlayers, as a set                    *)

gameVars == <<status, attacker, defender, passed, out>>

Statuses == {"bout_attack", "bout_defense", "bout_settle", "bout_take_pending", "game_over"}

(* The players who may throw cards at the defender. *)
Throwers == Players \ (out \cup {defender})

Init ==
  /\ status = "bout_attack" /\ passed = {} /\ out = {}
  /\ attacker \in Players /\ defender \in Players \ {attacker}

-----------------------------------------------------------------------------
(* The phase changes, the roles and the players who are in do not. *)
Phase(s, ps) == status' = s /\ passed' = ps /\ UNCHANGED <<attacker, defender, out>>

(* A bout is over: some players may have gone out, and either two who are still *)
(* in open the next bout or the game ends.                                      *)
Closed ==
  \E gone \in SUBSET Players :
    /\ out \subseteq gone
    /\ out' = gone /\ passed' = {}
    /\ \/ /\ \A p, q \in Players \ gone : p = q
          /\ status' = "game_over" /\ UNCHANGED <<attacker, defender>>
       \/ /\ status' = "bout_attack"
          /\ attacker' \in Players \ gone
          /\ defender' \in Players \ (gone \cup {attacker'})

Throw(p) ==
  /\ p \in Throwers
  /\ status # "game_over"
  /\ status = "bout_attack" => p = attacker
  /\ \/ Phase("bout_defense", {})
     \/ status = "bout_take_pending" /\ (Phase("bout_take_pending", {}) \/ Closed)

Beat(p) ==
  /\ p = defender /\ status = "bout_defense"
  /\ Phase("bout_defense", {}) \/ Phase("bout_settle", {}) \/ Closed

Translate(p) ==
  /\ p = defender /\ status = "bout_defense"
  /\ attacker' = defender
  /\ defender' \in Throwers
  /\ passed' = {}
  /\ UNCHANGED <<status, out>>

MayTake(p) == p = defender /\ status \in {"bout_defense", "bout_settle"}

Take(p) ==
  /\ MayTake(p)
  /\ Phase("bout_take_pending", {}) \/ Closed

MayPass(p) == p \in Throwers \ passed /\ status \in {"bout_settle", "bout_take_pending"}

Pass(p) ==
  /\ MayPass(p)
  /\ \/ Closed
     \/ ~(Throwers \subseteq passed \cup {p}) /\ Phase(status, passed \cup {p})

(* A cheat is called out and rolled back. *)
NoticeCheat(p) ==
  /\ p \in Players \ out
  /\ \/ status = "bout_take_pending" /\ Phase(status, passed)
     \/ /\ status \in {"bout_defense", "bout_settle"}
        /\ Phase("bout_defense", passed) \/ Phase("bout_settle", passed)

(* What a command of player p may do to the game. *)
Move(p) == Throw(p) \/ Beat(p) \/ Translate(p) \/ Take(p) \/ Pass(p) \/ NoticeCheat(p)

Next == \E p \in Players : Move(p)

Spec == Init /\ [][Next]_gameVars
=============================================================================
