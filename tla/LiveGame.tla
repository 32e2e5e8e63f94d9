------------------------------ MODULE LiveGame ------------------------------
(***************************************************************************)
(* One game as the API server runs it (games.service.ts with               *)
(* games-turn-timer.service.ts and the pause record of                     *)
(* games-pause.service.ts).  The stored game is a BoutProtocol state in    *)
(* Redis.  Three handlers change it, each under the per-game lock: a       *)
(* player's command, the forced action of an expired turn timer, and the   *)
(* concede that ends a paused game.  Around them players disconnect and    *)
(* come back, Postgres refuses or loses answers, the lock's TTL lapses,    *)
(* Redis fails after a write, and the process crashes and restarts.        *)
(*                                                                         *)
(* The turn timer is on (settings.turnTimer # null).  Waiting times are    *)
(* not counted: a timer may fire at any moment after it was armed.         *)
(***************************************************************************)
EXTENDS Integers, FiniteSets

CONSTANTS
  Players,
  Nobody,      (* no player, no handler: null                                   *)
  Attempts,    (* FINALIZE_MAX_ATTEMPTS                                         *)
  MaxDrops,    (* bound: how many disconnections a run may see                  *)
  MaxFaults    (* bound: how many crashes and Redis errors a run may see        *)

ASSUME LiveGameAssumption ==
  /\ Nobody \notin Players \cup {"command", "expiry", "concede", "dead"}
  /\ Attempts \in Nat \ {0} /\ MaxDrops \in Nat /\ MaxFaults \in Nat

VARIABLES
  status, attacker, defender, passed, out,    (* the game stored in Redis, see BoutProtocol *)
  loser,       (* loserPlayerId of the stored game                               *)
  missing,     (* disconnectedUserIds of the pause record; empty: no record      *)
  leaving,     (* players whose teardown handler has read the game and is about  *)
               (* to mark them                                                   *)
  snapshot,    (* activeUserId of the Redis key turn-timer:<id>, or Nobody       *)
  timer,       (* the in-memory timeout is armed                                 *)
  lock,        (* the handler whose token the lock key holds, Nobody without a   *)
               (* key, "dead" when its handler ended in a crash                  *)
  pc,          (* where each handler is                                          *)
  forced,      (* the command the expiry handler has decided on                  *)
  conceded,    (* the players the concede handler was called for                 *)
  attempt,     (* failed attempts to finalise                                    *)
  rated,       (* how often the result was committed to Postgres                 *)
  listed,      (* the game is on the games:failed_finalizations list             *)
  up,          (* the server process runs                                        *)
  drops, faults,                               (* disconnections and faults so far *)
  (* History, read by the properties only.                                       *)
  tick,        (* flips whenever the stored game changes                         *)
  slipped      (* moves made since the pause record appeared                     *)

Bout == INSTANCE BoutProtocol

game == <<status, attacker, defender, passed, out>>
clock == <<snapshot, timer>>
ending == <<attempt, rated, listed>>
history == <<tick, slipped>>
vars == <<game, loser, missing, leaving, clock, lock, pc, forced, conceded, ending,
          up, drops, faults, history>>

Handlers == {"command", "expiry", "concede"}
Stages == {"idle", "fired", "waiting", "loaded", "stored", "finalising", "reconciling"}
Forced == [type : {"take", "pass"}, player : Players]
NoForced == [type |-> "none", player |-> Nobody]

Paused == missing # {}
Busy(h) == pc[h] # "idle"

(* Whose clock runs.  A stored bout_attack has an empty table (PhaseFits in *)
(* DurakEngineProofs), so nobody is on the clock there.                     *)
ActiveUser ==
  CASE status = "bout_defense" -> defender
    [] status \in {"bout_settle", "bout_take_pending"} -> attacker
    [] OTHER -> Nobody

Init ==
  /\ Bout!Init
  /\ loser = Nobody /\ missing = {} /\ leaving = {}
  /\ snapshot = Nobody /\ timer = FALSE
  /\ lock = Nobody /\ pc = [h \in Handlers |-> "idle"]
  /\ forced = NoForced /\ conceded = {}
  /\ attempt = 0 /\ rated = 0 /\ listed = FALSE
  /\ up = TRUE /\ drops = 0 /\ faults = 0
  /\ tick = 0 /\ slipped = 0

-----------------------------------------------------------------------------
(* The lock. *)

Goto(h, stage) == pc' = [pc EXCEPT ![h] = stage]

(* Mutant: the key is deleted whoever's token it holds. *)
Release_AnyToken(h) == lock' = Nobody

(* The release deletes the key only while it holds the handler's own token. *)
Release(h) == lock' = IF lock = h THEN Nobody ELSE lock

Leave(h) ==
  /\ Goto(h, "idle") /\ Release(h)
  /\ forced' = IF h = "expiry" THEN NoForced ELSE forced
  /\ conceded' = IF h = "concede" THEN {} ELSE conceded

(* Mutant: a command does not look for the pause record. *)
Enter_Unchecked(h) ==
  /\ up /\ lock = Nobody
  /\ pc[h] = IF h = "command" THEN "idle" ELSE "waiting"
  /\ lock' = h /\ Goto(h, "loaded") /\ UNCHANGED <<forced, conceded>>
  /\ UNCHANGED <<game, loser, missing, leaving, clock, ending, up, drops, faults, history>>

(* A command needs no preparation; the others wait for the lock with their  *)
(* argument.  With the lock in hand the game is loaded and, but for the     *)
(* concede, refused while the pause record exists.                          *)
Enter(h) ==
  /\ up /\ lock = Nobody
  /\ pc[h] = IF h = "command" THEN "idle" ELSE "waiting"
  /\ \/ /\ h = "concede" \/ ~Paused
        /\ lock' = h /\ Goto(h, "loaded") /\ UNCHANGED <<forced, conceded>>
     \/ h = "expiry" /\ Paused /\ Leave(h)
  /\ UNCHANGED <<game, loser, missing, leaving, clock, ending, up, drops, faults, history>>

(* The lock key belongs to a finalisation, which sleeps and retries, or to a *)
(* handler that a crash ended.                                               *)
Outliving == lock = "dead" \/ (lock \in Handlers /\ pc[lock] = "finalising")

(* The lock could not be had within LOCK_MAX_ATTEMPTS polls, about a second: *)
(* GameBusyError.  A healthy holder keeps it that long only to finalise.     *)
Busied(h) ==
  /\ up /\ pc[h] = "waiting" /\ Outliving
  /\ Leave(h)
  /\ UNCHANGED <<game, loser, missing, leaving, clock, ending, up, drops, faults, history>>

(* LOCK_TTL_MS runs out. *)
LockLapses ==
  /\ Outliving /\ lock' = Nobody
  /\ UNCHANGED <<game, loser, missing, leaving, clock, pc, forced, conceded, ending, up,
                 drops, faults, history>>

-----------------------------------------------------------------------------
(* The game changes: persistMutation. *)

Moved(h) ==
  /\ Goto(h, "stored")
  /\ tick' = 1 - tick
  /\ slipped' = IF Paused /\ h # "concede" THEN slipped + 1 ELSE slipped
  /\ UNCHANGED <<missing, leaving, clock, lock, forced, conceded, ending, up, drops, faults>>

(* The one player left in is the loser; nobody left in is a draw. *)
LoserOf(gone) ==
  IF Players \subseteq gone THEN Nobody ELSE CHOOSE p \in Players : p \notin gone

Apply(h, move) ==
  /\ up /\ pc[h] = "loaded"
  /\ move
  /\ loser' = IF status' = "game_over" THEN LoserOf(out') ELSE Nobody
  /\ Moved(h)

CommandMoves == Apply("command", \E p \in Players : Bout!Move(p))

ForcedAllowed ==
  \/ forced.type = "take" /\ Bout!MayTake(forced.player)
  \/ forced.type = "pass" /\ Bout!MayPass(forced.player)

ExpiryMoves ==
  Apply("expiry", \/ forced.type = "take" /\ Bout!Take(forced.player)
                  \/ forced.type = "pass" /\ Bout!Pass(forced.player))

(* concedeGame: one of the conceded loses, everybody else is finished. *)
ConcedeMoves ==
  /\ up /\ pc["concede"] = "loaded" /\ status # "game_over"
  /\ \E first \in conceded :
       /\ loser' = first
       /\ out' = out \cup (Players \ conceded) \cup (conceded \ {first})
  /\ status' = "game_over" /\ UNCHANGED <<attacker, defender, passed>>
  /\ Moved("concede")

(* The command is refused: by the engine, or because a command was not the  *)
(* caller's; a concede finds the game over.                                 *)
Refused(h) ==
  /\ up /\ pc[h] = "loaded"
  /\ \/ h = "command"
     \/ h = "expiry" /\ ~ForcedAllowed
     \/ h = "concede" /\ status = "game_over"
  /\ Leave(h)
  /\ UNCHANGED <<game, loser, missing, leaving, clock, ending, up, drops, faults, history>>

(* A concede drops the pause record; then a finished game is finalised and  *)
(* any other goes straight to its clock.                                    *)
Stored(h) ==
  /\ up /\ pc[h] = "stored"
  /\ missing' = IF h = "concede" THEN {} ELSE missing
  /\ slipped' = IF h = "concede" THEN 0 ELSE slipped
  /\ Goto(h, IF status = "game_over" THEN "finalising" ELSE "reconciling")
  /\ UNCHANGED <<game, loser, leaving, clock, lock, forced, conceded, ending, up, drops,
                 faults, tick>>

-----------------------------------------------------------------------------
(* finalizeGameWithRetry and what follows. *)

(* Mutant: it does not look. *)
Committed_Unguarded == rated' = rated + 1

(* The transaction looks for the game first: an earlier attempt may have    *)
(* committed and lost its answer.                                           *)
Committed == rated' = IF rated = 0 THEN 1 ELSE rated

(* Mutant: the last failure is not recorded. *)
Finalise_Unlisted(h) ==
  /\ up /\ pc[h] = "finalising"
  /\ \/ Committed /\ Goto(h, "reconciling") /\ UNCHANGED attempt
     \/ /\ Committed \/ UNCHANGED rated
        /\ attempt' = attempt + 1
        /\ IF attempt < Attempts - 1 THEN UNCHANGED pc ELSE Goto(h, "reconciling")
  /\ UNCHANGED <<game, loser, missing, leaving, clock, lock, forced, conceded, listed, up, drops,
                 faults, history>>

(* Mutant: one attempt too many. *)
Finalise_OneMore(h) ==
  /\ up /\ pc[h] = "finalising"
  /\ \/ Committed /\ Goto(h, "reconciling") /\ UNCHANGED <<attempt, listed>>
     \/ /\ Committed \/ UNCHANGED rated
        /\ attempt' = attempt + 1
        /\ IF attempt < Attempts THEN UNCHANGED <<pc, listed>>
                                 ELSE Goto(h, "reconciling") /\ listed' = TRUE
  /\ UNCHANGED <<game, loser, missing, leaving, clock, lock, forced, conceded, up, drops, faults,
                 history>>

Finalise(h) ==
  /\ up /\ pc[h] = "finalising"
  /\ \/ Committed /\ Goto(h, "reconciling") /\ UNCHANGED <<attempt, listed, faults>>
     \/ /\ Committed \/ UNCHANGED rated
        /\ attempt < Attempts - 1
        /\ attempt' = attempt + 1 /\ UNCHANGED <<pc, listed, faults>>
     \/ /\ Committed \/ UNCHANGED rated
        /\ attempt = Attempts - 1
        /\ attempt' = Attempts /\ Goto(h, "reconciling")
        /\ \/ listed' = TRUE /\ UNCHANGED faults
           \/ faults < MaxFaults /\ faults' = faults + 1 /\ UNCHANGED listed
  /\ UNCHANGED <<game, loser, missing, leaving, clock, lock, forced, conceded, up, drops, history>>

(* Mutant: the old timer keeps running when nobody is on the clock. *)
Reconcile_NotCleared(h) ==
  /\ up /\ pc[h] = "reconciling"
  /\ IF ActiveUser = Nobody THEN UNCHANGED clock ELSE snapshot' = ActiveUser /\ timer' = TRUE
  /\ Leave(h)
  /\ UNCHANGED <<game, loser, missing, leaving, ending, up, drops, faults, history>>

(* The timer is set for the player now on the clock, or cleared; then the   *)
(* handler gives the lock back.                                             *)
Reconcile(h) ==
  /\ up /\ pc[h] = "reconciling"
  /\ snapshot' = ActiveUser /\ timer' = (ActiveUser # Nobody)
  /\ Leave(h)
  /\ UNCHANGED <<game, loser, missing, leaving, ending, up, drops, faults, history>>

-----------------------------------------------------------------------------
(* The turn timer: expireTurnTimer. *)

(* The shortest setting is half a minute: a handler started by the last     *)
(* timeout has long ended when the next one fires.                          *)
Fire ==
  /\ up /\ timer /\ pc["expiry"] = "idle"
  /\ timer' = FALSE /\ Goto("expiry", "fired")
  /\ UNCHANGED <<game, loser, missing, leaving, snapshot, lock, forced, conceded, ending, up,
                 drops, faults, tick, slipped>>

(* Mutant: a defender who has given up is told to take once more. *)
Look_TakesAgain ==
  /\ up /\ pc["expiry"] = "fired"
  /\ IF Paused \/ ActiveUser = Nobody
       THEN Leave("expiry")
       ELSE /\ forced' = IF status = "bout_settle"
                          THEN [type |-> "pass", player |-> attacker]
                          ELSE [type |-> "take", player |-> defender]
            /\ Goto("expiry", "waiting")
            /\ UNCHANGED <<lock, conceded>>
  /\ UNCHANGED <<game, loser, missing, leaving, clock, ending, up, drops, faults, history>>

(* The handler reads the game and the pause record without the lock, and    *)
(* gives up or settles on the command of the player it finds on the clock.  *)
Look ==
  /\ up /\ pc["expiry"] = "fired"
  /\ IF Paused \/ ActiveUser = Nobody
       THEN Leave("expiry")
       ELSE /\ forced' = [type |-> IF status = "bout_defense" THEN "take" ELSE "pass",
                          player |-> ActiveUser]
            /\ Goto("expiry", "waiting")
            /\ UNCHANGED <<lock, conceded>>
  /\ UNCHANGED <<game, loser, missing, leaving, clock, ending, up, drops, faults, history>>

-----------------------------------------------------------------------------
(* Disconnections: handleDisconnectAfterTeardown and onSubscribe. *)

(* The last socket of a player is gone; the handler reads the game ... *)
Vanish(p) ==
  /\ up /\ drops < MaxDrops
  /\ p \in Players \ (out \cup leaving) /\ status # "game_over"
  /\ leaving' = leaving \cup {p} /\ drops' = drops + 1
  /\ UNCHANGED <<game, loser, missing, clock, lock, pc, forced, conceded, ending, up, faults,
                 history>>

(* ... and marks the player, under the pause record's own lock. *)
MarkDisconnected(p) ==
  /\ up /\ p \in leaving
  /\ leaving' = leaving \ {p} /\ missing' = missing \cup {p}
  /\ slipped' = IF Paused THEN slipped ELSE 0
  /\ UNCHANGED <<game, loser, clock, lock, pc, forced, conceded, ending, up, drops, faults,
                 tick>>

(* A player is back in the room: the mark goes, unless the player is out.   *)
(* No timer is touched.                                                     *)
MarkReconnected(p) ==
  /\ up /\ p \in missing \ out
  /\ missing' = missing \ {p}
  /\ slipped' = IF missing' = {} THEN 0 ELSE slipped
  /\ UNCHANGED <<game, loser, leaving, clock, lock, pc, forced, conceded, ending, up, drops,
                 faults, tick>>

(* The vote over a paused game ended in concede: executeConcede. *)
DecideConcede ==
  /\ up /\ Paused /\ pc["concede"] = "idle"
  /\ conceded' = missing /\ Goto("concede", "waiting")
  /\ UNCHANGED <<game, loser, missing, leaving, clock, lock, forced, ending, up, drops, faults,
                 history>>

-----------------------------------------------------------------------------
(* Failures. *)

(* Redis fails inside a handler before it is done: before persistMutation,  *)
(* or after it, at the metrics.  The exception ends the handler.            *)
RedisFails(h) ==
  /\ up /\ faults < MaxFaults /\ faults' = faults + 1
  /\ \/ pc[h] \in {"fired", "loaded"} \/ (pc[h] = "stored" /\ h # "concede")
  /\ Leave(h)
  /\ UNCHANGED <<game, loser, missing, leaving, clock, ending, up, drops, history>>

(* A failure to write the snapshot is swallowed; the timeout is set anyway. *)
SnapshotLost(h) ==
  /\ up /\ faults < MaxFaults /\ faults' = faults + 1
  /\ pc[h] = "reconciling"
  /\ timer' = (ActiveUser # Nobody) /\ UNCHANGED snapshot
  /\ Leave(h)
  /\ UNCHANGED <<game, loser, missing, leaving, ending, up, drops, history>>

(* The process stops.  Redis keeps the game, the pause record, the snapshot *)
(* and the lock key.                                                        *)
Crash ==
  /\ up /\ faults < MaxFaults /\ faults' = faults + 1
  /\ up' = FALSE /\ timer' = FALSE /\ leaving' = {}
  /\ pc' = [h \in Handlers |-> "idle"] /\ forced' = NoForced /\ conceded' = {}
  /\ lock' = IF lock = Nobody THEN Nobody ELSE "dead"
  /\ UNCHANGED <<game, loser, missing, snapshot, ending, drops, history>>

(* It starts again: resumeTimers arms whatever snapshot it finds. *)
Restart ==
  /\ ~up /\ up' = TRUE
  /\ timer' = (snapshot # Nobody)
  /\ UNCHANGED <<game, loser, missing, leaving, snapshot, lock, pc, forced, conceded, ending,
                 drops, faults, history>>

-----------------------------------------------------------------------------
(* A handler that has the lock goes on to its end. *)
Proceed(h) == Stored(h) \/ Finalise(h) \/ Reconcile(h)

Next ==
  \/ \E h \in Handlers : Enter(h) \/ Busied(h) \/ Refused(h) \/ Proceed(h)
                         \/ RedisFails(h) \/ SnapshotLost(h)
  \/ CommandMoves \/ ExpiryMoves \/ ConcedeMoves
  \/ LockLapses \/ Fire \/ Look
  \/ \E p \in Players : Vanish(p) \/ MarkDisconnected(p) \/ MarkReconnected(p)
  \/ DecideConcede \/ Crash \/ Restart

(* Handlers that have started run on, timeouts fire, a lock key expires.    *)
(* Nobody has to send a command, to disconnect or to come back; the lock is *)
(* polled, so a waiting handler gets it if it is free again and again.      *)
Fairness ==
  /\ \A h \in Handlers : WF_vars(Refused(h)) /\ WF_vars(Proceed(h))
  /\ \A h \in {"expiry", "concede"} : SF_vars(Enter(h))
  /\ WF_vars(ExpiryMoves) /\ WF_vars(ConcedeMoves)
  /\ WF_vars(LockLapses) /\ WF_vars(Fire) /\ WF_vars(Look) /\ WF_vars(Restart)
  /\ \A p \in Players : WF_vars(MarkDisconnected(p))

Spec == Init /\ [][Next]_vars

LiveSpec == Spec /\ Fairness

-----------------------------------------------------------------------------
TypeOK ==
  /\ status \in Bout!Statuses /\ attacker \in Players /\ defender \in Players
  /\ passed \subseteq Players /\ out \subseteq Players
  /\ loser \in Players \cup {Nobody}
  /\ missing \subseteq Players /\ leaving \subseteq Players
  /\ snapshot \in Players \cup {Nobody} /\ timer \in BOOLEAN
  /\ lock \in Handlers \cup {"dead", Nobody} /\ pc \in [Handlers -> Stages]
  /\ forced \in Forced \cup {NoForced} /\ conceded \subseteq Players
  /\ attempt \in 0 .. Attempts /\ rated \in 0 .. 1 /\ listed \in BOOLEAN
  /\ up \in BOOLEAN /\ drops \in 0 .. MaxDrops /\ faults \in 0 .. MaxFaults
  /\ tick \in {0, 1} /\ slipped \in Nat

AtRest == up /\ \A h \in Handlers : ~Busy(h)

(* One handler at a time reads and writes the stored game, whatever locks   *)
(* lapse and crashes leave behind: the lock of GamesService.withLock.       *)
OneWriter ==
  \A g, h \in Handlers : pc[g] \in {"loaded", "stored"} /\ pc[h] \in {"loaded", "stored"} => g = h

(* A finished game is rated at most once, though its finalisation may be    *)
(* repeated after a commit whose answer was lost (finalizeGame).            *)
RatedOnce == rated <= 1 /\ (rated = 1 => status = "game_over")

(* Unless Redis failed or the process crashed, a game that is over has been *)
(* rated or is on the list for the operator when its handler is done.       *)
Accounted == AtRest /\ faults = 0 /\ status = "game_over" => rated = 1 \/ listed

(* A result is neither lost nor counted twice (finalizeGameWithRetry).       *)
ResultKept == RatedOnce /\ Accounted

(* Between handlers the clock belongs to the player who owes the stored     *)
(* game its next move: turn-timer snapshot and game agree.                  *)
ClockAgrees == AtRest /\ faults = 0 => snapshot = ActiveUser

(* The check for a pause happens under the game's lock, the pause record is *)
(* written without it: at most the one command already inside slips through *)
(* into a paused game.                                                      *)
PauseStopsPlay == slipped <= 1

(* concedeGame: "Players that already finished keep their position", so a   *)
(* player who went out before the concede does not lose by it.              *)
FinishedKeepPlace == [][loser' # loser /\ loser' # Nobody => loser' \notin out]_vars

(* A game that waits for the player on the clock moves on, by that player   *)
(* or by the server, unless it is paused: "when the value reaches 0 ... the *)
(* server is expected to fire the forced action".                           *)
ClockForcesMove ==
  \A t \in {0, 1} : (ActiveUser # Nobody /\ tick = t) ~> (tick # t \/ Paused)

(* The same while the player on the clock still has an answer to give.      *)
AnswerForced ==
  \A t \in {0, 1} :
    (ActiveUser # Nobody /\ tick = t /\ (status = "bout_defense" \/ attacker \notin passed))
      ~> (tick # t \/ Paused)
=============================================================================
