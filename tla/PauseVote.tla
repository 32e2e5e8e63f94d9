----------------------------- MODULE PauseVote -----------------------------
(***************************************************************************)
(* The disconnect pause of one game: the socket room, the pause record in  *)
(* Redis, the grace timer in memory, and the vote that ends a pause by     *)
(* waiting on or by concede (games.gateway.ts over games-pause.service.ts).*)
(*                                                                         *)
(* Every event starts an asynchronous handler of its own, so a socket that *)
(* comes back, one that is lost, a ballot and the timer interleave between *)
(* their reads and writes.  A read-modify-write of the record under the    *)
(* pause lock is one step, together with the synchronous code that follows *)
(* it: whoever waits for the lock gets its reply later.  The model ends    *)
(* with the game.                                                          *)
(***************************************************************************)
EXTENDS Naturals, FiniteSets

CONSTANTS
  Players,
  Timer,       (* the grace timer, as the one who calls for a tally             *)
  MaxDrops     (* bound: how many times a socket is lost, restarts included     *)

ASSUME PauseAssumption == IsFiniteSet(Players) /\ Timer \notin Players /\ MaxDrops \in Nat

VARIABLES
  over,        (* the stored game is over                                       *)
  out,         (* finishedPlayers of the stored game                            *)
  moving,      (* a command has passed the pause check                          *)
  room,        (* players with a socket in the game's room                      *)
  missing,     (* disconnectedUserIds of the record; empty: no record           *)
  open,        (* voteOpen                                                      *)
  votes,
  grace,       (* graceTimers has the game                                      *)
  due,         (* the grace timer has fired, its handler has not opened the vote *)
  marking,     (* players whose lost socket has been noticed, not yet marked    *)
  returning,   (* players back in the room, not yet unmarked                    *)
  tallies,     (* the tallies on their way, see Tally                           *)
  drops,
  (* History, read by the properties only.                                      *)
  came,        (* players who have been in the room since the server started    *)
  flapped,     (* players who came or went while a handler of theirs was running *)
  shaken       (* the vote has lost a voter since it opened                     *)

record == <<missing, open, votes>>
stored == <<over, out, moving>>
sockets == <<marking, returning>>
history == <<came, flapped, shaken>>
vars == <<stored, room, record, grace, due, sockets, tallies, drops, history>>

Ballots == {"wait_more", "concede"}
Sent == Ballots \cup {"abstain"}       (* what a client may send *)
NoVotes == [p \in Players |-> "none"]
Paused == missing # {}

(* tallyAndMaybeFinish, called by `by' with the record it has just written, *)
(* and where it is: about to count, to extend the wait, or to concede.      *)
Tally == [by : Players \cup {Timer}, missing : SUBSET Players,
          votes : [Players -> Ballots \cup {"none"}],
          at : {"count", "extend", "concede"}]

Called(by) == [by |-> by, missing |-> missing', votes |-> votes', at |-> "count"]

(* Everybody has opened the table. *)
Init ==
  /\ over = FALSE /\ out = {} /\ moving = FALSE
  /\ room = Players /\ missing = {} /\ open = FALSE /\ votes = NoVotes
  /\ grace = FALSE /\ due = FALSE
  /\ marking = {} /\ returning = {} /\ tallies = {} /\ drops = 0
  /\ came = Players /\ flapped = {} /\ shaken = FALSE

NoRecord == missing' = {} /\ open' = FALSE /\ votes' = NoVotes

-----------------------------------------------------------------------------
(* The game goes on: GamesService.applyGameCommand. *)

CommandEnters ==
  /\ ~over /\ ~Paused /\ ~moving
  /\ moving' = TRUE
  /\ UNCHANGED <<over, out, room, record, grace, due, sockets, tallies, drops, history>>

(* The command ends; players may finish by it and the game may be over. *)
CommandEnds ==
  /\ moving /\ moving' = FALSE
  /\ \/ UNCHANGED <<over, out>>
     \/ /\ Cardinality(Players \ out) > 2
        /\ \E p \in Players \ out : out' = out \cup {p}
        /\ UNCHANGED over
     \/ over' = TRUE /\ UNCHANGED out
  /\ shaken' = (shaken \/ (open /\ out' # out))
  /\ UNCHANGED <<room, record, grace, due, sockets, tallies, drops, came, flapped>>

-----------------------------------------------------------------------------
(* Sockets come and go. *)

Stir(p, handlers) == flapped' = IF p \in handlers THEN flapped \cup {p} ELSE flapped \ {p}

(* onSubscribe joins the room.  A finished player is let in and no more. *)
Join(p) ==
  /\ ~over /\ p \notin room \cup returning
  /\ room' = room \cup {p} /\ came' = came \cup {p}
  /\ returning' = IF p \in out THEN returning ELSE returning \cup {p}
  /\ Stir(p, marking)
  /\ UNCHANGED <<stored, record, grace, due, marking, tallies, drops, shaken>>

(* Mutant: the ballot of a player who comes back still counts. *)
Unmark_VoteKept(p) ==
  /\ ~over /\ p \in returning /\ returning' = returning \ {p}
  /\ missing' = missing \ {p}
  /\ \/ p \notin missing /\ UNCHANGED <<open, votes, grace, tallies>>
     \/ missing = {p} /\ NoRecord /\ grace' = FALSE /\ UNCHANGED tallies
     \/ /\ p \in missing /\ missing # {p} /\ UNCHANGED <<open, votes, grace>>
        /\ tallies' = IF open THEN tallies \cup {Called(p)} ELSE tallies
  /\ UNCHANGED <<stored, room, due, marking, drops, history>>

(* The rest of onSubscribe: if the record names the player, handleReconnect  *)
(* takes the mark and any vote out.  The last one back ends the pause and    *)
(* stops the timer; before that an open vote is counted again.               *)
Unmark(p) ==
  /\ ~over /\ p \in returning /\ returning' = returning \ {p}
  /\ missing' = missing \ {p}
  /\ \/ p \notin missing /\ UNCHANGED <<open, votes, grace, tallies>>
     \/ missing = {p} /\ NoRecord /\ grace' = FALSE /\ UNCHANGED tallies
     \/ /\ p \in missing /\ missing # {p} /\ UNCHANGED <<open, grace>>
        /\ votes' = [votes EXCEPT ![p] = "none"]
        /\ tallies' = IF open THEN tallies \cup {Called(p)} ELSE tallies
  /\ UNCHANGED <<stored, room, due, marking, drops, history>>

(* Mutant: who is lost during a pause is not marked. *)
Leave_OnceOnly(p) ==
  /\ ~over /\ drops < MaxDrops /\ drops' = drops + 1
  /\ p \in room \ marking /\ room' = room \ {p}
  /\ marking' = IF p \in out \/ Paused THEN marking ELSE marking \cup {p}
  /\ Stir(p, returning) /\ shaken' = TRUE
  /\ UNCHANGED <<stored, record, grace, due, returning, tallies, came>>

(* The last socket of a player is gone.  handleDisconnectAfterTeardown counts *)
(* the player's sockets, reads the game, and goes on to mark a player who is  *)
(* still in the game.                                                         *)
Leave(p) ==
  /\ ~over /\ drops < MaxDrops /\ drops' = drops + 1
  /\ p \in room \ marking /\ room' = room \ {p}
  /\ marking' = IF p \in out THEN marking ELSE marking \cup {p}
  /\ Stir(p, returning) /\ shaken' = TRUE
  /\ UNCHANGED <<stored, record, grace, due, returning, tallies, came>>

(* Marked as missing; the timer is set unless it runs or the vote is open. *)
Mark(p) ==
  /\ ~over /\ p \in marking /\ marking' = marking \ {p}
  /\ missing' = missing \cup {p}
  /\ grace' = (grace \/ ~open) /\ shaken' = (shaken \/ open)
  /\ UNCHANGED <<stored, room, open, votes, due, returning, tallies, drops, came, flapped>>

-----------------------------------------------------------------------------
(* The vote. *)

(* The grace of a minute has passed.  No command is that slow, and no tally *)
(* of a vote that was closed before.                                        *)
Expire ==
  /\ ~over /\ grace /\ ~moving /\ (open \/ tallies = {})
  /\ grace' = FALSE /\ due' = TRUE
  /\ UNCHANGED <<stored, room, record, sockets, tallies, drops, history>>

(* openVoteAfterGrace: the vote opens, if it is not open yet, and is counted *)
(* at once: there may be nobody to vote.                                     *)
OpenVote ==
  /\ ~over /\ due /\ due' = FALSE
  /\ \/ ~Paused /\ UNCHANGED <<record, tallies, shaken>>
     \/ /\ Paused /\ open' = TRUE /\ UNCHANGED missing
        /\ votes' = IF open THEN votes ELSE NoVotes
        /\ shaken' = (open /\ shaken)
        /\ tallies' = tallies \cup {Called(Timer)}
  /\ UNCHANGED <<stored, room, grace, sockets, drops, came, flapped>>

(* Mutant: whatever was sent is a ballot. *)
Vote_Unchecked(p, ballot) ==
  /\ p \in Players \ (out \cup missing) /\ p \in room
  /\ ~over /\ open /\ \A t \in tallies : t.by # p
  /\ votes' = [votes EXCEPT ![p] = ballot]
  /\ UNCHANGED <<missing, open>>
  /\ tallies' = tallies \cup {Called(p)}
  /\ UNCHANGED <<stored, room, grace, due, sockets, drops, history>>

(* onPauseVote.  A player may change the ballot once it has been counted. *)
Vote(p, ballot) ==
  /\ ballot \in Ballots
  /\ p \in Players \ (out \cup missing) /\ p \in room
  /\ ~over /\ open /\ \A t \in tallies : t.by # p
  /\ votes' = [votes EXCEPT ![p] = ballot]
  /\ UNCHANGED <<missing, open>>
  /\ tallies' = tallies \cup {Called(p)}
  /\ UNCHANGED <<stored, room, grace, due, sockets, drops, history>>

(* Mutant: everybody who has not gone out has to vote, there or not. *)
Eligible_Absent(t) == Players \ (t.missing \cup out)

(* The players a tally waits for: there, in the game and not missing. *)
Eligible(t) == room \ (t.missing \cup out)

For(t, ballot) == {p \in Eligible(t) : t.votes[p] = ballot}

Conceded(t) ==
  \/ Eligible(t) = {}
  \/ /\ For(t, "none") = {}
     /\ Cardinality(For(t, "concede")) > Cardinality(For(t, "wait_more"))

Goes(t, at) == tallies' = (tallies \ {t}) \cup {[t EXCEPT !.at = at]}
Ends(t) == tallies' = tallies \ {t}

(* tallyAndMaybeFinish: nobody is left to vote or the votes are all in; a   *)
(* tie waits.  A concede stops the timer first.                             *)
Count(t) ==
  /\ ~over /\ t \in tallies /\ t.at = "count"
  /\ \/ Conceded(t) /\ Goes(t, "concede") /\ grace' = FALSE
     \/ ~Conceded(t) /\ For(t, "none") = {} /\ Goes(t, "extend") /\ UNCHANGED grace
     \/ ~Conceded(t) /\ For(t, "none") # {} /\ Ends(t) /\ UNCHANGED grace
  /\ UNCHANGED <<stored, room, record, due, sockets, drops, history>>

(* Mutant: the timer is not set again. *)
Extend_NoTimer(t) ==
  /\ ~over /\ t \in tallies /\ t.at = "extend" /\ Ends(t)
  /\ IF Paused THEN open' = FALSE /\ votes' = NoVotes ELSE UNCHANGED <<open, votes>>
  /\ UNCHANGED <<stored, room, missing, grace, due, sockets, drops, history>>

(* extendWait: the vote is closed and the timer starts over. *)
Extend(t) ==
  /\ ~over /\ t \in tallies /\ t.at = "extend" /\ Ends(t)
  /\ IF Paused THEN open' = FALSE /\ votes' = NoVotes /\ grace' = TRUE
               ELSE UNCHANGED <<open, votes, grace>>
  /\ UNCHANGED <<stored, room, missing, due, sockets, drops, history>>

(* executeConcede: the game ends, lost by the players the tally knew as      *)
(* missing, and the record is dropped.  That it may fail is left to LiveGame. *)
Concede(t) ==
  /\ ~over /\ t \in tallies /\ t.at = "concede" /\ ~moving /\ Ends(t)
  /\ over' = TRUE /\ NoRecord
  /\ UNCHANGED <<out, moving, room, grace, due, sockets, drops, history>>

-----------------------------------------------------------------------------
(* The server stops and starts: every socket and handler is gone, the game  *)
(* and the record stay.  resumePauseTimers sets the timer of a pause whose  *)
(* vote is not open yet.                                                    *)
Restart ==
  /\ ~over /\ drops < MaxDrops /\ drops' = drops + 1
  /\ room' = {} /\ marking' = {} /\ returning' = {}
  /\ tallies' = {} /\ due' = FALSE /\ moving' = FALSE
  /\ grace' = (Paused /\ ~open)
  /\ came' = {} /\ flapped' = {} /\ shaken' = TRUE
  /\ UNCHANGED <<over, out, record>>

AtRest ==
  /\ marking = {} /\ returning = {} /\ tallies = {} /\ ~due /\ ~moving

Next ==
  \/ CommandEnters \/ CommandEnds
  \/ \E p \in Players : \/ Join(p) \/ Unmark(p) \/ Leave(p) \/ Mark(p)
                        \/ \E ballot \in Sent : Vote(p, ballot)
  \/ Expire \/ OpenVote
  \/ \E t \in tallies : Count(t) \/ Extend(t) \/ Concede(t)
  \/ Restart

Spec == Init /\ [][Next]_vars

-----------------------------------------------------------------------------
TypeOK ==
  /\ over \in BOOLEAN /\ out \subseteq Players /\ moving \in BOOLEAN
  /\ room \subseteq Players
  /\ missing \subseteq Players /\ open \in BOOLEAN
  /\ votes \in [Players -> Ballots \cup {"none"}]
  /\ grace \in BOOLEAN /\ due \in BOOLEAN
  /\ marking \subseteq Players /\ returning \subseteq Players
  /\ tallies \subseteq Tally /\ drops \in 0 .. MaxDrops
  /\ came \subseteq Players /\ flapped \subseteq Players
  /\ shaken \in BOOLEAN

(* When the handlers are done the record names exactly the players who are  *)
(* gone, of those still in the game: except for one who came and went       *)
(* faster than the handlers, and one not seen since the server started.     *)
RecordMatchesRoom ==
  AtRest /\ ~over => \A p \in came \ (out \cup flapped) : p \in missing <=> p \notin room

(* A pause is never forgotten: between handlers its grace timer runs or its *)
(* vote is open, through returns, second drops, verdicts and restarts.      *)
PauseHasEnd == AtRest /\ Paused /\ ~over => grace \/ open

(* A vote that is open waits for somebody: a player who is there, may vote  *)
(* and has not.  Every other vote has been decided.  (Not so when a voter   *)
(* went after it opened, see VoteNeverStuck.)                               *)
VoteWaits ==
  AtRest /\ open /\ ~over /\ ~shaken =>
    \E p \in room \ (missing \cup out) : votes[p] = "none"

(* A ballot is cast in one vote only and never outlives it, and one who     *)
(* returns from being missing has to vote anew.                             *)
BallotsFresh ==
  [][/\ ~open' => votes' = NoVotes
     /\ \A p \in missing \ missing' : votes'[p] = "none"]_vars

(* tallyAndMaybeFinish: "Degenerate case: no eligible voters at all --      *)
(* auto-concede the missing seats so the game doesn't get stuck".           *)
VoteNeverStuck ==
  AtRest /\ open /\ ~over /\ came = Players => room \ (missing \cup out) # {}
=============================================================================
