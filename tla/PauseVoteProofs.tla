-------------------------- MODULE PauseVoteProofs --------------------------
(***************************************************************************)
(* The safety of the disconnect pause for every set of players and every   *)
(* number of lost sockets and restarts.                                    *)
(***************************************************************************)
EXTENDS PauseVote, TLAPS

(* The record names whom the room misses, but for a handler on its way: one *)
(* who left is being marked, one who came is being unmarked.                *)
MarksFollow ==
  ~over => \A p \in came \ (out \cup flapped) :
    IF p \in room THEN /\ p \notin marking
                       /\ p \in missing => p \in returning
                  ELSE /\ p \notin returning
                       /\ p \in marking \/ p \in missing

(* Whoever could end the pause: the timer, its handler, the vote, a concede. *)
EndComes ==
  Paused /\ ~over => grace \/ open \/ due \/ \E t \in tallies : t.at = "concede"

(* There is no vote without a pause, and no ballot without a vote. *)
VoteInPause == (open => Paused) /\ (~open => votes = NoVotes)

Undecided == \E p \in room \ (missing \cup out) : votes[p] = "none"

(* A vote that has all its ballots has a verdict on its way, or a tally that *)
(* knows the record as it is.                                                *)
VerdictComes ==
  open /\ ~over /\ ~shaken /\ ~Undecided =>
    \E t \in tallies : \/ t.at \in {"concede", "extend"}
                       \/ t.at = "count" /\ t.votes = votes /\ t.missing = missing

PauseInv == TypeOK /\ MarksFollow /\ EndComes /\ VoteInPause /\ VerdictComes

-----------------------------------------------------------------------------
LEMMA PauseInit == Init => PauseInv
<1> SUFFICES ASSUME Init PROVE PauseInv
  OBVIOUS
<1>1. TypeOK
  <2>1. drops \in 0 .. MaxDrops
    BY PauseAssumption DEF Init
  <2>2. votes \in [Players -> Ballots \cup {"none"}]
    BY DEF Init, NoVotes
  <2> QED BY <2>1, <2>2 DEF Init, TypeOK
<1>2. MarksFollow /\ EndComes /\ VoteInPause /\ VerdictComes
  BY DEF Init, MarksFollow, EndComes, VoteInPause, VerdictComes, Paused
<1> QED BY <1>1, <1>2 DEF PauseInv

(* A tally starts with the record its caller has just written. *)
LEMMA CalledType ==
  ASSUME NEW by \in Players \cup {Timer}, missing' \subseteq Players,
         votes' \in [Players -> Ballots \cup {"none"}]
  PROVE  /\ Called(by) \in Tally
         /\ Called(by).at = "count" /\ Called(by).votes = votes' /\ Called(by).missing = missing'
BY DEF Called, Tally

-----------------------------------------------------------------------------
(* Every variable keeps its type. *)
LEMMA StepKeepsType ==
  ASSUME TypeOK, [Next]_vars
  PROVE  TypeOK'
<1> USE PauseAssumption DEF TypeOK, record, stored, sockets, history, NoRecord, NoVotes, Paused
<1>1. CASE CommandEnters
  BY <1>1 DEF CommandEnters
<1>2. CASE CommandEnds
  BY <1>2 DEF CommandEnds
<1>3. ASSUME NEW p \in Players, Join(p) PROVE TypeOK'
  BY <1>3 DEF Join, Stir
<1>4. ASSUME NEW p \in Players, Unmark(p) PROVE TypeOK'
  <2>1. missing' \subseteq Players /\ votes' \in [Players -> Ballots \cup {"none"}]
    BY <1>4 DEF Unmark
  <2>2. tallies' \subseteq Tally
    BY <1>4, <2>1, CalledType DEF Unmark
  <2> QED BY <1>4, <2>1, <2>2 DEF Unmark
<1>5. ASSUME NEW p \in Players, Leave(p) PROVE TypeOK'
  BY <1>5 DEF Leave, Stir
<1>6. ASSUME NEW p \in Players, Mark(p) PROVE TypeOK'
  BY <1>6 DEF Mark
<1>7. ASSUME NEW p \in Players, NEW ballot \in Sent, Vote(p, ballot) PROVE TypeOK'
  <2>1. missing' \subseteq Players /\ votes' \in [Players -> Ballots \cup {"none"}]
    BY <1>7 DEF Vote
  <2>2. tallies' \subseteq Tally
    BY <1>7, <2>1, CalledType DEF Vote
  <2> QED BY <1>7, <2>1, <2>2 DEF Vote
<1>8. CASE Expire
  BY <1>8 DEF Expire
<1>9. CASE OpenVote
  <2>1. missing' \subseteq Players /\ votes' \in [Players -> Ballots \cup {"none"}]
    BY <1>9 DEF OpenVote
  <2>2. tallies' \subseteq Tally
    BY <1>9, <2>1, CalledType DEF OpenVote
  <2> QED BY <1>9, <2>1, <2>2 DEF OpenVote
<1>10. ASSUME NEW t \in tallies, Count(t) PROVE TypeOK'
  BY <1>10 DEF Count, Goes, Ends, Tally
<1>11. ASSUME NEW t \in tallies, Extend(t) PROVE TypeOK'
  BY <1>11 DEF Extend, Ends
<1>12. ASSUME NEW t \in tallies, Concede(t) PROVE TypeOK'
  BY <1>12 DEF Concede, Ends
<1>13. CASE Restart
  <2>1. drops' \in 0 .. MaxDrops
    BY <1>13 DEF Restart
  <2>2. grace' \in BOOLEAN
    BY <1>13, Zenon DEF Restart
  <2> QED BY <1>13, <2>1, <2>2 DEF Restart
<1>14. CASE UNCHANGED vars
  BY <1>14 DEF vars
<1> QED
  BY <1>1, <1>2, <1>3, <1>4, <1>5, <1>6, <1>7, <1>8, <1>9, <1>10, <1>11, <1>12, <1>13, <1>14 DEF Next

(* The rest of the invariant is kept, action by action. *)
LEMMA StepKeepsInv ==
  ASSUME PauseInv, [Next]_vars
  PROVE  PauseInv'
<1> USE DEF PauseInv, record, stored, sockets, history, NoRecord, Paused
<1>0. TypeOK'
  BY StepKeepsType
<1> DEFINE Rest == MarksFollow /\ EndComes /\ VoteInPause /\ VerdictComes
<1> SUFFICES Rest'
  BY <1>0
<1>1. CASE CommandEnters
  BY <1>1 DEF CommandEnters, MarksFollow, EndComes, VoteInPause, VerdictComes, Undecided, NoVotes
<1>2. CASE CommandEnds
  <2>1. MarksFollow'
    BY <1>2 DEF CommandEnds, MarksFollow
  <2>2. EndComes' /\ VoteInPause'
    BY <1>2 DEF CommandEnds, EndComes, VoteInPause, NoVotes
  <2>3. VerdictComes'
    <3>1. CASE UNCHANGED out
      <4>1. shaken => shaken'
        BY <1>2, Zenon DEF CommandEnds
      <4>2. UNCHANGED <<room, missing, votes, open, tallies>> /\ (over => over')
        BY <1>2 DEF CommandEnds
      <4> QED BY <3>1, <4>1, <4>2 DEF VerdictComes, Undecided
    <3>2. CASE out' # out
      BY <1>2, <3>2 DEF CommandEnds, VerdictComes
    <3> QED BY <3>1, <3>2
  <2> QED BY <2>1, <2>2, <2>3
<1>3. ASSUME NEW p \in Players, Join(p) PROVE Rest'
  <2>1. MarksFollow'
    BY <1>3 DEF Join, Stir, MarksFollow, TypeOK
  <2>2. EndComes' /\ VoteInPause' /\ VerdictComes'
    BY <1>3 DEF Join, EndComes, VoteInPause, VerdictComes, Undecided, NoVotes
  <2> QED BY <2>1, <2>2
<1>4. ASSUME NEW p \in Players, Unmark(p) PROVE Rest'
  <2>1. MarksFollow'
    BY <1>4 DEF Unmark, MarksFollow
  <2>2. EndComes' /\ VoteInPause'
    BY <1>4 DEF Unmark, EndComes, VoteInPause, TypeOK, NoVotes
  <2>3. VerdictComes'
    <3>1. CASE p \notin missing \/ ~open \/ missing = {p}
      BY <1>4, <3>1 DEF Unmark, VerdictComes, Undecided, VoteInPause
    <3>2. CASE p \in missing /\ open /\ missing # {p}
      <4>1. Called(p) \in tallies'
        BY <1>4, <3>2 DEF Unmark
      <4>2. Called(p).at = "count" /\ Called(p).votes = votes' /\ Called(p).missing = missing'
        BY <1>0, CalledType DEF TypeOK
      <4> QED BY <4>1, <4>2 DEF VerdictComes
    <3> QED BY <3>1, <3>2
  <2> QED BY <2>1, <2>2, <2>3
<1>5. ASSUME NEW p \in Players, Leave(p) PROVE Rest'
  <2>1. MarksFollow'
    BY <1>5 DEF Leave, Stir, MarksFollow, TypeOK
  <2>2. EndComes' /\ VoteInPause' /\ VerdictComes'
    BY <1>5 DEF Leave, EndComes, VoteInPause, VerdictComes, NoVotes
  <2> QED BY <2>1, <2>2
<1>6. ASSUME NEW p \in Players, Mark(p) PROVE Rest'
  BY <1>6 DEF Mark, MarksFollow, EndComes, VoteInPause, VerdictComes, Undecided, NoVotes
<1>7. ASSUME NEW p \in Players, NEW ballot \in Sent, Vote(p, ballot) PROVE Rest'
  <2>1. MarksFollow' /\ EndComes' /\ VoteInPause'
    BY <1>7 DEF Vote, MarksFollow, EndComes, VoteInPause
  <2>2. VerdictComes'
    <3>1. Called(p) \in tallies'
      BY <1>7 DEF Vote
    <3>2. Called(p).at = "count" /\ Called(p).votes = votes' /\ Called(p).missing = missing'
      BY <1>0, CalledType DEF TypeOK
    <3> QED BY <3>1, <3>2 DEF VerdictComes
  <2> QED BY <2>1, <2>2
<1>8. CASE Expire
  BY <1>8 DEF Expire, MarksFollow, EndComes, VoteInPause, VerdictComes, Undecided, NoVotes
<1>9. CASE OpenVote
  <2>1. MarksFollow' /\ EndComes' /\ VoteInPause'
    BY <1>9 DEF OpenVote, MarksFollow, EndComes, VoteInPause, NoVotes
  <2>2. CASE ~Paused
    BY <1>9, <2>1, <2>2 DEF OpenVote, VerdictComes, VoteInPause
  <2>3. CASE Paused
    <3>1. Called(Timer) \in tallies'
      BY <1>9, <2>3 DEF OpenVote
    <3>2. /\ Called(Timer).at = "count" /\ Called(Timer).votes = votes'
          /\ Called(Timer).missing = missing'
      BY <1>0, CalledType DEF TypeOK
    <3> QED BY <2>1, <3>1, <3>2 DEF VerdictComes
  <2> QED BY <2>1, <2>2, <2>3
<1>10. ASSUME NEW t \in tallies, Count(t) PROVE Rest'
  <2>1. t \in Tally
    BY DEF TypeOK
  <2>2. MarksFollow' /\ VoteInPause'
    BY <1>10 DEF Count, MarksFollow, VoteInPause, NoVotes
  <2>3. /\ For(t, "none") # {} => \E p \in room \ (t.missing \cup out) : t.votes[p] = "none"
        /\ Undecided' = Undecided
    BY <1>10 DEF For, Eligible, Undecided, Count
  <2>4. ASSUME NEW at \in {"extend", "concede"}, Goes(t, at)
        PROVE  /\ \A u \in tallies : u # t => u \in tallies'
               /\ \E u \in tallies' : u.at = at
    <3>1. [t EXCEPT !.at = at] \in tallies' /\ [t EXCEPT !.at = at].at = at
      BY <2>1, <2>4 DEF Goes, Tally
    <3> QED BY <2>4, <3>1 DEF Goes
  <2>5. Ends(t) => \A u \in tallies : u # t => u \in tallies'
    BY DEF Ends
  <2>6. EndComes'
    BY <1>10, <2>4, <2>5 DEF Count, EndComes
  <2>7. VerdictComes'
    <3>1. CASE ~Ends(t)
      BY <1>10, <2>4, <3>1 DEF Count, VerdictComes
    <3>2. CASE Ends(t)
      <4>1. CASE t.at = "count" /\ t.votes = votes /\ t.missing = missing
        BY <1>10, <2>1, <2>3, <2>4, <2>5, <3>2, <4>1 DEF Count, VerdictComes, Undecided
      <4>2. CASE ~(t.at = "count" /\ t.votes = votes /\ t.missing = missing)
        BY <1>10, <2>3, <2>5, <3>2, <4>2 DEF Count, VerdictComes
      <4> QED BY <4>1, <4>2
    <3> QED BY <3>1, <3>2
  <2> QED BY <2>2, <2>6, <2>7
<1>11. ASSUME NEW t \in tallies, Extend(t) PROVE Rest'
  BY <1>11 DEF Extend, Ends, MarksFollow, EndComes, VoteInPause, VerdictComes, NoVotes
<1>12. ASSUME NEW t \in tallies, Concede(t) PROVE Rest'
  BY <1>12 DEF Concede, MarksFollow, EndComes, VoteInPause, VerdictComes
<1>13. CASE Restart
  BY <1>13 DEF Restart, MarksFollow, EndComes, VoteInPause, VerdictComes, NoVotes
<1>14. CASE UNCHANGED vars
  BY <1>14 DEF vars, MarksFollow, EndComes, VoteInPause, VerdictComes, Undecided, NoVotes
<1> QED
  BY <1>0, <1>1, <1>2, <1>3, <1>4, <1>5, <1>6, <1>7, <1>8, <1>9, <1>10, <1>11, <1>12, <1>13, <1>14 DEF Next

-----------------------------------------------------------------------------
(* The invariant of the pause, for every set of players: a pause always has  *)
(* an end on its way and a vote always somebody to wait for or a verdict     *)
(* (games.gateway.ts, onSubscribe to executeConcede).                        *)
THEOREM PauseInvariant == Spec => []PauseInv
BY PauseInit, StepKeepsInv, PTL DEF Spec

(* The types of the room, the record, the vote and the handlers on their way *)
(* (games-pause.service.ts, games.gateway.ts).                               *)
THEOREM PauseTypes == Spec => []TypeOK
<1>1. PauseInv => TypeOK
  BY DEF PauseInv
<1> QED BY <1>1, PauseInvariant, PTL

(* When the handlers are done the record names exactly who is gone: no       *)
(* interleaving of markDisconnected and handleReconnect leaves it wrong.     *)
THEOREM PauseRecord == Spec => []RecordMatchesRoom
<1>1. PauseInv => RecordMatchesRoom
  BY DEF PauseInv, RecordMatchesRoom, MarksFollow, AtRest
<1> QED BY <1>1, PauseInvariant, PTL

(* A pause is never forgotten: between handlers its grace timer runs or its  *)
(* vote is open (openVoteAfterGrace, extendWait, resumePauseTimers).         *)
THEOREM PauseEnds == Spec => []PauseHasEnd
<1>1. PauseInv => PauseHasEnd
  BY DEF PauseInv, PauseHasEnd, EndComes, AtRest
<1> QED BY <1>1, PauseInvariant, PTL

(* A vote whose voters have stayed waits for one of them or has been decided *)
(* by tallyAndMaybeFinish.                                                   *)
THEOREM PauseVoteWaits == Spec => []VoteWaits
<1>1. PauseInv => VoteWaits
  BY DEF PauseInv, VoteWaits, VerdictComes, Undecided, AtRest
<1> QED BY <1>1, PauseInvariant, PTL

(* A ballot is cast in one vote only, and who returns has to vote anew       *)
(* (castVote, handleReconnect, extendWait).                                  *)
THEOREM PauseBallots == Spec => BallotsFresh
<1> DEFINE Fresh == /\ ~open' => votes' = NoVotes
                    /\ \A p \in missing \ missing' : votes'[p] = "none"
<1>1. PauseInv /\ [Next]_vars => [Fresh]_vars
  <2> SUFFICES ASSUME PauseInv, [Next]_vars, ~UNCHANGED vars PROVE Fresh
    BY DEF vars
  <2>1. ~open' => votes' = NoVotes
    <3>1. PauseInv'
      BY StepKeepsInv
    <3> QED BY <3>1 DEF PauseInv, VoteInPause, NoVotes
  <2>2. ASSUME NEW p \in missing \ missing' PROVE votes'[p] = "none"
    <3> USE DEF record, PauseInv, TypeOK, NoRecord, NoVotes
    <3>1. p \in Players
      OBVIOUS
    <3>2. CASE \E q \in Players : Unmark(q)
      BY <2>2, <3>1, <3>2 DEF Unmark
    <3>3. CASE Restart \/ CommandEnters \/ CommandEnds \/ Expire \/ OpenVote
      BY <2>2, <3>3 DEF Restart, CommandEnters, CommandEnds, Expire, OpenVote
    <3>4. CASE \E q \in Players : Join(q) \/ Leave(q) \/ Mark(q)
      BY <2>2, <3>4 DEF Join, Leave, Mark
    <3>5. CASE \E q \in Players, ballot \in Sent : Vote(q, ballot)
      BY <2>2, <3>5 DEF Vote
    <3>6. CASE \E t \in tallies : Count(t) \/ Extend(t) \/ Concede(t)
      BY <2>2, <3>1, <3>6 DEF Count, Extend, Concede
    <3> QED BY <3>2, <3>3, <3>4, <3>5, <3>6 DEF Next
  <2> QED BY <2>1, <2>2
<1> QED BY <1>1, PauseInvariant, PTL DEF Spec, BallotsFresh
=============================================================================
