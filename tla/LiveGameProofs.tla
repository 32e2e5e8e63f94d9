--------------------------- MODULE LiveGameProofs ---------------------------
(***************************************************************************)
(* The safety of LiveGame for every set of players, number of attempts,    *)
(* disconnections and faults.                                              *)
(***************************************************************************)
EXTENDS LiveGame, TLAPS

(* The stored game. *)
GameOK ==
  /\ status \in Bout!Statuses /\ attacker \in Players /\ defender \in Players
  /\ passed \subseteq Players /\ out \subseteq Players

(* The rest of TypeOK in parts: the pause and the clock, the handlers, the counters. *)
AsideOK ==
  /\ loser \in Players \cup {Nobody} /\ missing \subseteq Players /\ leaving \subseteq Players
  /\ snapshot \in Players \cup {Nobody} /\ timer \in BOOLEAN /\ up \in BOOLEAN /\ listed \in BOOLEAN

HandlersOK ==
  /\ lock \in Handlers \cup {"dead", Nobody} /\ pc \in [Handlers -> Stages]
  /\ forced \in Forced \cup {NoForced} /\ conceded \subseteq Players

CountsOK ==
  /\ attempt \in 0 .. Attempts /\ rated \in 0 .. 1
  /\ drops \in 0 .. MaxDrops /\ faults \in 0 .. MaxFaults
  /\ tick \in {0, 1} /\ slipped \in Nat

(* Between load and store a handler's token is in the lock. *)
WritersHold == \A h \in Handlers : pc[h] \in {"loaded", "stored"} => lock = h

(* Only a finished game is finalised. *)
FinalOver == /\ \A h \in Handlers : pc[h] = "finalising" => status = "game_over"
             /\ rated = 1 => status = "game_over"

(* A finished game that is neither rated nor listed has a handler at work on it. *)
BeingRated ==
  faults = 0 /\ status = "game_over" =>
    rated = 1 \/ listed \/ \E h \in Handlers : pc[h] \in {"stored", "finalising"}

(* A clock that disagrees with the game is about to be set. *)
BeingSet ==
  faults = 0 => snapshot = ActiveUser \/ \E h \in Handlers : pc[h] \in {"stored", "finalising", "reconciling"}

(* A move has slipped into the pause, so the command that could is done. *)
SlippedOnce ==
  /\ slipped <= 1
  /\ missing = {} => slipped = 0
  /\ slipped = 1 => \A h \in Handlers \ {"concede"} : pc[h] # "loaded"

LiveInv == TypeOK /\ WritersHold /\ FinalOver /\ BeingRated /\ BeingSet /\ SlippedOnce

USE DEF Handlers, Stages

-----------------------------------------------------------------------------
(* A finished game stays finished, and the protocol keeps its types. *)
LEMMA MoveKeepsGame ==
  ASSUME GameOK, NEW p \in Players, Bout!Move(p)
  PROVE  GameOK' /\ status # "game_over"
<1> USE DEF GameOK, Bout!Statuses, Bout!Phase, Bout!Throwers
<1>1. ASSUME Bout!Closed PROVE GameOK'
  BY <1>1 DEF Bout!Closed
<1>2. CASE Bout!Throw(p)
  BY <1>1, <1>2 DEF Bout!Throw
<1>3. CASE Bout!Beat(p)
  BY <1>1, <1>3 DEF Bout!Beat
<1>4. CASE Bout!Translate(p)
  BY <1>4 DEF Bout!Translate
<1>5. CASE Bout!Take(p)
  BY <1>1, <1>5 DEF Bout!Take, Bout!MayTake
<1>6. CASE Bout!Pass(p)
  BY <1>1, <1>6 DEF Bout!Pass, Bout!MayPass
<1>7. CASE Bout!NoticeCheat(p)
  BY <1>7 DEF Bout!NoticeCheat
<1> QED BY <1>2, <1>3, <1>4, <1>5, <1>6, <1>7 DEF Bout!Move

LEMMA TypeParts == TypeOK <=> GameOK /\ AsideOK /\ HandlersOK /\ CountsOK
BY DEF TypeOK, GameOK, AsideOK, HandlersOK, CountsOK

LEMMA Initially == Init => LiveInv
<1> SUFFICES ASSUME Init PROVE LiveInv
  OBVIOUS
<1>1. TypeOK
  <2>1. GameOK
    BY DEF Init, Bout!Init, GameOK, Bout!Statuses
  <2>2. AsideOK /\ HandlersOK
    BY DEF Init, AsideOK, HandlersOK
  <2>3. CountsOK
    BY LiveGameAssumption DEF Init, CountsOK
  <2> QED BY <2>1, <2>2, <2>3, TypeParts
<1>2. WritersHold /\ FinalOver /\ BeingRated /\ BeingSet /\ SlippedOnce
  BY DEF Init, Bout!Init, WritersHold, FinalOver, BeingRated, BeingSet, SlippedOnce, ActiveUser
<1> QED BY <1>1, <1>2 DEF LiveInv

(* A player of the loser's kind: CHOOSE picks one, or there is none. *)
LEMMA LoserIsPlayer ==
  ASSUME NEW gone PROVE LoserOf(gone) \in Players \cup {Nobody}
BY DEF LoserOf

-----------------------------------------------------------------------------
(* The store of a move. *)
LEMMA MovedKeeps ==
  ASSUME LiveInv, NEW h \in Handlers, up, pc[h] = "loaded", Moved(h), GameOK',
         status # "game_over", loser' \in Players \cup {Nobody}
  PROVE  LiveInv'
<1> USE DEF LiveInv, Moved, Goto, clock, ending, Paused
<1>1. TypeOK'
  BY DEF TypeOK, GameOK
<1>2. WritersHold'
  BY DEF WritersHold, TypeOK
<1>3. FinalOver'
  BY DEF FinalOver, TypeOK, WritersHold
<1>4. BeingRated' /\ BeingSet'
  BY DEF BeingRated, BeingSet, TypeOK
<1>5. SlippedOnce'
  BY DEF SlippedOnce, TypeOK, WritersHold
<1> QED BY <1>1, <1>2, <1>3, <1>4, <1>5

(* Every step keeps the invariant. *)
LEMMA StepKeepsInv ==
  ASSUME LiveInv, [Next]_vars
  PROVE  LiveInv'
<1> USE DEF LiveInv, Goto, clock, ending, Paused, game, history, Leave, Release
<1>a. GameOK
  BY DEF TypeOK, GameOK
<1>1. CASE CommandMoves
  <2>1. PICK p \in Players : Bout!Move(p)
    BY <1>1 DEF CommandMoves, Apply
  <2> QED BY <1>a, <1>1, <2>1, MoveKeepsGame, MovedKeeps, LoserIsPlayer DEF CommandMoves, Apply
<1>2. CASE ExpiryMoves
  <2>1. PICK p \in Players : Bout!Move(p)
    BY <1>2 DEF ExpiryMoves, Apply, Bout!Move, Bout!Take, Bout!MayTake, Bout!Pass, Bout!MayPass, Bout!Throwers, TypeOK, Forced, NoForced
  <2> QED BY <1>a, <1>2, <2>1, MoveKeepsGame, MovedKeeps, LoserIsPlayer DEF ExpiryMoves, Apply
<1>3. CASE ConcedeMoves
  <2>1. GameOK' /\ loser' \in Players
    BY <1>3, <1>a DEF ConcedeMoves, GameOK, TypeOK, Bout!Statuses
  <2> QED BY <1>3, <2>1, MovedKeeps DEF ConcedeMoves
<1>4. ASSUME NEW h \in Handlers, Enter(h) PROVE LiveInv'
  <2>1. TypeOK'
    BY <1>4 DEF Enter, TypeOK
  <2>2. WritersHold'
    BY <1>4, LiveGameAssumption DEF Enter, WritersHold, TypeOK
  <2>3. FinalOver' /\ BeingRated' /\ BeingSet'
    BY <1>4 DEF Enter, FinalOver, BeingRated, BeingSet, TypeOK, ActiveUser
  <2>4. SlippedOnce'
    BY <1>4 DEF Enter, SlippedOnce, TypeOK
  <2> QED BY <2>1, <2>2, <2>3, <2>4
<1>5. ASSUME NEW h \in Handlers, Busied(h) \/ Refused(h) \/ RedisFails(h) \/ SnapshotLost(h) \/ Reconcile(h)
      PROVE LiveInv'
  <2> USE DEF Busied, Refused, RedisFails, SnapshotLost, Reconcile
  <2>0. ActiveUser \in Players \cup {Nobody}
    BY DEF ActiveUser, TypeOK
  <2>1. TypeOK'
    <3>1. GameOK' /\ AsideOK'
      BY <1>5, <2>0 DEF TypeOK, GameOK, AsideOK
    <3>2. HandlersOK'
      BY <1>5, <2>0 DEF TypeOK, HandlersOK
    <3>3. CountsOK'
      BY <1>5, <2>0, LiveGameAssumption DEF TypeOK, CountsOK
    <3> QED BY <3>1, <3>2, <3>3 DEF TypeOK, GameOK, AsideOK, HandlersOK, CountsOK
  <2>2. WritersHold'
    BY <1>5 DEF WritersHold, TypeOK
  <2>3. FinalOver'
    BY <1>5 DEF FinalOver, TypeOK
  <2>4. BeingRated'
    BY <1>5 DEF BeingRated, TypeOK
  <2>5. BeingSet'
    BY <1>5 DEF BeingSet, TypeOK, ActiveUser
  <2>6. SlippedOnce'
    BY <1>5 DEF SlippedOnce, TypeOK
  <2> QED BY <2>1, <2>2, <2>3, <2>4, <2>5, <2>6
<1>6. ASSUME NEW h \in Handlers, Stored(h) PROVE LiveInv'
  <2> USE DEF Stored
  <2>1. TypeOK'
    BY <1>6 DEF TypeOK
  <2>2. WritersHold' /\ FinalOver'
    BY <1>6 DEF WritersHold, FinalOver, TypeOK
  <2>3. BeingRated'
    BY <1>6 DEF BeingRated, TypeOK
  <2>4. BeingSet'
    BY <1>6 DEF BeingSet, TypeOK, ActiveUser
  <2>5. SlippedOnce'
    BY <1>6 DEF SlippedOnce, TypeOK
  <2> QED BY <2>1, <2>2, <2>3, <2>4, <2>5
<1>7. ASSUME NEW h \in Handlers, Finalise(h) PROVE LiveInv'
  <2> USE DEF Finalise, Committed
  <2>1. TypeOK'
    <3>1. GameOK' /\ AsideOK'
      BY <1>7 DEF TypeOK, GameOK, AsideOK
    <3>2. HandlersOK'
      BY <1>7 DEF TypeOK, HandlersOK
    <3>3. CountsOK'
      BY <1>7, LiveGameAssumption DEF TypeOK, CountsOK
    <3> QED BY <3>1, <3>2, <3>3 DEF TypeOK, GameOK, AsideOK, HandlersOK, CountsOK
  <2>2. WritersHold'
    BY <1>7 DEF WritersHold, TypeOK
  <2>3. FinalOver'
    BY <1>7 DEF FinalOver, TypeOK
  <2>4. BeingRated'
    BY <1>7 DEF BeingRated, TypeOK
  <2>5. BeingSet'
    BY <1>7 DEF BeingSet, TypeOK, ActiveUser
  <2>6. SlippedOnce'
    BY <1>7 DEF SlippedOnce, TypeOK
  <2> QED BY <2>1, <2>2, <2>3, <2>4, <2>5, <2>6
<1>8. CASE LockLapses \/ Fire \/ Look \/ DecideConcede
  <2> USE DEF LockLapses, Fire, Look, DecideConcede, Outliving
  <2>1. TypeOK'
    <3>1. GameOK' /\ AsideOK'
      BY <1>8 DEF TypeOK, GameOK, AsideOK, Forced, ActiveUser
    <3>2. HandlersOK'
      BY <1>8 DEF TypeOK, HandlersOK, Forced, ActiveUser
    <3>3. CountsOK'
      BY <1>8, LiveGameAssumption DEF TypeOK, CountsOK, Forced, ActiveUser
    <3> QED BY <3>1, <3>2, <3>3 DEF TypeOK, GameOK, AsideOK, HandlersOK, CountsOK
  <2>2. WritersHold'
    BY <1>8, LiveGameAssumption DEF WritersHold, TypeOK
  <2>3. FinalOver' /\ BeingRated'
    BY <1>8 DEF FinalOver, BeingRated, TypeOK
  <2>4. BeingSet'
    BY <1>8 DEF BeingSet, TypeOK, ActiveUser
  <2>5. SlippedOnce'
    BY <1>8 DEF SlippedOnce, TypeOK
  <2> QED BY <2>1, <2>2, <2>3, <2>4, <2>5
<1>9. ASSUME NEW p \in Players, Vanish(p) \/ MarkDisconnected(p) \/ MarkReconnected(p) PROVE LiveInv'
  <2> USE DEF Vanish, MarkDisconnected, MarkReconnected
  <2>1. TypeOK'
    BY <1>9, LiveGameAssumption DEF TypeOK
  <2>2. WritersHold' /\ FinalOver' /\ BeingRated'
    BY <1>9 DEF WritersHold, FinalOver, BeingRated
  <2>3. BeingSet'
    BY <1>9 DEF BeingSet, ActiveUser
  <2>4. SlippedOnce'
    BY <1>9 DEF SlippedOnce, TypeOK
  <2> QED BY <2>1, <2>2, <2>3, <2>4
<1>10. CASE Crash
  <2>1. TypeOK'
    <3>1. GameOK' /\ AsideOK' /\ HandlersOK'
      BY <1>10 DEF Crash, TypeOK, GameOK, AsideOK, HandlersOK
    <3>2. CountsOK'
      BY <1>10, LiveGameAssumption DEF Crash, TypeOK, CountsOK
    <3> QED BY <3>1, <3>2 DEF TypeOK, GameOK, AsideOK, HandlersOK, CountsOK
  <2>2. WritersHold' /\ FinalOver' /\ BeingRated' /\ BeingSet' /\ SlippedOnce'
    BY <1>10 DEF Crash, TypeOK, WritersHold, FinalOver, BeingRated, BeingSet, SlippedOnce
  <2> QED BY <2>1, <2>2
<1>11. CASE Restart
  BY <1>11 DEF Restart, TypeOK, WritersHold, FinalOver, BeingRated, BeingSet, SlippedOnce, ActiveUser
<1>12. CASE UNCHANGED vars
  BY <1>12 DEF vars, TypeOK, WritersHold, FinalOver, BeingRated, BeingSet, SlippedOnce, ActiveUser
<1> QED
  BY <1>1, <1>2, <1>3, <1>4, <1>5, <1>6, <1>7, <1>8, <1>9, <1>10, <1>11, <1>12 DEF Next, Proceed
-----------------------------------------------------------------------------
(* The inductive invariant of the three handlers around one stored game: who may
   be where while whose token is in the lock (games.service.ts, withLock). *)
THEOREM LiveInvariant == Spec => []LiveInv
<1>1. Init => LiveInv
  BY Initially
<1>2. LiveInv /\ [Next]_vars => LiveInv'
  BY StepKeepsInv
<1> QED BY <1>1, <1>2, PTL DEF Spec

(* The variables of a stored game, its handlers, locks, timers and records keep
   their types (games.service.ts, games-turn-timer.service.ts). *)
THEOREM LiveTypes == Spec => []TypeOK
BY LiveInvariant, PTL DEF LiveInv

(* The lock of GamesService.withLock, though it lapses, is given up on and outlives
   crashes, lets one handler at a time at the stored game. *)
THEOREM LiveOneWriter == Spec => []OneWriter
<1>1. LiveInv => OneWriter
  BY DEF LiveInv, WritersHold, OneWriter
<1> QED BY <1>1, LiveInvariant, PTL

(* finalizeGameWithRetry: a result is recorded at most once, only of a finished
   game, and without a fault it is recorded or on the list for the operator. *)
THEOREM LiveResultKept == Spec => []ResultKept
<1>1. LiveInv => ResultKept
  BY DEF LiveInv, TypeOK, FinalOver, BeingRated, ResultKept, RatedOnce, Accounted, AtRest, Busy
<1> QED BY <1>1, LiveInvariant, PTL

(* reconcileTurnTimer: between handlers the clock runs for whom the stored game says. *)
THEOREM LiveClockAgrees == Spec => []ClockAgrees
<1>1. LiveInv => ClockAgrees
  BY DEF LiveInv, BeingSet, ClockAgrees, AtRest, Busy
<1> QED BY <1>1, LiveInvariant, PTL

(* At most the one command that had passed the check slips into a pause. *)
THEOREM LivePauseStops == Spec => []PauseStopsPlay
<1>1. LiveInv => PauseStopsPlay
  BY DEF LiveInv, SlippedOnce, PauseStopsPlay
<1> QED BY <1>1, LiveInvariant, PTL
=============================================================================
