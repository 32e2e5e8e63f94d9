---------------------------- MODULE DurakEngine ----------------------------
(***************************************************************************)
(* The game engine of packages/game-engine: one game of durak as the state *)
(* that createGame builds and applyCommand (state/reducers.ts) advances,   *)
(* with the bout closings of state/transitions.ts.  The engine is pure:    *)
(* an accepted command is one step, a rejected one changes nothing and is  *)
(* no step.  Players are named by their seat, the index into `players'.    *)
(*                                                                         *)
(* Data that no command reads is left out: nicknames, ids of entries (an   *)
(* entry is named by its place on the table), boutNumber, the order of the *)
(* cards in a hand and in the discard pile, the domain events.             *)
(***************************************************************************)
EXTENDS Cards, SequencesExt

CONSTANTS
  N,                  (* number of seated players                                 *)
  Deck,               (* the cards of the game: deckFactory.build(settings)       *)
  DeckOrders,         (* the orders shuffle may leave the deck in                 *)
  NoCard,             (* `beatenBy: null'                                         *)
  HandSize,           (* STANDARD_HAND_SIZE, 6 in the code                        *)
  BoutCap,            (* cap on attacks after the first defence, 6 in the code    *)
  FirstBoutLimit,     (* settings.firstBoutLimit; 0 stands for 'defender_hand'    *)
  AttackerScope,      (* settings.attackerScope                                   *)
  ExclusiveThrowIn,   (* settings.exclusiveThrowIn                                *)
  CheatingEnabled,    (* settings.cheatingEnabled                                 *)
  CheatNoticeScope,   (* settings.cheatNoticeScope                                *)
  CheatAttempts,      (* settings.cheatAttempts                                   *)
  FirstTurn           (* settings.firstTurn                                       *)

Seats == 0 .. N - 1

ASSUME PlayersAssumption == N \in Nat /\ N >= 2

ASSUME DeckAssumption ==
  /\ IsFiniteSet(Deck)
  /\ Deck \subseteq StandardCard \cup JokerCard
  /\ NoCard \notin Deck
  /\ \A order \in DeckOrders :
       /\ order \in [1 .. Cardinality(Deck) -> Deck]
       /\ \A c \in Deck : \E i \in 1 .. Cardinality(Deck) : order[i] = c

(* Everyone can be dealt at least one card: 36 cards or more for at most 6 players. *)
ASSUME DealAssumption == N * HandSize <= Cardinality(Deck)

ASSUME SettingsAssumption ==
  /\ HandSize \in Nat \ {0} /\ BoutCap \in Nat \ {0} /\ FirstBoutLimit \in Nat
  /\ AttackerScope \in {"all", "attacker_only"}
  /\ CheatNoticeScope \in {"all", "defender_only"}
  /\ FirstTurn \in {"lowest_trump", "random", "previous_loser"}
  /\ ExclusiveThrowIn \in BOOLEAN /\ CheatingEnabled \in BOOLEAN
  /\ CheatAttempts \in Nat

VARIABLES
  hands,                    (* players[i].hand, as a set                              *)
  deck,                     (* draw pile, its top is the last element                 *)
  discard,                  (* beaten cards                                           *)
  table,                    (* table.attacks: entries in the order they were thrown   *)
  trumpSuit,
  status,
  attacker,                 (* currentAttackerIndex                                   *)
  defender,                 (* currentDefenderIndex                                   *)
  initialDefenderHandSize,
  firstDefenseHappened,
  place,                    (* place[p] = index of p in finishedPlayers + 1, else 0   *)
  loser,                    (* loserPlayerId, -1 for null                             *)
  passed,                   (* passedPlayerIds                                        *)
  exclusiveLockReleased,
  cheatAttemptsRemaining

cardVars   == <<hands, deck, discard, table>>
resultVars == <<place, loser>>
roleVars   == <<attacker, defender, initialDefenderHandSize>>
vars == <<hands, deck, discard, table, trumpSuit, status, attacker, defender,
          initialDefenderHandSize, firstDefenseHappened, place, loser, passed,
          exclusiveLockReleased, cheatAttemptsRemaining>>

Phases == {"bout_attack", "bout_defense", "bout_settle", "bout_take_pending", "game_over"}
NoSeat == -1

Entry == [card : Deck, beatenBy : Deck \cup {NoCard}, by : Seats]
-----------------------------------------------------------------------------
(***************************************************************************)
(* Seats around the table.                                                 *)
(***************************************************************************)

(* The seat `step' places after seat i, for 0 <= step <= N: (i + step) % n. *)
Seat(i, step) == IF i + step < N THEN i + step ELSE i + step - N

(* How many places after seat i seat j sits. *)
SeatsAfter(i, j) == IF j >= i THEN j - i ELSE j - i + N

Out(pl) == {p \in Seats : pl[p] > 0}
Finished(p) == place[p] > 0

(* Mutant: the next seat, whether or not its player still is in the game. *)
nextActivePlayerIndex_NextSeat(pl, from) == Seat(from, 1)

nextActivePlayerIndex(pl, from) ==
  LET steps == {s \in 1 .. N : Seat(from, s) \notin Out(pl)}
  IN  IF steps = {} THEN from ELSE Seat(from, Min(steps))

-----------------------------------------------------------------------------
(***************************************************************************)
(* The table.                                                              *)
(***************************************************************************)
Beaten(t)   == {i \in DOMAIN t : t[i].beatenBy # NoCard}
Unbeaten(t) == {i \in DOMAIN t : t[i].beatenBy = NoCard}
TableCards(t) == {t[i].card : i \in DOMAIN t} \cup {t[i].beatenBy : i \in Beaten(t)}

tableFullyBeaten(t) == t # <<>> /\ Unbeaten(t) = {}

(* Cap on the attacks of a bout before the defender's hand is considered. *)
limit(latched, handSize) ==
  IF latched THEN BoutCap
  ELSE IF FirstBoutLimit = 0 THEN handSize ELSE FirstBoutLimit

(* Mutant: only open attacks count. *)
attacksRemaining_OpenOnly(t) ==
  LET headroom == Min({limit(firstDefenseHappened, initialDefenderHandSize),
                       initialDefenderHandSize})
      open == Cardinality(Unbeaten(t))
  IN  IF headroom > open THEN headroom - open ELSE 0

attacksRemaining(t) ==
  LET headroom == Min({limit(firstDefenseHappened, initialDefenderHandSize),
                       initialDefenderHandSize})
  IN  IF headroom > Len(t) THEN headroom - Len(t) ELSE 0

(* A thrown card must repeat a rank lying on the table; jokers always may be thrown. *)
matchesAnyRankOnTable(c) ==
  \/ isJoker(c)
  \/ \E d \in TableCards(table) : SameRank(c, d)

-----------------------------------------------------------------------------
(***************************************************************************)
(* Who may throw: the base policy of attackerScope and the exclusiveThrowIn *)
(* decorator, which holds everyone but the primary attacker back until the *)
(* primary has passed once in this bout or holds no card.                  *)
(***************************************************************************)
baseCanThrow(p) ==
  /\ p # defender
  /\ ~Finished(p)
  /\ AttackerScope = "attacker_only" => p = attacker

(* Mutant: the last window of a take lifts the lock. *)
canThrow_TakeUnlocks(p) ==
  /\ baseCanThrow(p)
  /\ \/ ~ExclusiveThrowIn \/ exclusiveLockReleased \/ status = "bout_take_pending"
     \/ p = attacker \/ Finished(attacker) \/ hands[attacker] = {}

canThrow(p) ==
  /\ baseCanThrow(p)
  /\ \/ ~ExclusiveThrowIn \/ exclusiveLockReleased
     \/ p = attacker \/ Finished(attacker) \/ hands[attacker] = {}

-----------------------------------------------------------------------------
(***************************************************************************)
(* Refilling the hands (refillHands).  The drawers, in the order attacker, *)
(* seats after the attacker, defender last, each draw from the top of the  *)
(* deck until they hold HandSize cards.  A draw slot <<p, j>> is the draw  *)
(* that would bring p's hand from j - 1 to j cards; the slot with k slots  *)
(* before it gets the card with k cards above it, if the deck has it.      *)
(***************************************************************************)
(* Mutant: the throwers draw from the same copy of the pile. *)
DrawTurn_Shared(p) == IF p = defender THEN N ELSE 0

DrawTurn(p) == IF p = defender THEN N ELSE SeatsAfter(attacker, p)

Slots(h, drawers) ==
  {s \in drawers \X (1 .. HandSize) : s[2] > Cardinality(h[s[1]])}

SlotsBefore(h, drawers, slot) ==
  {s \in Slots(h, drawers) : \/ DrawTurn(s[1]) < DrawTurn(slot[1])
                             \/ s[1] = slot[1] /\ s[2] < slot[2]}

Drawn(h, drawers, p) ==
  {deck[Len(deck) - k] : k \in
     {k \in 0 .. Len(deck) - 1 :
        \E s \in Slots(h, drawers) : s[1] = p /\ Cardinality(SlotsBefore(h, drawers, s)) = k}}

refillHands(h, drawers) == [p \in Seats |-> h[p] \cup Drawn(h, drawers, p)]

refillDeck(h, drawers) ==
  LET n == Cardinality(Slots(h, drawers))
  IN  SubSeq(deck, 1, IF n < Len(deck) THEN Len(deck) - n ELSE 0)

(* Mutant: players who leave in one bout share a place. *)
markFinishedPlayers_Shared(h, d) ==
  [p \in Seats |-> IF d = <<>> /\ ~Finished(p) /\ h[p] = {}
                   THEN Cardinality(Out(place)) + 1 ELSE place[p]]

(* Once the deck is empty, players left without cards take the next places, in seat order. *)
markFinishedPlayers(h, d) ==
  LET new == IF d = <<>> THEN {p \in Seats : ~Finished(p) /\ h[p] = {}} ELSE {}
  IN  [p \in Seats |-> IF p \in new
                       THEN Cardinality(Out(place)) + Cardinality({q \in new : q <= p})
                       ELSE place[p]]

-----------------------------------------------------------------------------
(***************************************************************************)
(* Closing a bout.                                                         *)
(***************************************************************************)

(* Mutant: whoever defended the last bout is the durak. *)
EndGame_Defender(pl, lock) ==
  /\ Cardinality(Seats \ Out(pl)) <= 1
  /\ status' = "game_over"
  /\ loser' = IF Out(pl) = Seats THEN NoSeat ELSE defender
  /\ exclusiveLockReleased' = lock
  /\ UNCHANGED <<attacker, defender, initialDefenderHandSize, cheatAttemptsRemaining>>

(* checkGameOver: at most one player is still in; that player is the durak. *)
EndGame(pl, lock) ==
  /\ Cardinality(Seats \ Out(pl)) <= 1
  /\ status' = "game_over"
  /\ loser' = IF Out(pl) = Seats THEN NoSeat ELSE CHOOSE p \in Seats : p \notin Out(pl)
  /\ exclusiveLockReleased' = lock
  /\ UNCHANGED <<attacker, defender, initialDefenderHandSize, cheatAttemptsRemaining>>

(* Mutant: the attacker's neighbour defends, finished or not. *)
startNewBout_Neighbour(pl, h, newAttacker) ==
  /\ Cardinality(Seats \ Out(pl)) > 1
  /\ status' = "bout_attack"
  /\ attacker' = newAttacker
  /\ defender' = Seat(newAttacker, 1)
  /\ initialDefenderHandSize' = Cardinality(h[Seat(newAttacker, 1)])
  /\ exclusiveLockReleased' = FALSE
  /\ cheatAttemptsRemaining' = [p \in Seats |-> CheatAttempts]
  /\ UNCHANGED loser

startNewBout(pl, h, newAttacker) ==
  /\ Cardinality(Seats \ Out(pl)) > 1
  /\ status' = "bout_attack"
  /\ attacker' = newAttacker
  /\ defender' = nextActivePlayerIndex(pl, newAttacker)
  /\ initialDefenderHandSize' = Cardinality(h[nextActivePlayerIndex(pl, newAttacker)])
  /\ exclusiveLockReleased' = FALSE
  /\ cheatAttemptsRemaining' = [p \in Seats |-> CheatAttempts]
  /\ UNCHANGED loser

(* Mutant: the successful defender does not draw. *)
closeBoutBeaten_DefenderSkipped(h, t, lock) ==
  LET drawers == {p \in Seats : ~Finished(p)} \ {defender}
      h1 == refillHands(h, drawers)
      d1 == refillDeck(h, drawers)
      pl == markFinishedPlayers(h1, d1)
  IN  /\ discard' = discard \cup TableCards(t)
      /\ firstDefenseHappened' = TRUE
      /\ hands' = h1 /\ deck' = d1 /\ place' = pl
      /\ table' = <<>> /\ passed' = {}
      /\ \/ EndGame(pl, lock)
         \/ startNewBout(pl, h1, IF pl[defender] > 0 THEN nextActivePlayerIndex(pl, defender)
                                                     ELSE defender)

(* The defender beat everything: sweep the table, refill, the ex-defender attacks. *)
closeBoutBeaten(h, t, lock) ==
  LET drawers == {p \in Seats : ~Finished(p)}
      h1 == refillHands(h, drawers)
      d1 == refillDeck(h, drawers)
      pl == markFinishedPlayers(h1, d1)
  IN  /\ discard' = discard \cup TableCards(t)
      /\ firstDefenseHappened' = TRUE
      /\ hands' = h1 /\ deck' = d1 /\ place' = pl
      /\ table' = <<>> /\ passed' = {}
      /\ \/ EndGame(pl, lock)
         \/ startNewBout(pl, h1, IF pl[defender] > 0 THEN nextActivePlayerIndex(pl, defender)
                                                     ELSE defender)

(* Mutant: a take is swept like a defence. *)
closeBoutTaken_Swept(h, t, lock) == closeBoutBeaten(h, t, lock)

(* The defender takes the table and does not draw; the next player attacks. *)
closeBoutTaken(h, t, lock) ==
  LET drawers == {p \in Seats : ~Finished(p)} \ {defender}
      h0 == [h EXCEPT ![defender] = @ \cup TableCards(t)]
      h1 == refillHands(h0, drawers)
      d1 == refillDeck(h0, drawers)
      pl == markFinishedPlayers(h1, d1)
  IN  /\ hands' = h1 /\ deck' = d1 /\ place' = pl
      /\ table' = <<>> /\ passed' = {}
      /\ \/ EndGame(pl, lock)
         \/ startNewBout(pl, h1, nextActivePlayerIndex(pl, defender))
      /\ UNCHANGED <<discard, firstDefenseHappened>>

-----------------------------------------------------------------------------
(***************************************************************************)
(* createGame.                                                             *)
(***************************************************************************)

(* Round-robin deal from the top: the k-th card from the top goes to seat k % N. *)
DealtHand(order, p) ==
  {order[Len(order) - k] : k \in {k \in 0 .. N * HandSize - 1 : k % N = p}}

TrumpsHeld(h, trump, p) == {c \in h[p] : isStandard(c) /\ c.suit = trump}

(* lowest_trump: the holder of the lowest trump, seat 0 when no trump was dealt. *)
LowestTrumpHolder(h, trump) ==
  LET holders == {p \in Seats : TrumpsHeld(h, trump, p) # {}}
  IN  IF holders = {} THEN 0
      ELSE CHOOSE p \in holders : \E c \in TrumpsHeld(h, trump, p) :
             \A q \in holders : \A d \in TrumpsHeld(h, trump, q) : c.rank <= d.rank

(* A random or previous-loser first attacker may be any seat. *)
FirstAttackers(h, trump) ==
  IF FirstTurn = "lowest_trump" THEN {LowestTrumpHolder(h, trump)} ELSE Seats

Init ==
  \E order \in DeckOrders :
    LET d == TrumpToBottom(order)
    IN  /\ hands = [p \in Seats |-> DealtHand(d, p)]
        /\ deck = SubSeq(d, 1, Len(d) - N * HandSize)
        /\ trumpSuit = SelectTrump(order)
        /\ attacker \in FirstAttackers(hands, trumpSuit)
        /\ defender = Seat(attacker, 1)
        /\ initialDefenderHandSize = Cardinality(hands[defender])
        /\ discard = {} /\ table = <<>> /\ status = "bout_attack"
        /\ firstDefenseHappened = FALSE /\ exclusiveLockReleased = FALSE
        /\ place = [p \in Seats |-> 0] /\ loser = NoSeat /\ passed = {}
        /\ cheatAttemptsRemaining = [p \in Seats |-> CheatAttempts]

-----------------------------------------------------------------------------
(***************************************************************************)
(* Commands.                                                               *)
(***************************************************************************)
NewEntry(p, c) == [card |-> c, beatenBy |-> NoCard, by |-> p]

Attack(p, c) ==
  LET h == [hands EXCEPT ![p] = @ \ {c}]
      t == Append(table, NewEntry(p, c))
      committed == status = "bout_take_pending" /\ ~CheatingEnabled
  IN  /\ canThrow(p)
      /\ status \in {"bout_attack", "bout_defense", "bout_settle", "bout_take_pending"}
      /\ table = <<>> => p = attacker
      /\ c \in hands[p]
      /\ table # <<>> /\ ~CheatingEnabled => matchesAnyRankOnTable(c)
      /\ attacksRemaining(table) > 0
      /\ \/ /\ committed /\ attacksRemaining(t) = 0
            /\ closeBoutTaken(h, t, exclusiveLockReleased)
         \/ /\ ~(committed /\ attacksRemaining(t) = 0)
            /\ hands' = h /\ table' = t /\ passed' = {}
            /\ status' = IF committed THEN "bout_take_pending" ELSE "bout_defense"
            /\ UNCHANGED <<deck, discard, roleVars, resultVars, firstDefenseHappened,
                           exclusiveLockReleased, cheatAttemptsRemaining>>
      /\ UNCHANGED trumpSuit

(* Beating the last open attack closes the bout, unless cheating is on: then *)
(* it stays open in bout_settle so that the beat can still be called out.    *)
Beat(i, c) ==
  LET h == [hands EXCEPT ![defender] = @ \ {c}]
      t == [table EXCEPT ![i].beatenBy = c]
  IN  /\ status = "bout_defense"
      /\ i \in Unbeaten(table)
      /\ c \in hands[defender]
      /\ ~CheatingEnabled => beats(c, table[i].card, trumpSuit)
      /\ \/ /\ tableFullyBeaten(t) /\ ~CheatingEnabled
            /\ closeBoutBeaten(h, t, exclusiveLockReleased)
         \/ /\ ~tableFullyBeaten(t) \/ CheatingEnabled
            /\ hands' = h /\ table' = t /\ passed' = {}
            /\ status' = IF tableFullyBeaten(t) THEN "bout_settle" ELSE "bout_defense"
            /\ UNCHANGED <<deck, discard, roleVars, resultVars, firstDefenseHappened,
                           exclusiveLockReleased, cheatAttemptsRemaining>>
      /\ UNCHANGED trumpSuit

canTranslate(c) ==
  /\ table # <<>>
  /\ Beaten(table) = {}
  /\ isStandard(c)
  /\ \A i \in DOMAIN table : SameRank(table[i].card, c)
  /\ Cardinality(hands[nextActivePlayerIndex(place, defender)]) >= Len(table) + 1

Translate(c) ==
  LET h    == [hands EXCEPT ![defender] = @ \ {c}]
      next == nextActivePlayerIndex(place, defender)
  IN  /\ status \notin {"game_over", "bout_take_pending"}
      /\ c \in hands[defender]
      /\ canTranslate(c)
      /\ Len(table) + 1 <= limit(firstDefenseHappened, initialDefenderHandSize)
      /\ hands' = h
      /\ table' = Append(table, NewEntry(defender, c))
      /\ attacker' = defender
      /\ defender' = next
      /\ initialDefenderHandSize' = Cardinality(h[next])
      /\ passed' = {}
      /\ exclusiveLockReleased' = FALSE
      /\ status' = "bout_defense"
      /\ UNCHANGED <<deck, discard, trumpSuit, resultVars, firstDefenseHappened,
                     cheatAttemptsRemaining>>

(* Mutant: the defender may call a take off again. *)
Take_Revoked ==
  /\ status \in {"bout_defense", "bout_settle", "bout_take_pending"}
  /\ table # <<>>
  /\ status' = IF status = "bout_take_pending" THEN "bout_defense" ELSE "bout_take_pending"
  /\ passed' = {}
  /\ UNCHANGED <<cardVars, roleVars, resultVars, firstDefenseHappened, trumpSuit,
                 exclusiveLockReleased, cheatAttemptsRemaining>>

(* The defender gives in; the throwers get a last window before the cards move. *)
Take ==
  /\ status \in {"bout_defense", "bout_settle"}
  /\ table # <<>>
  /\ \/ /\ ~CheatingEnabled /\ attacksRemaining(table) = 0
        /\ closeBoutTaken(hands, table, exclusiveLockReleased)
     \/ /\ CheatingEnabled \/ attacksRemaining(table) > 0
        /\ passed' = {}
        /\ status' = "bout_take_pending"
        /\ UNCHANGED <<cardVars, roleVars, resultVars, firstDefenseHappened,
                       exclusiveLockReleased, cheatAttemptsRemaining>>
  /\ UNCHANGED trumpSuit

(* Mutant: the bout waits for the defender's pass too. *)
Eligible_Everyone == {p \in Seats : ~Finished(p) /\ hands[p] # {}}

(* The throwers whose pass the bout waits for. *)
Eligible == {p \in Seats : baseCanThrow(p) /\ hands[p] # {}}

Pass(p) ==
  LET released == exclusiveLockReleased \/ (ExclusiveThrowIn /\ p = attacker)
      done     == Eligible \subseteq passed \cup {p}
  IN  /\ status \in {"bout_settle", "bout_take_pending"}
      /\ baseCanThrow(p)
      /\ p \notin passed
      /\ \/ /\ done /\ status = "bout_settle"
            /\ closeBoutBeaten(hands, table, released)
         \/ /\ done /\ status = "bout_take_pending"
            /\ closeBoutTaken(hands, table, released)
         \/ /\ ~done
            /\ passed' = passed \cup {p}
            /\ exclusiveLockReleased' = released
            /\ UNCHANGED <<cardVars, status, roleVars, resultVars, firstDefenseHappened,
                           cheatAttemptsRemaining>>
      /\ UNCHANGED trumpSuit

-----------------------------------------------------------------------------
(***************************************************************************)
(* notice_cheat.  Only a justified accusation changes the state, so only   *)
(* those are steps.  A beaten entry is accused for its beat, an open one   *)
(* for its attack card.                                                    *)
(***************************************************************************)
canNotice(p, cheater, isBeat) ==
  /\ CheatingEnabled
  /\ p # cheater
  /\ ~Finished(p)
  /\ isBeat \/ CheatNoticeScope = "all" \/ p = defender

(* The cards that lie on or under the entries thrown before entry i. *)
CardsBefore(i) == TableCards(SubSeq(table, 1, i - 1))

FakeBeat(i) == i \in Beaten(table) /\ ~beats(table[i].beatenBy, table[i].card, trumpSuit)

FakeThrow(i) ==
  /\ i \in Unbeaten(table)
  /\ i > 1
  /\ isStandard(table[i].card)
  /\ \A d \in CardsBefore(i) : ~SameRank(table[i].card, d)

(* Mutant: the phase is not recomputed after a rollback. *)
PhaseAfterCatch_Kept(t) == status

(* The phase that fits what is left on the table; a take already called stands. *)
PhaseAfterCatch(t) ==
  IF t = <<>> THEN "bout_attack"
  ELSE IF status = "bout_take_pending" THEN "bout_take_pending"
  ELSE IF Unbeaten(t) # {} THEN "bout_defense" ELSE "bout_settle"

(* Mutant: the attempts left are not floored at zero. *)
CardReturned_NoFloor(cheater, c, t) ==
  /\ hands' = [hands EXCEPT ![cheater] = @ \cup {c}]
  /\ table' = t
  /\ status' = PhaseAfterCatch(t)
  /\ cheatAttemptsRemaining' = [cheatAttemptsRemaining EXCEPT ![cheater] = @ - 1]
  /\ UNCHANGED <<deck, discard, trumpSuit, roleVars, resultVars, firstDefenseHappened,
                 passed, exclusiveLockReleased>>

CardReturned(cheater, c, t) ==
  /\ hands' = [hands EXCEPT ![cheater] = @ \cup {c}]
  /\ table' = t
  /\ status' = PhaseAfterCatch(t)
  /\ cheatAttemptsRemaining' =
       [cheatAttemptsRemaining EXCEPT ![cheater] = IF @ > 0 THEN @ - 1 ELSE 0]
  /\ UNCHANGED <<deck, discard, trumpSuit, roleVars, resultVars, firstDefenseHappened,
                 passed, exclusiveLockReleased>>

NoticeBeat(p, i) ==
  /\ status # "game_over"
  /\ FakeBeat(i)
  /\ canNotice(p, defender, TRUE)
  /\ CardReturned(defender, table[i].beatenBy, [table EXCEPT ![i].beatenBy = NoCard])

NoticeAttack(p, i) ==
  /\ status # "game_over"
  /\ FakeThrow(i)
  /\ canNotice(p, table[i].by, FALSE)
  /\ CardReturned(table[i].by, table[i].card, RemoveAt(table, i))

(* applyCommand refuses every command once the game is over. *)
GameOver == status = "game_over" /\ UNCHANGED vars

Next ==
  \/ \E p \in Seats : \E c \in hands[p] : Attack(p, c)
  \/ \E i \in DOMAIN table : \E c \in hands[defender] : Beat(i, c)
  \/ \E c \in hands[defender] : Translate(c)
  \/ Take
  \/ \E p \in Seats : Pass(p)
  \/ \E p \in Seats, i \in DOMAIN table : NoticeBeat(p, i)
  \/ \E p \in Seats, i \in DOMAIN table : NoticeAttack(p, i)
  \/ GameOver

Spec == Init /\ [][Next]_vars
-----------------------------------------------------------------------------
(***************************************************************************)
(* Properties.                                                             *)
(***************************************************************************)
InPlay == status # "game_over"

(* Every variable has the shape the engine's GameState type gives it; a    *)
(* pass is only recorded for a player who still is in the game.            *)
TypeOK ==
  /\ hands \in [Seats -> SUBSET Deck]
  /\ deck \in Seq(Deck)
  /\ discard \in SUBSET Deck
  /\ table \in Seq(Entry)
  /\ trumpSuit \in Suits
  /\ status \in Phases
  /\ attacker \in Seats /\ defender \in Seats
  /\ initialDefenderHandSize \in Nat
  /\ firstDefenseHappened \in BOOLEAN
  /\ place \in [Seats -> 0 .. N]
  /\ loser \in Seats \cup {NoSeat}
  /\ passed \in SUBSET Seats
  /\ exclusiveLockReleased \in BOOLEAN
  /\ cheatAttemptsRemaining \in [Seats -> 0 .. CheatAttempts]

(* No command, refill, sweep, take or rolled-back cheat loses a card or     *)
(* doubles one: the hands, the draw pile, the table and the discard pile    *)
(* hold all the cards, and each card lies in exactly one place of one.      *)
InHands(h) == UNION {h[p] : p \in Seats}

LaidOnce(t) ==
  \A i, j \in DOMAIN t :
    /\ t[i].card # t[j].beatenBy
    /\ i # j => t[i].card # t[j].card
    /\ i # j /\ t[i].beatenBy # NoCard => t[i].beatenBy # t[j].beatenBy

Conserved(h, d, t, disc) ==
  /\ InHands(h) \cup Range(d) \cup TableCards(t) \cup disc = Deck
  /\ InHands(h) \cap Range(d) = {}
  /\ (InHands(h) \cup Range(d)) \cap TableCards(t) = {}
  /\ (InHands(h) \cup Range(d) \cup TableCards(t)) \cap disc = {}
  /\ \A p, q \in Seats : p # q => h[p] \cap h[q] = {}
  /\ IsInjective(d)
  /\ LaidOnce(t)

CardsConserved == Conserved(hands, deck, table, discard)

(* The throw-in cap keeps a bout answerable: through throw-ins, translates, *)
(* beats and rolled-back cheats in any order, the defender always holds at  *)
(* least as many cards as there are open attacks, and the table never       *)
(* outgrows the hand the defender started the bout with.                    *)
DefenderCanAnswer ==
  InPlay => /\ Cardinality(Unbeaten(table)) <= Cardinality(hands[defender])
            /\ Len(table) <= initialDefenderHandSize

(* The phase the clients are shown agrees with the table: an empty table    *)
(* waits for the attacker, an open attack for the defender, and only a      *)
(* fully beaten table for the throwers' "bito".                             *)
PhaseMatchesTable ==
  /\ status = "bout_attack" => table = <<>> /\ passed = {}
  /\ status = "bout_defense" => Unbeaten(table) # {}
  /\ status = "bout_settle" => tableFullyBeaten(table) /\ CheatingEnabled
  /\ status = "bout_take_pending" => table # <<>>

(* A bout is never stuck on its players: whoever the phase waits for is in  *)
(* the game and has a move.  The attacker of an empty table holds a card    *)
(* and a free slot to put it on; when passes are awaited, somebody who may  *)
(* pass has not yet passed.                                                 *)
SomebodyCanMove ==
  /\ InPlay => attacker # defender /\ ~Finished(attacker) /\ ~Finished(defender)
  /\ status = "bout_attack" => hands[attacker] # {} /\ attacksRemaining(table) > 0
  /\ status \in {"bout_settle", "bout_take_pending"} =>
       \E p \in Seats : baseCanThrow(p) /\ p \notin passed

(* The phase fits the table, and somebody can move in it, also when a cheat *)
(* is rolled back in the middle of a bout that is beaten or given up.       *)
PhaseAlive == PhaseMatchesTable /\ SomebodyCanMove

(* Finishing places are given in order, without gaps or ties, and a player  *)
(* who has one is out for good: no cards, no pass, nothing on the table.    *)
PlacesInOrder ==
  /\ {place[p] : p \in Out(place)} = 1 .. Cardinality(Out(place))
  /\ \A p \in Out(place) : /\ hands[p] = {} /\ p \notin passed
                           /\ \A i \in DOMAIN table : table[i].by # p

(* The game ends exactly when fewer than two players are in, the pile is    *)
(* then exhausted, and the durak is the one player left holding cards.      *)
DurakHoldsTheRest ==
  /\ InPlay <=> Cardinality(Seats \ Out(place)) > 1
  /\ ~InPlay => /\ deck = <<>> /\ table = <<>>
                /\ \A p \in Seats : hands[p] # {} <=> p = loser

(* Who got out in which order, and who is left, after any refill in which      *)
(* several run out of cards at once.                                           *)
ResultHonest == PlacesInOrder /\ DurakHoldsTheRest

(* Between bouts nobody is short while the pile still has cards, and with   *)
(* the pile exhausted everyone still in the game holds at least one card.   *)
HandsRefilled ==
  status = "bout_attack" =>
    \A p \in Seats : ~Finished(p) =>
      Cardinality(hands[p]) >= (IF deck # <<>> THEN HandSize ELSE 1)

(* The exclusive throw-in lock really holds: while it is engaged and the    *)
(* primary attacker still has cards, the newest card on the table is the    *)
(* primary's own: the first attack, a throw-in, or the translate that made  *)
(* its player the primary.                                                  *)
ExclusiveLockHolds ==
  /\ ExclusiveThrowIn /\ ~CheatingEnabled /\ ~exclusiveLockReleased
  /\ table # <<>> /\ hands[attacker] # {}
  => Last(table).by = attacker

(* A take never relaxes the first-bout cap: the latch is set exactly when a *)
(* bout has been swept into the discard pile, and only fully beaten tables  *)
(* are swept, so the pile always holds as many beats as attacks.            *)
LatchMeansDefense ==
  /\ firstDefenseHappened <=> discard # {}
  /\ Cardinality(discard) % 2 = 0

(* The flags that outlive a bout or a pass (firstDefenseHappened and the      *)
(* primary's exclusive lock) say what happened, whichever paths led there.    *)
FlagsHold == LatchMeansDefense /\ ExclusiveLockHolds

(* Roles rotate by the rules only.  A step that ends a bout makes the        *)
(* ex-defender, or the next player still in, attack after a defence, and the *)
(* player after the defender after a take; within a bout only a translate    *)
(* moves the roles, by one player.                                           *)
RolesRotate ==
  [][(attacker' # attacker \/ defender' # defender) =>
       /\ defender' = nextActivePlayerIndex(place', attacker')
       /\ IF discard' # discard
          THEN attacker' = (IF place'[defender] > 0 THEN nextActivePlayerIndex(place', defender)
                                                    ELSE defender)
          ELSE attacker' = (IF table' = <<>> THEN nextActivePlayerIndex(place', defender) ELSE defender)]_vars

(* Without cheats to undo, every bout comes to an end: each step that leaves *)
(* cards on the table takes a card out of the hands, or opens the last       *)
(* throw-in window of a take, or adds a pass.  No order of throws, beats,    *)
(* translates, takes and passes goes on forever.                             *)
HandCards == Cardinality(UNION {hands[p] : p \in Seats})
BoutProgress ==
  [][~CheatingEnabled /\ table # <<>> /\ table' # <<>> =>
       \/ HandCards' < HandCards
       \/ /\ HandCards' = HandCards
          /\ \/ status # "bout_take_pending" /\ status' = "bout_take_pending"
             \/ status' = status /\ passed \subseteq passed' /\ passed' # passed]_vars

(* The engine keeps the protocol the service, its turn timer and its pause   *)
(* rely on (BoutProtocol): a refinement, with the finished players as `out'. *)
Protocol == INSTANCE BoutProtocol WITH Players <- Seats, out <- Out(place)
ImplementsBoutProtocol == Protocol!Spec
=============================================================================
