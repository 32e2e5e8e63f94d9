------------------------- MODULE DurakEngineProofs -------------------------
(***************************************************************************)
(* Theorems about the game engine, for every number of players, every deck *)
(* and every choice of settings: its types, that it never loses or doubles *)
(* a card, and that it implements BoutProtocol.                            *)
(***************************************************************************)
EXTENDS DurakEngine, FiniteSetTheorems, WellFoundedInduction, TLAPS

(* A nonempty set of naturals has a least element, and Min picks it. *)
LEMMA MinOfNaturals ==
  ASSUME NEW S \in SUBSET Nat, S # {}
  PROVE  /\ Min(S) \in S
         /\ \A x \in S : Min(S) <= x
<1> DEFINE below(x) == 0 .. x - 1
           T == {below(x) : x \in S}
<1>1. \A x \in S : below(x) \in FiniteSubsetsOf(Nat)
  BY FS_Interval DEF FiniteSubsetsOf
<1>2. \E b \in T : \A y \in T : ~ (<<y, b>> \in StrictSubsetOrdering(Nat))
  <2>1. T \subseteq FiniteSubsetsOf(Nat) /\ T # {}
    BY <1>1
  <2> QED BY <2>1, FS_StrictSubsetOrderingWellFounded, WFMin
<1>3. PICK m \in S : \A x \in S : ~ (<<below(x), below(m)>> \in StrictSubsetOrdering(Nat))
  BY <1>2
<1>4. ASSUME NEW x \in S PROVE m <= x
  <2> SUFFICES ASSUME x < m PROVE FALSE
    OBVIOUS
  <2>1. below(x) \in SUBSET Nat /\ below(m) \in SUBSET Nat
    OBVIOUS
  <2>2. below(x) \subseteq below(m) /\ x \in below(m) /\ x \notin below(x)
    OBVIOUS
  <2> HIDE DEF below
  <2> QED BY <1>3, <2>1, <2>2 DEF StrictSubsetOrdering
<1> QED BY <1>4 DEF Min

LEMMA SeatType ==
  ASSUME NEW i \in Seats, NEW s \in 0 .. N
  PROVE  Seat(i, s) \in Seats
BY PlayersAssumption DEF Seat, Seats

(* Seats are counted around the table: every other seat is 1 to N - 1 places away. *)
LEMMA SeatAtDistance ==
  ASSUME NEW i \in Seats, NEW j \in Seats
  PROVE  /\ SeatsAfter(i, j) \in 0 .. N - 1
         /\ Seat(i, SeatsAfter(i, j)) = j
         /\ SeatsAfter(i, j) = 0 <=> i = j
BY PlayersAssumption DEF Seat, SeatsAfter, Seats

LEMMA NextActiveType ==
  ASSUME NEW pl, NEW from \in Seats
  PROVE  nextActivePlayerIndex(pl, from) \in Seats
<1> DEFINE steps == {s \in 1 .. N : Seat(from, s) \notin Out(pl)}
<1>1. CASE steps = {}
  BY <1>1 DEF nextActivePlayerIndex
<1>2. CASE steps # {}
  <2>1. Min(steps) \in steps
    <3>1. steps \in SUBSET Nat
      BY PlayersAssumption
    <3> QED BY <1>2, <3>1, MinOfNaturals
  <2> QED BY <1>2, <2>1, SeatType, PlayersAssumption DEF nextActivePlayerIndex
<1> QED BY <1>1, <1>2

LEMMA SeatsFinite == IsFiniteSet(Seats) /\ Cardinality(Seats) = N
BY FS_Interval, PlayersAssumption DEF Seats

(* A hand never is larger than the deck. *)
LEMMA HandsFinite ==
  ASSUME NEW S \in SUBSET Deck
  PROVE  IsFiniteSet(S) /\ Cardinality(S) \in Nat
BY FS_Subset, FS_CardinalityType, DeckAssumption

-----------------------------------------------------------------------------
(***************************************************************************)
(* Type correctness.                                                       *)
(***************************************************************************)
HandsType == [Seats -> SUBSET Deck]

LEMMA SlotsFinite ==
  ASSUME NEW h, NEW drawers \in SUBSET Seats
  PROVE  /\ IsFiniteSet(Slots(h, drawers))
         /\ Cardinality(Slots(h, drawers)) \in Nat
<1>1. IsFiniteSet(drawers \X (1 .. HandSize))
  <2>1. IsFiniteSet(drawers)
    BY SeatsFinite, FS_Subset
  <2>2. IsFiniteSet(1 .. HandSize)
    BY FS_Interval, SettingsAssumption
  <2> QED BY <2>1, <2>2, FS_Product
<1>2. Slots(h, drawers) \in SUBSET (drawers \X (1 .. HandSize))
  BY DEF Slots
<1> QED BY <1>1, <1>2, FS_Subset, FS_CardinalityType

LEMMA RefillType ==
  ASSUME deck \in Seq(Deck), NEW h \in HandsType, NEW drawers \in SUBSET Seats
  PROVE  /\ refillHands(h, drawers) \in HandsType
         /\ refillDeck(h, drawers) \in Seq(Deck)
<1>1. refillHands(h, drawers) \in HandsType
  BY DEF refillHands, Drawn, HandsType
<1>2. refillDeck(h, drawers) \in Seq(Deck)
  BY SlotsFinite DEF refillDeck
<1> QED BY <1>1, <1>2

LEMMA MarkFinishedType ==
  ASSUME place \in [Seats -> 0 .. N], NEW h, NEW d
  PROVE  markFinishedPlayers(h, d) \in [Seats -> 0 .. N]
<1> DEFINE new == IF d = <<>> THEN {p \in Seats : ~Finished(p) /\ h[p] = {}} ELSE {}
<1>1. /\ IsFiniteSet(Out(place)) /\ Cardinality(Out(place)) \in Nat
      /\ IsFiniteSet(new) /\ Cardinality(new) \in Nat
  BY SeatsFinite, FS_Subset, FS_CardinalityType DEF Out
<1>2. Cardinality(Out(place)) + Cardinality(new) <= N
  <2>1. Out(place) \cap new = {}
    BY DEF Out, Finished
  <2>2. Out(place) \cup new \in SUBSET Seats
    BY DEF Out
  <2>3. Cardinality(Out(place) \cup new) <= N
    BY <2>2, SeatsFinite, FS_Subset
  <2>4. Cardinality(Out(place) \cup new) = Cardinality(Out(place)) + Cardinality(new)
    <3> HIDE DEF new
    <3>1. Cardinality(Out(place) \cap new) = 0
      BY <2>1, FS_EmptySet
    <3>2. Cardinality(Out(place) \cup new) =
            Cardinality(Out(place)) + Cardinality(new) - Cardinality(Out(place) \cap new)
      BY <1>1, FS_Union
    <3> QED BY <1>1, <3>1, <3>2
  <2> QED BY <2>3, <2>4
<1>3. ASSUME NEW p \in Seats
      PROVE  /\ Cardinality({q \in new : q <= p}) \in Nat
             /\ Cardinality({q \in new : q <= p}) <= Cardinality(new)
  BY <1>1, FS_Subset, FS_CardinalityType
<1> HIDE DEF new
<1>4. markFinishedPlayers(h, d) =
        [p \in Seats |-> IF p \in new
                         THEN Cardinality(Out(place)) + Cardinality({q \in new : q <= p})
                         ELSE place[p]]
  BY DEF markFinishedPlayers, new
<1> QED BY <1>1, <1>2, <1>3, <1>4, PlayersAssumption

LEMMA CloseType ==
  ASSUME TypeOK, NEW h \in HandsType, NEW t \in Seq(Entry), NEW lock \in BOOLEAN,
         closeBoutBeaten(h, t, lock) \/ closeBoutTaken(h, t, lock), trumpSuit' = trumpSuit
  PROVE  TypeOK'
<1> USE DEF TypeOK
<1>1. TableCards(t) \in SUBSET Deck
  <2>1. ASSUME NEW i \in DOMAIN t
        PROVE  t[i].card \in Deck /\ (t[i].beatenBy # NoCard => t[i].beatenBy \in Deck)
    <3>1. t[i] \in Entry
      OBVIOUS
    <3> QED BY <3>1 DEF Entry
  <2> QED BY <2>1 DEF TableCards, Beaten
<1>2. ASSUME NEW h1 \in HandsType, NEW pl, NEW first \in Seats,
             EndGame(pl, lock) \/ startNewBout(pl, h1, first)
      PROVE  /\ status' \in Phases /\ loser' \in Seats \cup {NoSeat}
             /\ attacker' \in Seats /\ defender' \in Seats
             /\ initialDefenderHandSize' \in Nat
             /\ exclusiveLockReleased' \in BOOLEAN
             /\ cheatAttemptsRemaining' \in [Seats -> 0 .. CheatAttempts]
  <2>1. CASE EndGame(pl, lock)
    <3>1. Out(pl) # Seats => (CHOOSE p \in Seats : p \notin Out(pl)) \in Seats
      BY DEF Out
    <3> QED BY <2>1, <3>1 DEF EndGame, Phases
  <2>2. CASE startNewBout(pl, h1, first)
    <3>1. nextActivePlayerIndex(pl, first) \in Seats
      BY NextActiveType
    <3>2. Cardinality(h1[nextActivePlayerIndex(pl, first)]) \in Nat
      BY <3>1, HandsFinite DEF HandsType
    <3>3. /\ status' = "bout_attack" /\ attacker' = first
          /\ defender' = nextActivePlayerIndex(pl, first)
          /\ initialDefenderHandSize' = Cardinality(h1[nextActivePlayerIndex(pl, first)])
          /\ exclusiveLockReleased' = FALSE /\ loser' = loser
          /\ cheatAttemptsRemaining' = [p \in Seats |-> CheatAttempts]
      BY <2>2 DEF startNewBout
    <3>4. [p \in Seats |-> CheatAttempts] \in [Seats -> 0 .. CheatAttempts]
      BY SettingsAssumption
    <3> QED BY <3>1, <3>2, <3>3, <3>4 DEF Phases
  <2> QED BY <1>2, <2>1, <2>2
<1>3. CASE closeBoutBeaten(h, t, lock)
  <2> DEFINE drawers == {p \in Seats : ~Finished(p)}
             h1 == refillHands(h, drawers)
             d1 == refillDeck(h, drawers)
             pl == markFinishedPlayers(h1, d1)
             first == IF pl[defender] > 0 THEN nextActivePlayerIndex(pl, defender) ELSE defender
  <2>1. h1 \in HandsType /\ d1 \in Seq(Deck)
    BY RefillType
  <2>2. pl \in [Seats -> 0 .. N]
    BY MarkFinishedType
  <2>3. first \in Seats
    BY NextActiveType
  <2>4. /\ hands' = h1 /\ deck' = d1 /\ place' = pl /\ table' = <<>> /\ passed' = {}
        /\ discard' = discard \cup TableCards(t) /\ firstDefenseHappened' = TRUE
        /\ EndGame(pl, lock) \/ startNewBout(pl, h1, first)
    BY <1>3 DEF closeBoutBeaten
  <2> HIDE DEF drawers, h1, d1, pl, first
  <2>5. /\ status' \in Phases /\ loser' \in Seats \cup {NoSeat}
        /\ attacker' \in Seats /\ defender' \in Seats
        /\ initialDefenderHandSize' \in Nat
        /\ exclusiveLockReleased' \in BOOLEAN
        /\ cheatAttemptsRemaining' \in [Seats -> 0 .. CheatAttempts]
    BY <1>2, <2>1, <2>3, <2>4
  <2>6. hands' \in [Seats -> SUBSET Deck] /\ deck' \in Seq(Deck) /\ place' \in [Seats -> 0 .. N]
    BY <2>1, <2>2, <2>4 DEF HandsType
  <2>7. table' \in Seq(Entry) /\ passed' \in SUBSET Seats
    BY <2>4
  <2>8. discard' \in SUBSET Deck /\ firstDefenseHappened' \in BOOLEAN /\ trumpSuit' \in Suits
    BY <1>1, <2>4
  <2> QED BY <2>5, <2>6, <2>7, <2>8
<1>4. CASE closeBoutTaken(h, t, lock)
  <2> DEFINE drawers == {p \in Seats : ~Finished(p)} \ {defender}
             h0 == [h EXCEPT ![defender] = @ \cup TableCards(t)]
             h1 == refillHands(h0, drawers)
             d1 == refillDeck(h0, drawers)
             pl == markFinishedPlayers(h1, d1)
             first == nextActivePlayerIndex(pl, defender)
  <2>0. h0 \in HandsType
    BY <1>1 DEF HandsType
  <2>1. h1 \in HandsType /\ d1 \in Seq(Deck)
    BY <2>0, RefillType
  <2>2. pl \in [Seats -> 0 .. N]
    BY MarkFinishedType
  <2>3. first \in Seats
    BY NextActiveType
  <2>4. /\ hands' = h1 /\ deck' = d1 /\ place' = pl /\ table' = <<>> /\ passed' = {}
        /\ UNCHANGED <<discard, firstDefenseHappened>>
        /\ EndGame(pl, lock) \/ startNewBout(pl, h1, first)
    BY <1>4 DEF closeBoutTaken
  <2> HIDE DEF drawers, h0, h1, d1, pl, first
  <2>5. /\ status' \in Phases /\ loser' \in Seats \cup {NoSeat}
        /\ attacker' \in Seats /\ defender' \in Seats
        /\ initialDefenderHandSize' \in Nat
        /\ exclusiveLockReleased' \in BOOLEAN
        /\ cheatAttemptsRemaining' \in [Seats -> 0 .. CheatAttempts]
    BY <1>2, <2>1, <2>3, <2>4
  <2>6. hands' \in [Seats -> SUBSET Deck] /\ deck' \in Seq(Deck) /\ place' \in [Seats -> 0 .. N]
    BY <2>1, <2>2, <2>4 DEF HandsType
  <2>7. table' \in Seq(Entry) /\ passed' \in SUBSET Seats
    BY <2>4
  <2>8. discard' \in SUBSET Deck /\ firstDefenseHappened' \in BOOLEAN /\ trumpSuit' \in Suits
    BY <1>1, <2>4
  <2> QED BY <2>5, <2>6, <2>7, <2>8
<1> QED BY <1>3, <1>4

LEMMA PlayType ==
  ASSUME TypeOK, NEW p \in Seats, NEW c \in hands[p]
  PROVE  /\ c \in Deck
         /\ [hands EXCEPT ![p] = @ \ {c}] \in HandsType
         /\ Append(table, NewEntry(p, c)) \in Seq(Entry)
<1>1. c \in Deck /\ [hands EXCEPT ![p] = @ \ {c}] \in HandsType
  BY DEF TypeOK, HandsType
<1>2. NewEntry(p, c) \in Entry
  BY <1>1 DEF NewEntry, Entry
<1> QED BY <1>1, <1>2 DEF TypeOK

LEMMA AttackType ==
  ASSUME TypeOK, NEW p \in Seats, NEW c \in hands[p], Attack(p, c)
  PROVE  TypeOK'
<1> DEFINE h == [hands EXCEPT ![p] = @ \ {c}]
           t == Append(table, NewEntry(p, c))
<1>1. h \in HandsType /\ t \in Seq(Entry)
  BY PlayType
<1> HIDE DEF h, t
<1>2. CASE closeBoutTaken(h, t, exclusiveLockReleased) /\ trumpSuit' = trumpSuit
  <2>1. exclusiveLockReleased \in BOOLEAN
    BY DEF TypeOK
  <2> QED BY <1>1, <1>2, <2>1, CloseType
<1>3. CASE /\ hands' = h /\ table' = t /\ passed' = {} /\ trumpSuit' = trumpSuit
           /\ status' \in {"bout_take_pending", "bout_defense"}
           /\ UNCHANGED <<deck, discard, roleVars, resultVars, firstDefenseHappened,
                          exclusiveLockReleased, cheatAttemptsRemaining>>
  BY <1>1, <1>3 DEF TypeOK, HandsType, roleVars, resultVars, Phases
<1> QED BY <1>2, <1>3 DEF Attack, h, t

LEMMA BeatType ==
  ASSUME TypeOK, NEW i \in DOMAIN table, NEW c \in hands[defender], Beat(i, c)
  PROVE  TypeOK'
<1> DEFINE h == [hands EXCEPT ![defender] = @ \ {c}]
           t == [table EXCEPT ![i].beatenBy = c]
<1>1. h \in HandsType /\ c \in Deck
  BY PlayType DEF TypeOK
<1>2. t \in Seq(Entry)
  <2>1. table[i] \in Entry
    BY DEF TypeOK
  <2>2. [table[i] EXCEPT !.beatenBy = c] \in Entry
    BY <1>1, <2>1 DEF Entry
  <2> QED BY <2>2 DEF TypeOK
<1> HIDE DEF h, t
<1>3. CASE closeBoutBeaten(h, t, exclusiveLockReleased) /\ trumpSuit' = trumpSuit
  <2>1. exclusiveLockReleased \in BOOLEAN
    BY DEF TypeOK
  <2> QED BY <1>1, <1>2, <1>3, <2>1, CloseType
<1>4. CASE /\ hands' = h /\ table' = t /\ passed' = {} /\ trumpSuit' = trumpSuit
           /\ status' \in {"bout_settle", "bout_defense"}
           /\ UNCHANGED <<deck, discard, roleVars, resultVars, firstDefenseHappened,
                          exclusiveLockReleased, cheatAttemptsRemaining>>
  BY <1>1, <1>2, <1>4 DEF TypeOK, HandsType, roleVars, resultVars, Phases
<1> QED BY <1>3, <1>4 DEF Beat, h, t

LEMMA TranslateType ==
  ASSUME TypeOK, NEW c \in hands[defender], Translate(c)
  PROVE  TypeOK'
<1> DEFINE h == [hands EXCEPT ![defender] = @ \ {c}]
           t == Append(table, NewEntry(defender, c))
           next == nextActivePlayerIndex(place, defender)
<1>1. h \in HandsType /\ t \in Seq(Entry)
  BY PlayType DEF TypeOK
<1>2. next \in Seats
  BY NextActiveType DEF TypeOK
<1>3. Cardinality(h[next]) \in Nat
  BY <1>1, <1>2, HandsFinite DEF HandsType
<1>4. /\ hands' = h /\ table' = t /\ attacker' = defender /\ defender' = next
      /\ initialDefenderHandSize' = Cardinality(h[next])
      /\ passed' = {} /\ exclusiveLockReleased' = FALSE /\ status' = "bout_defense"
      /\ UNCHANGED <<deck, discard, trumpSuit, resultVars, firstDefenseHappened,
                     cheatAttemptsRemaining>>
  BY DEF Translate
<1> HIDE DEF h, t, next
<1> QED BY <1>1, <1>2, <1>3, <1>4 DEF TypeOK, HandsType, resultVars, Phases

LEMMA TakeType ==
  ASSUME TypeOK, Take
  PROVE  TypeOK'
<1>1. CASE closeBoutTaken(hands, table, exclusiveLockReleased) /\ trumpSuit' = trumpSuit
  BY <1>1, CloseType DEF TypeOK, HandsType
<1>2. CASE /\ passed' = {} /\ status' = "bout_take_pending" /\ trumpSuit' = trumpSuit
           /\ UNCHANGED <<cardVars, roleVars, resultVars, firstDefenseHappened,
                          exclusiveLockReleased, cheatAttemptsRemaining>>
  BY <1>2 DEF TypeOK, cardVars, roleVars, resultVars, Phases
<1> QED BY <1>1, <1>2 DEF Take

LEMMA PassType ==
  ASSUME TypeOK, NEW p \in Seats, Pass(p)
  PROVE  TypeOK'
<1> DEFINE released == exclusiveLockReleased \/ (ExclusiveThrowIn /\ p = attacker)
<1>1. released \in BOOLEAN
  OBVIOUS
<1> HIDE DEF released
<1>2. CASE /\ \/ closeBoutBeaten(hands, table, released) \/ closeBoutTaken(hands, table, released)
           /\ trumpSuit' = trumpSuit
  BY <1>1, <1>2, CloseType DEF TypeOK, HandsType
<1>3. CASE /\ passed' = passed \cup {p} /\ exclusiveLockReleased' = released
           /\ UNCHANGED <<cardVars, status, roleVars, resultVars, firstDefenseHappened,
                          cheatAttemptsRemaining, trumpSuit>>
  BY <1>1, <1>3 DEF TypeOK, cardVars, roleVars, resultVars
<1> QED BY <1>2, <1>3 DEF Pass, released

LEMMA ReturnType ==
  ASSUME TypeOK, NEW cheater \in Seats, NEW c \in Deck, NEW t \in Seq(Entry),
         CardReturned(cheater, c, t)
  PROVE  TypeOK'
<1>1. hands' \in [Seats -> SUBSET Deck] /\ table' \in Seq(Entry)
  BY DEF CardReturned, TypeOK
<1>2. status' \in Phases
  BY DEF CardReturned, PhaseAfterCatch, Phases
<1>3. cheatAttemptsRemaining' \in [Seats -> 0 .. CheatAttempts]
  <2>1. /\ cheatAttemptsRemaining \in [Seats -> 0 .. CheatAttempts]
        /\ cheatAttemptsRemaining' = [cheatAttemptsRemaining EXCEPT ![cheater] = IF @ > 0 THEN @ - 1 ELSE 0]
    BY DEF CardReturned, TypeOK
  <2>2. (IF cheatAttemptsRemaining[cheater] > 0 THEN cheatAttemptsRemaining[cheater] - 1 ELSE 0)
          \in 0 .. CheatAttempts
    BY <2>1, SettingsAssumption
  <2> QED BY <2>1, <2>2
<1>4. UNCHANGED <<deck, discard, trumpSuit, roleVars, resultVars, firstDefenseHappened,
                  passed, exclusiveLockReleased>>
  BY DEF CardReturned
<1> QED BY <1>1, <1>2, <1>3, <1>4 DEF TypeOK, roleVars, resultVars

LEMMA NoticeType ==
  ASSUME TypeOK, NEW p \in Seats, NEW i \in DOMAIN table, NoticeBeat(p, i) \/ NoticeAttack(p, i)
  PROVE  TypeOK'
<1>1. table[i] \in Entry
  BY DEF TypeOK
<1>2. CASE NoticeBeat(p, i)
  <2>1. table[i].beatenBy \in Deck
    BY <1>1, <1>2 DEF NoticeBeat, FakeBeat, Beaten, Entry
  <2>2. [table EXCEPT ![i].beatenBy = NoCard] \in Seq(Entry)
    <3>1. [table[i] EXCEPT !.beatenBy = NoCard] \in Entry
      BY <1>1 DEF Entry
    <3> QED BY <3>1 DEF TypeOK
  <2>3. defender \in Seats
    BY DEF TypeOK
  <2> QED BY <1>2, <2>1, <2>2, <2>3, ReturnType DEF NoticeBeat
<1>3. CASE NoticeAttack(p, i)
  <2>1. table[i].by \in Seats /\ table[i].card \in Deck
    BY <1>1 DEF Entry
  <2>2. RemoveAt(table, i) \in Seq(Entry)
    BY SMTT(15) DEF RemoveAt, TypeOK
  <2> QED BY <1>3, <2>1, <2>2, ReturnType DEF NoticeAttack
<1> QED BY <1>2, <1>3

(* A shuffled deck is a sequence of the deck's cards, before and after the trump moves down. *)
LEMMA TrumpType ==
  ASSUME NEW order \in DeckOrders
  PROVE  /\ TrumpToBottom(order) \in Seq(Deck)
         /\ Len(TrumpToBottom(order)) = Cardinality(Deck)
         /\ SelectTrump(order) \in Suits
<1>1. /\ Cardinality(Deck) \in Nat
      /\ order \in [1 .. Cardinality(Deck) -> Deck]
  BY DeckAssumption, FS_CardinalityType
<1>2. CASE TrumpPositions(order) = {}
  BY <1>1, <1>2 DEF TrumpToBottom, SelectTrump, Suits
<1>3. CASE TrumpPositions(order) # {}
  <2> DEFINE t == Min(TrumpPositions(order))
             d == [i \in DOMAIN order |-> IF i = 1 THEN order[t]
                                          ELSE IF i <= t THEN order[i - 1] ELSE order[i]]
  <2>1. TrumpPositions(order) \in SUBSET Nat
    BY <1>1 DEF TrumpPositions
  <2>2. t \in TrumpPositions(order)
    BY <1>3, <2>1, MinOfNaturals
  <2>3. t \in 1 .. Cardinality(Deck) /\ isStandard(order[t])
    BY <1>1, <2>2 DEF TrumpPositions
  <2>4. order[t].suit \in Suits
    BY <1>1, <2>3, DeckAssumption DEF isStandard, StandardCard, JokerCard
  <2>5. d \in [1 .. Cardinality(Deck) -> Deck]
    <3> HIDE DEF t
    <3> QED BY <1>1, <2>3
  <2>6. d \in Seq(Deck) /\ Len(d) = Cardinality(Deck)
    <3> HIDE DEF d
    <3> QED BY <1>1, <2>5
  <2> QED BY <1>3, <2>4, <2>6 DEF TrumpToBottom, SelectTrump
<1> QED BY <1>2, <1>3

LEMMA LowestTrumpType ==
  ASSUME NEW h \in HandsType, NEW trump
  PROVE  LowestTrumpHolder(h, trump) \in Seats
<1> DEFINE holders == {p \in Seats : TrumpsHeld(h, trump, p) # {}}
           ranks == {c.rank : c \in UNION {TrumpsHeld(h, trump, p) : p \in holders}}
<1>1. CASE holders = {}
  BY <1>1, PlayersAssumption DEF LowestTrumpHolder, Seats
<1>2. CASE holders # {}
  <2>1. ASSUME NEW p \in Seats, NEW c \in TrumpsHeld(h, trump, p)
        PROVE  c.rank \in Nat
    <3>1. c \in Deck /\ isStandard(c)
      BY DEF TrumpsHeld, HandsType
    <3> QED BY <3>1, DeckAssumption DEF isStandard, StandardCard, JokerCard
  <2>2. ranks \in SUBSET Nat /\ ranks # {}
    BY <1>2, <2>1
  <2>3. Min(ranks) \in ranks /\ \A r \in ranks : Min(ranks) <= r
    BY <2>2, MinOfNaturals
  <2>4. PICK p \in holders : \E c \in TrumpsHeld(h, trump, p) : c.rank = Min(ranks)
    BY <2>3
  <2>5. \E c \in TrumpsHeld(h, trump, p) :
          \A q \in holders : \A d \in TrumpsHeld(h, trump, q) : c.rank <= d.rank
    BY <2>3, <2>4
  <2> QED BY <1>2, <2>5 DEF LowestTrumpHolder
<1> QED BY <1>1, <1>2

LEMMA InitType == Init => TypeOK
<1> SUFFICES ASSUME Init PROVE TypeOK
  OBVIOUS
<1>1. PICK order \in DeckOrders :
        LET d == TrumpToBottom(order)
        IN  /\ hands = [p \in Seats |-> DealtHand(d, p)]
            /\ deck = SubSeq(d, 1, Len(d) - N * HandSize)
            /\ trumpSuit = SelectTrump(order)
            /\ attacker \in FirstAttackers(hands, trumpSuit)
            /\ defender = Seat(attacker, 1)
            /\ initialDefenderHandSize = Cardinality(hands[defender])
            /\ discard = {} /\ table = <<>> /\ status = "bout_attack"
            /\ firstDefenseHappened = FALSE /\ exclusiveLockReleased = FALSE
            /\ place = [p \in Seats |-> 0] /\ loser = NoSeat /\ passed = {}
            /\ cheatAttemptsRemaining = [p \in Seats |-> CheatAttempts]
  BY DEF Init
<1> DEFINE d == TrumpToBottom(order)
           dealt == N * HandSize
<1>2. d \in Seq(Deck) /\ Len(d) = Cardinality(Deck) /\ trumpSuit \in Suits
  BY <1>1, TrumpType
<1>3. dealt \in Nat /\ dealt <= Cardinality(Deck)
  BY DealAssumption, PlayersAssumption, SettingsAssumption
<1> HIDE DEF d, dealt
<1>4. hands \in [Seats -> SUBSET Deck]
  <2>1. ASSUME NEW p \in Seats PROVE DealtHand(d, p) \in SUBSET Deck
    BY <1>2, <1>3 DEF DealtHand, dealt
  <2> QED BY <1>1, <2>1 DEF d
<1>5. deck \in Seq(Deck)
  <2>1. deck = SubSeq(d, 1, Len(d) - dealt)
    BY <1>1 DEF d, dealt
  <2> QED BY <1>2, <1>3, <2>1
<1>6. attacker \in Seats /\ defender \in Seats
  <2>1. attacker \in Seats
    BY <1>1, <1>4, LowestTrumpType DEF FirstAttackers, HandsType
  <2> QED BY <1>1, <2>1, SeatType, PlayersAssumption
<1>7. initialDefenderHandSize \in Nat
  BY <1>1, <1>4, <1>6, HandsFinite
<1>8. /\ place \in [Seats -> 0 .. N]
      /\ cheatAttemptsRemaining \in [Seats -> 0 .. CheatAttempts]
  BY <1>1, PlayersAssumption, SettingsAssumption
<1>9. /\ discard \in SUBSET Deck /\ table \in Seq(Entry) /\ status \in Phases
      /\ firstDefenseHappened \in BOOLEAN /\ exclusiveLockReleased \in BOOLEAN
      /\ loser \in Seats \cup {NoSeat} /\ passed \in SUBSET Seats
  <2>1. /\ discard = {} /\ table = <<>> /\ status = "bout_attack"
        /\ firstDefenseHappened = FALSE /\ exclusiveLockReleased = FALSE
        /\ loser = NoSeat /\ passed = {}
    BY <1>1
  <2>2. discard \in SUBSET Deck /\ passed \in SUBSET Seats /\ loser \in Seats \cup {NoSeat}
    BY <2>1
  <2>3. table \in Seq(Entry)
    BY <2>1
  <2>4. status \in Phases
    BY <2>1 DEF Phases
  <2>5. firstDefenseHappened \in BOOLEAN /\ exclusiveLockReleased \in BOOLEAN
    BY <2>1
  <2> QED BY <2>2, <2>3, <2>4, <2>5
<1> QED BY <1>2, <1>4, <1>5, <1>6, <1>7, <1>8, <1>9 DEF TypeOK

(* The shape of the state survives every command: cards stay cards of the  *)
(* deck, roles stay seats, places and attempts keep their bounds, and the  *)
(* lowest trump and the next player still in always exist.                 *)
THEOREM TypeCorrect == Spec => []TypeOK
<1>1. TypeOK /\ [Next]_vars => TypeOK'
  <2> SUFFICES ASSUME TypeOK, [Next]_vars PROVE TypeOK'
    OBVIOUS
  <2>1. ASSUME NEW p \in Seats, NEW c \in hands[p], Attack(p, c) PROVE TypeOK'
    BY <2>1, AttackType
  <2>2. ASSUME NEW i \in DOMAIN table, NEW c \in hands[defender], Beat(i, c) PROVE TypeOK'
    BY <2>2, BeatType
  <2>3. ASSUME NEW c \in hands[defender], Translate(c) PROVE TypeOK'
    BY <2>3, TranslateType
  <2>4. CASE Take
    BY <2>4, TakeType
  <2>5. ASSUME NEW p \in Seats, Pass(p) PROVE TypeOK'
    BY <2>5, PassType
  <2>6. ASSUME NEW p \in Seats, NEW i \in DOMAIN table, NoticeBeat(p, i) \/ NoticeAttack(p, i)
        PROVE  TypeOK'
    BY <2>6, NoticeType
  <2>7. CASE UNCHANGED vars
    BY <2>7 DEF TypeOK, vars
  <2> QED BY <2>1, <2>2, <2>3, <2>4, <2>5, <2>6, <2>7 DEF Next, GameOver
<1> QED BY <1>1, InitType, PTL DEF Spec

-----------------------------------------------------------------------------
(***************************************************************************)
(* Conservation of the cards.                                              *)
(***************************************************************************)

(* The drawers are served one after the other. *)
LEMMA TurnDistinct ==
  ASSUME attacker \in Seats, NEW p \in Seats
  PROVE  /\ DrawTurn(p) \in 0 .. N
         /\ \A q \in Seats : DrawTurn(p) = DrawTurn(q) => p = q
<1>1. \A q \in Seats : SeatsAfter(attacker, q) \in 0 .. N - 1 /\ Seat(attacker, SeatsAfter(attacker, q)) = q
  BY SeatAtDistance
<1> QED BY <1>1, PlayersAssumption DEF DrawTurn

(* The draw slots are numbered from 0, each number once. *)
LEMMA SlotRank ==
  ASSUME TypeOK, NEW h \in HandsType, NEW drawers \in SUBSET Seats
  PROVE  LET S == Slots(h, drawers)
             rank(s) == Cardinality(SlotsBefore(h, drawers, s))
         IN  /\ \A s \in S : rank(s) \in 0 .. Cardinality(S) - 1
             /\ \A s, t \in S : rank(s) = rank(t) => s = t
             /\ \A k \in 0 .. Cardinality(S) - 1 : \E s \in S : rank(s) = k
<1> DEFINE S == Slots(h, drawers)
           n == Cardinality(S)
           before(s) == SlotsBefore(h, drawers, s)
           rank(s) == Cardinality(before(s))
<1>1. IsFiniteSet(S) /\ n \in Nat
  BY SlotsFinite
<1>0. ASSUME NEW s \in S
      PROVE  /\ s = <<s[1], s[2]>> /\ s[1] \in Seats /\ s[2] \in Nat
             /\ DrawTurn(s[1]) \in Nat
             /\ \A q \in Seats : DrawTurn(s[1]) = DrawTurn(q) => s[1] = q
  <2>1. s = <<s[1], s[2]>> /\ s[1] \in Seats /\ s[2] \in Nat
    BY SettingsAssumption DEF Slots
  <2>2. DrawTurn(s[1]) \in 0 .. N /\ \A q \in Seats : DrawTurn(s[1]) = DrawTurn(q) => s[1] = q
    BY <2>1, TurnDistinct DEF TypeOK
  <2> QED BY <2>1, <2>2, PlayersAssumption
<1>2. ASSUME NEW s \in S
      PROVE  /\ s \notin before(s) /\ before(s) \in SUBSET S
             /\ IsFiniteSet(before(s)) /\ rank(s) \in Nat /\ rank(s) < n
  <2>1. s[1] \in Seats /\ s[2] \in Nat /\ DrawTurn(s[1]) \in Nat
    BY <1>0
  <2>2. s \notin before(s) /\ before(s) \in SUBSET S
    BY <2>1 DEF SlotsBefore
  <2>3. IsFiniteSet(before(s)) /\ rank(s) \in Nat /\ rank(s) <= n /\ (n = rank(s) => S = before(s))
    BY <1>1, <2>2, FS_Subset, FS_CardinalityType
  <2> QED BY <1>1, <2>2, <2>3
<1>3. ASSUME NEW s \in S, NEW t \in S, t \in before(s)
      PROVE  rank(t) < rank(s)
  <2>1. /\ s[1] \in Seats /\ s[2] \in Nat /\ DrawTurn(s[1]) \in Nat
        /\ t[1] \in Seats /\ t[2] \in Nat /\ DrawTurn(t[1]) \in Nat
    BY <1>0
  <2>2. ASSUME NEW u \in before(t) PROVE u \in before(s)
    <3>0. u \in S
      BY DEF SlotsBefore
    <3>1. u[1] \in Seats /\ u[2] \in Nat /\ DrawTurn(u[1]) \in Nat
      BY <1>0, <3>0
    <3> QED BY <1>3, <2>1, <2>2, <3>0, <3>1 DEF SlotsBefore
  <2>3. before(t) \in SUBSET before(s) /\ before(t) # before(s)
    BY <1>2, <1>3, <2>2
  <2>4. IsFiniteSet(before(s)) /\ rank(s) \in Nat /\ rank(t) \in Nat
    BY <1>2
  <2>5. rank(t) <= rank(s) /\ (rank(s) = rank(t) => before(s) = before(t))
    BY <2>3, <2>4, FS_Subset
  <2> QED BY <2>3, <2>4, <2>5
<1>4. ASSUME NEW s \in S, NEW t \in S, rank(s) = rank(t)
      PROVE  s = t
  <2>1. s \in before(t) \/ t \in before(s) \/ s = t
    <3>1. /\ s[1] \in Seats /\ s[2] \in Nat /\ DrawTurn(s[1]) \in Nat
          /\ t[1] \in Seats /\ t[2] \in Nat /\ DrawTurn(t[1]) \in Nat
          /\ DrawTurn(s[1]) = DrawTurn(t[1]) => s[1] = t[1]
          /\ s = <<s[1], s[2]>> /\ t = <<t[1], t[2]>>
      BY <1>0
    <3> QED BY <3>1 DEF SlotsBefore
  <2>2. rank(s) \in Nat /\ rank(t) \in Nat
    BY <1>2
  <2> HIDE DEF before, rank
  <2> QED BY <1>3, <1>4, <2>1, <2>2
<1>5. ASSUME NEW k \in 0 .. n - 1
      PROVE  \E s \in S : rank(s) = k
  <2> DEFINE f == [s \in S |-> rank(s)]
  <2>1. IsFiniteSet(0 .. n - 1) /\ Cardinality(0 .. n - 1) = n
    BY <1>1, FS_Interval
  <2>2. f \in Injection(S, 0 .. n - 1)
    <3> HIDE DEF S, n, rank
    <3>1. f \in [S -> 0 .. n - 1]
      BY <1>1, <1>2
    <3> QED BY <1>4, <3>1 DEF Injection, IsInjective
  <2>3. f \in Surjection(S, 0 .. n - 1)
    BY <2>1, <2>2, FS_Injection
  <2>4. \E s \in S : f[s] = k
    <3> HIDE DEF f
    <3> QED BY <2>3 DEF Surjection
  <2> QED BY <2>4
<1> QED BY <1>1, <1>2, <1>4, <1>5

(* The refill hands out the top of the pile, card by card: what leaves the  *)
(* pile is exactly what the drawers get, and nobody gets a card twice.      *)
LEMMA RefillHandsOutTop ==
  ASSUME TypeOK, NEW h \in HandsType, NEW drawers \in SUBSET Seats
  PROVE  LET L == Len(deck)
             n == Cardinality(Slots(h, drawers))
             m == IF n < L THEN L - n ELSE 0
         IN  /\ refillDeck(h, drawers) = SubSeq(deck, 1, m) /\ m \in 0 .. L
             /\ \A i \in m + 1 .. L : \E p \in Seats : deck[i] \in Drawn(h, drawers, p)
             /\ \A p \in Seats : \A c \in Drawn(h, drawers, p) :
                  \E i \in m + 1 .. L : deck[i] = c
             /\ IsInjective(deck) =>
                  \A p, q \in Seats :
                    Drawn(h, drawers, p) \cap Drawn(h, drawers, q) # {} => p = q
<1> DEFINE S == Slots(h, drawers)
           L == Len(deck)
           n == Cardinality(S)
           m == IF n < L THEN L - n ELSE 0
           rank(s) == Cardinality(SlotsBefore(h, drawers, s))
           drawn(p) == {k \in 0 .. L - 1 : \E s \in S : s[1] = p /\ rank(s) = k}
<1>1. L \in Nat /\ n \in Nat /\ m \in 0 .. L /\ DOMAIN deck = 1 .. L
  BY SlotsFinite DEF TypeOK
<1>2. /\ \A s \in S : rank(s) \in 0 .. n - 1 /\ s[1] \in Seats
      /\ \A s, t \in S : rank(s) = rank(t) => s = t
      /\ \A k \in 0 .. n - 1 : \E s \in S : rank(s) = k
  BY SlotRank DEF Slots
<1>3. \A p \in Seats : Drawn(h, drawers, p) = {deck[L - k] : k \in drawn(p)}
  BY DEF Drawn
<1>4. refillDeck(h, drawers) = SubSeq(deck, 1, m)
  BY DEF refillDeck
<1> HIDE DEF S, L, n, m, rank
<1>5. ASSUME NEW i \in m + 1 .. L
      PROVE  \E p \in Seats : deck[i] \in Drawn(h, drawers, p)
  <2>1. L - i \in 0 .. n - 1 /\ L - i \in 0 .. L - 1 /\ L - (L - i) = i
    BY <1>1 DEF m
  <2>2. PICK s \in S : rank(s) = L - i
    BY <1>2, <2>1
  <2>3. s[1] \in Seats /\ L - i \in drawn(s[1])
    BY <1>2, <2>1, <2>2
  <2> QED BY <1>3, <2>1, <2>3
<1>6. ASSUME NEW p \in Seats, NEW c \in Drawn(h, drawers, p)
      PROVE  \E i \in m + 1 .. L : deck[i] = c
  <2>1. PICK k \in drawn(p) : deck[L - k] = c
    BY <1>3
  <2>2. k \in 0 .. L - 1 /\ k \in 0 .. n - 1
    BY <1>2, <2>1
  <2>3. L - k \in m + 1 .. L
    BY <1>1, <2>2 DEF m
  <2> QED BY <2>1, <2>3
<1>7. ASSUME IsInjective(deck), NEW p \in Seats, NEW q \in Seats, NEW c,
             c \in Drawn(h, drawers, p), c \in Drawn(h, drawers, q)
      PROVE  p = q
  <2>1. PICK j \in drawn(p), k \in drawn(q) : deck[L - j] = c /\ deck[L - k] = c
    BY <1>3, <1>7
  <2>2. j \in 0 .. L - 1 /\ k \in 0 .. L - 1
    BY <2>1
  <2>3. L - j \in DOMAIN deck /\ L - k \in DOMAIN deck
    BY <1>1, <2>2
  <2>4. L - j = L - k
    BY <1>7, <2>1, <2>3 DEF IsInjective
  <2>5. j = k
    BY <1>1, <2>2, <2>4
  <2> QED BY <1>2, <2>1, <2>5
<1> QED BY <1>1, <1>4, <1>5, <1>6, <1>7 DEF S, L, n, m

LEMMA RefillKeeps ==
  ASSUME TypeOK, NEW h \in HandsType, NEW drawers \in SUBSET Seats, NEW t, NEW disc,
         Conserved(h, deck, t, disc)
  PROVE  Conserved(refillHands(h, drawers), refillDeck(h, drawers), t, disc)
<1> DEFINE h1 == refillHands(h, drawers)
           d1 == refillDeck(h, drawers)
           drawn(p) == Drawn(h, drawers, p)
           L == Len(deck)
           n == Cardinality(Slots(h, drawers))
           left == IF n < L THEN L - n ELSE 0
<1>0. /\ d1 = SubSeq(deck, 1, left) /\ left \in 0 .. L
      /\ \A i \in left + 1 .. L : \E p \in Seats : deck[i] \in drawn(p)
      /\ \A p \in Seats : \A c \in drawn(p) : \E i \in left + 1 .. L : deck[i] = c
      /\ IsInjective(deck) => \A p, q \in Seats : drawn(p) \cap drawn(q) # {} => p = q
  BY RefillHandsOutTop, Zenon
<1> HIDE DEF left
<1>1. PICK m \in 0 .. L :
        /\ d1 = SubSeq(deck, 1, m)
        /\ \A i \in m + 1 .. L : \E p \in Seats : deck[i] \in drawn(p)
        /\ \A p \in Seats : \A c \in drawn(p) : \E i \in m + 1 .. L : deck[i] = c
        /\ \A p, q \in Seats : drawn(p) \cap drawn(q) # {} => p = q
  <2> HIDE DEF d1, drawn, L
  <2>1. IsInjective(deck)
    BY DEF Conserved
  <2> QED BY <1>0, <2>1
<1>2. \A p \in Seats : h1[p] = h[p] \cup drawn(p)
  BY DEF refillHands
<1>3. deck \in Seq(Deck) /\ L \in Nat /\ DOMAIN deck = 1 .. L
  BY DEF TypeOK
<1>4. DOMAIN d1 = 1 .. m /\ \A i \in 1 .. m : d1[i] = deck[i]
  BY <1>1, <1>3
<1> HIDE DEF h1, d1, drawn
<1>5. /\ IsInjective(deck) /\ InHands(h) \cap Range(deck) = {}
      /\ \A p, q \in Seats : p # q => h[p] \cap h[q] = {}
  BY DEF Conserved
<1>6. \A p \in Seats : drawn(p) \subseteq Range(deck) /\ drawn(p) \cap Range(d1) = {}
  <2> SUFFICES ASSUME NEW p \in Seats, NEW c \in drawn(p)
               PROVE  c \in Range(deck) /\ c \notin Range(d1)
    OBVIOUS
  <2>1. PICK i \in m + 1 .. L : deck[i] = c
    BY <1>1
  <2>2. i \in DOMAIN deck
    BY <1>3
  <2>3. ASSUME NEW j \in 1 .. m PROVE d1[j] # c
    BY <1>3, <1>4, <1>5, <2>1, <2>2 DEF IsInjective
  <2> QED BY <1>4, <2>1, <2>2, <2>3 DEF Range
<1>7. Range(d1) \subseteq Range(deck)
  BY <1>3, <1>4 DEF Range
<1>8. ASSUME NEW c \in Range(deck), c \notin Range(d1)
      PROVE  \E p \in Seats : c \in drawn(p)
  <2>1. PICK i \in 1 .. L : deck[i] = c
    BY <1>3 DEF Range
  <2>2. i \notin 1 .. m
    BY <1>4, <1>8, <2>1 DEF Range
  <2> QED BY <1>1, <1>3, <2>1, <2>2
<1>9. InHands(h1) = InHands(h) \cup UNION {drawn(p) : p \in Seats}
  BY <1>2 DEF InHands
<1>10. InHands(h1) \cup Range(d1) = InHands(h) \cup Range(deck)
  BY <1>6, <1>7, <1>8, <1>9
<1>11. InHands(h1) \cap Range(d1) = {}
  BY <1>5, <1>6, <1>7, <1>9
<1>12. ASSUME NEW p \in Seats, NEW q \in Seats, p # q
       PROVE  h1[p] \cap h1[q] = {}
  <2>1. h[p] \cap drawn(q) = {} /\ h[q] \cap drawn(p) = {}
    BY <1>5, <1>6 DEF InHands
  <2>2. drawn(p) \cap drawn(q) = {} /\ h[p] \cap h[q] = {}
    BY <1>1, <1>5, <1>12
  <2> QED BY <1>2, <2>1, <2>2
<1>13. IsInjective(d1)
  BY <1>3, <1>4, <1>5 DEF IsInjective
<1> QED BY <1>10, <1>11, <1>12, <1>13 DEF Conserved, h1, d1

-----------------------------------------------------------------------------
(***************************************************************************)
(* One card moves.                                                         *)
(***************************************************************************)
Apart(h) == \A p, q \in Seats : p # q => h[p] \cap h[q] = {}

LEMMA CardLeavesHand ==
  ASSUME NEW h \in HandsType, NEW p \in Seats, NEW c \in h[p], Apart(h)
  PROVE  LET h1 == [h EXCEPT ![p] = @ \ {c}]
         IN  InHands(h1) = InHands(h) \ {c} /\ Apart(h1) /\ c \in InHands(h)
<1> DEFINE h1 == [h EXCEPT ![p] = @ \ {c}]
<1>1. /\ h1[p] = h[p] \ {c}
      /\ \A q \in Seats : q # p => h1[q] = h[q] /\ c \notin h[q]
  BY DEF HandsType, Apart
<1> HIDE DEF h1
<1>2. \A q \in Seats : h1[q] = h[q] \ {c}
  BY <1>1
<1>3. InHands(h1) = InHands(h) \ {c} /\ c \in InHands(h)
  BY <1>2 DEF InHands
<1>4. Apart(h1)
  BY <1>2 DEF Apart
<1> QED BY <1>3, <1>4 DEF h1

LEMMA CardsEnterHand ==
  ASSUME NEW h \in HandsType, NEW p \in Seats, NEW X, X \cap InHands(h) = {}, Apart(h)
  PROVE  LET h1 == [h EXCEPT ![p] = @ \cup X]
         IN  InHands(h1) = InHands(h) \cup X /\ Apart(h1)
<1> DEFINE h1 == [h EXCEPT ![p] = @ \cup X]
<1>1. /\ h1[p] = h[p] \cup X
      /\ \A q \in Seats : q # p => h1[q] = h[q]
      /\ \A q \in Seats : h[q] \cap X = {}
  BY DEF HandsType, InHands
<1> HIDE DEF h1
<1>2. InHands(h1) = InHands(h) \cup X
  BY <1>1 DEF InHands
<1>3. Apart(h1)
  BY <1>1 DEF Apart
<1> QED BY <1>2, <1>3 DEF h1

LEMMA EntryShape ==
  ASSUME NEW t \in Seq(Entry), NEW i \in DOMAIN t
  PROVE  t[i] \in Entry /\ t[i].card \in Deck
<1>1. t[i] \in Entry
  OBVIOUS
<1> QED BY <1>1 DEF Entry

LEMMA EntryCovered ==
  ASSUME NEW t \in Seq(Entry), NEW i \in DOMAIN t, NEW x
  PROVE  LET t1 == [t EXCEPT ![i].beatenBy = x]
         IN  /\ DOMAIN t1 = DOMAIN t
             /\ \A j \in DOMAIN t : t1[j].card = t[j].card
             /\ \A j \in DOMAIN t : j # i => t1[j].beatenBy = t[j].beatenBy
             /\ t1[i].beatenBy = x
<1> DEFINE t1 == [t EXCEPT ![i].beatenBy = x]
<1>1. t[i] \in [card : Deck, beatenBy : Deck \cup {NoCard}, by : Seats]
  BY EntryShape DEF Entry
<1>2. /\ DOMAIN t1 = DOMAIN t
      /\ \A j \in DOMAIN t : j # i => t1[j] = t[j]
      /\ t1[i] = [t[i] EXCEPT !.beatenBy = x]
  OBVIOUS
<1>3. t1[i].beatenBy = x /\ t1[i].card = t[i].card
  <2> HIDE DEF t1
  <2> QED BY <1>1, <1>2
<1> HIDE DEF t1
<1>4. \A j \in DOMAIN t : t1[j].card = t[j].card
  BY <1>2, <1>3
<1> QED BY <1>2, <1>3, <1>4 DEF t1

LEMMA Concatenated ==
  ASSUME NEW a \in Seq(Entry), NEW b \in Seq(Entry)
  PROVE  /\ Len(a \o b) = Len(a) + Len(b)
         /\ \A j \in 1 .. Len(b) : (a \o b)[Len(a) + j] = b[j]
<1>1. Len(a) \in Nat /\ Len(b) \in Nat
  OBVIOUS
<1>2. Len(a \o b) = Len(a) + Len(b)
  OBVIOUS
<1>3. ASSUME NEW j \in 1 .. Len(b)
      PROVE  (a \o b)[Len(a) + j] = b[j]
  <2>1. Len(a) + j \in 1 .. Len(a) + Len(b) /\ ~(Len(a) + j <= Len(a)) /\ (Len(a) + j) - Len(a) = j
    BY <1>1
  <2> QED BY <1>1, <1>2, <2>1
<1> QED BY <1>2, <1>3

LEMMA EntryRemoved ==
  ASSUME NEW t \in Seq(Entry), NEW i \in DOMAIN t
  PROVE  LET n == Len(t)
         IN  /\ n \in Nat /\ i \in 1 .. n
             /\ RemoveAt(t, i) \in Seq(Entry)
             /\ DOMAIN RemoveAt(t, i) = 1 .. n - 1
             /\ \A j \in 1 .. n - 1 : RemoveAt(t, i)[j] = t[IF j < i THEN j ELSE j + 1]
<1> DEFINE n == Len(t)
           left == SubSeq(t, 1, i - 1)
           right == SubSeq(t, i + 1, n)
<1>1. n \in Nat /\ i \in 1 .. n /\ DOMAIN t = 1 .. n
  OBVIOUS
<1>2. left \in Seq(Entry) /\ Len(left) = i - 1 /\ \A j \in 1 .. i - 1 : left[j] = t[j]
  BY <1>1
<1>3. /\ right \in Seq(Entry) /\ Len(right) = n - i
      /\ \A j \in 1 .. n - i : right[j] = t[i + j]
  BY <1>1
<1> HIDE DEF left, right, n
<1> DEFINE t1 == left \o right
<1>4. t1 \in Seq(Entry)
  BY <1>2, <1>3
<1>5. Len(left) \in Nat /\ Len(right) \in Nat /\ Len(left) + Len(right) = n - 1
  BY <1>1, <1>2, <1>3
<1>6. Len(t1) = n - 1
  BY <1>2, <1>3, <1>5, Concatenated
<1>7. DOMAIN t1 = 1 .. n - 1
  BY <1>4, <1>6
<1>8. ASSUME NEW j \in 1 .. n - 1, j < i
      PROVE  t1[j] = t[j]
  <2>1. j \in 1 .. i - 1 /\ j \in 1 .. Len(left)
    BY <1>1, <1>2, <1>8
  <2>2. t1[j] = left[j]
    BY <1>2, <1>3, <1>5, <2>1
  <2> QED BY <1>2, <2>1, <2>2
<1>9. ASSUME NEW j \in 1 .. n - 1, ~(j < i)
      PROVE  t1[j] = t[j + 1]
  <2>1. /\ j - (i - 1) \in 1 .. n - i /\ i + (j - (i - 1)) = j + 1
        /\ Len(left) + (j - (i - 1)) = j
    BY SMTT(15), <1>1, <1>2, <1>9
  <2>2. t1[j] = right[j - (i - 1)]
    <3>1. \A k \in 1 .. Len(right) : t1[Len(left) + k] = right[k]
      BY <1>2, <1>3, Concatenated
    <3> HIDE DEF t1
    <3> QED BY <1>3, <2>1, <3>1
  <2>3. right[j - (i - 1)] = t[i + (j - (i - 1))]
    BY <1>3, <2>1
  <2> QED BY <2>1, <2>2, <2>3
<1> HIDE DEF t1
<1>10. \A j \in 1 .. n - 1 : t1[j] = t[IF j < i THEN j ELSE j + 1]
  BY <1>8, <1>9
<1>11. RemoveAt(t, i) = t1
  BY DEF RemoveAt, t1, left, right, n
<1> HIDE DEF n
<1>12. n \in Nat /\ i \in 1 .. n
  BY <1>1
<1> QED BY <1>12, <1>4, <1>7, <1>10, <1>11 DEF n

LEMMA CardLands ==
  ASSUME NEW t \in Seq(Entry), NEW p \in Seats, NEW c \in Deck, c \notin TableCards(t), LaidOnce(t)
  PROVE  LET t1 == Append(t, NewEntry(p, c))
         IN  TableCards(t1) = TableCards(t) \cup {c} /\ LaidOnce(t1)
<1> DEFINE t1 == Append(t, NewEntry(p, c))
           n == Len(t)
<1>1. /\ n \in Nat /\ DOMAIN t = 1 .. n /\ DOMAIN t1 = 1 .. n + 1
      /\ \A i \in 1 .. n : t1[i] = t[i]
      /\ t1[n + 1].card = c /\ t1[n + 1].beatenBy = NoCard
  BY DEF NewEntry
<1>2. \A i \in 1 .. n : t[i].card \in Deck
  BY <1>1, EntryShape
<1> HIDE DEF t1, n
<1>3. Beaten(t1) = Beaten(t)
  BY <1>1 DEF Beaten
<1>4. TableCards(t1) = TableCards(t) \cup {c}
  <2>1. {t1[i].card : i \in 1 .. n + 1} = {t[i].card : i \in 1 .. n} \cup {c}
    BY <1>1
  <2>2. {t1[i].beatenBy : i \in Beaten(t)} = {t[i].beatenBy : i \in Beaten(t)}
    BY <1>1 DEF Beaten
  <2> QED BY <1>1, <1>3, <2>1, <2>2 DEF TableCards
<1>5. LaidOnce(t1)
  <2>1. \A i \in 1 .. n : t[i].card # c /\ t[i].beatenBy # c
    BY <1>1, DeckAssumption DEF TableCards, Beaten
  <2>2. NoCard \notin Deck
    BY DeckAssumption
  <2> QED BY <1>1, <1>2, <2>1, <2>2 DEF LaidOnce
<1> QED BY <1>4, <1>5 DEF t1

(* Laying or taking back the card on top of entry i. *)
LEMMA CardCovers ==
  ASSUME NEW t \in Seq(Entry), NEW i \in Unbeaten(t), NEW c \in Deck,
         c \notin TableCards(t), LaidOnce(t)
  PROVE  LET t1 == [t EXCEPT ![i].beatenBy = c]
         IN  TableCards(t1) = TableCards(t) \cup {c} /\ LaidOnce(t1)
<1> DEFINE t1 == [t EXCEPT ![i].beatenBy = c]
<1>1. /\ i \in DOMAIN t /\ DOMAIN t1 = DOMAIN t
      /\ \A j \in DOMAIN t : t1[j].card = t[j].card
      /\ \A j \in DOMAIN t : j # i => t1[j].beatenBy = t[j].beatenBy
      /\ t1[i].beatenBy = c /\ t[i].beatenBy = NoCard
  BY ZenonT(30), EntryCovered DEF Unbeaten
<1> HIDE DEF t1
<1>2. Beaten(t1) = Beaten(t) \cup {i} /\ i \notin Beaten(t)
  BY <1>1, DeckAssumption DEF Beaten
<1>3. TableCards(t1) = TableCards(t) \cup {c}
  <2>1. {t1[j].card : j \in DOMAIN t1} = {t[j].card : j \in DOMAIN t}
    BY <1>1
  <2>2. {t1[j].beatenBy : j \in Beaten(t1)} = {t[j].beatenBy : j \in Beaten(t)} \cup {c}
    BY <1>1, <1>2 DEF Beaten
  <2> QED BY <2>1, <2>2 DEF TableCards
<1>4. LaidOnce(t1)
  <2>1. \A j \in DOMAIN t : t[j].card # c /\ t[j].beatenBy # c
    BY DeckAssumption DEF TableCards, Beaten
  <2> QED BY <1>1, <2>1 DEF LaidOnce
<1> QED BY <1>3, <1>4 DEF t1

LEMMA CardUncovers ==
  ASSUME NEW t \in Seq(Entry), NEW i \in Beaten(t), LaidOnce(t)
  PROVE  LET t1 == [t EXCEPT ![i].beatenBy = NoCard]
         IN  /\ TableCards(t1) = TableCards(t) \ {t[i].beatenBy}
             /\ LaidOnce(t1) /\ t[i].beatenBy \in TableCards(t)
<1> DEFINE t1 == [t EXCEPT ![i].beatenBy = NoCard]
           c == t[i].beatenBy
<1>0. i \in DOMAIN t /\ c # NoCard
  BY DEF Beaten
<1>1. /\ i \in DOMAIN t /\ DOMAIN t1 = DOMAIN t
      /\ \A j \in DOMAIN t : t1[j].card = t[j].card
      /\ \A j \in DOMAIN t : j # i => t1[j].beatenBy = t[j].beatenBy
      /\ t1[i].beatenBy = NoCard /\ c # NoCard
      /\ \A j \in DOMAIN t : t[j].card \in Deck
  <2>1. \A j \in DOMAIN t : t[j].card \in Deck
    BY EntryShape
  <2>2. /\ DOMAIN t1 = DOMAIN t
        /\ \A j \in DOMAIN t : t1[j].card = t[j].card
        /\ \A j \in DOMAIN t : j # i => t1[j].beatenBy = t[j].beatenBy
        /\ t1[i].beatenBy = NoCard
    BY <1>0, EntryCovered
  <2> QED BY <1>0, <2>1, <2>2
<1> HIDE DEF t1
<1>2. Beaten(t1) = Beaten(t) \ {i}
  BY <1>1 DEF Beaten
<1>3. /\ \A j \in DOMAIN t : t[j].card # c
      /\ \A j \in Beaten(t) : j # i => t[j].beatenBy # c
  BY <1>1 DEF LaidOnce, Beaten
<1>4. TableCards(t1) = TableCards(t) \ {c} /\ c \in TableCards(t)
  <2>1. {t1[j].card : j \in DOMAIN t1} = {t[j].card : j \in DOMAIN t}
    BY <1>1
  <2>2. {t1[j].beatenBy : j \in Beaten(t1)} = {t[j].beatenBy : j \in Beaten(t)} \ {c}
    BY <1>1, <1>2, <1>3 DEF Beaten
  <2>3. c \in {t[j].beatenBy : j \in Beaten(t)}
    OBVIOUS
  <2> QED BY <1>3, <2>1, <2>2, <2>3 DEF TableCards
<1>5. LaidOnce(t1)
  BY <1>1, DeckAssumption DEF LaidOnce
<1> QED BY <1>4, <1>5 DEF t1

LEMMA CardLifts ==
  ASSUME NEW t \in Seq(Entry), NEW i \in Unbeaten(t), LaidOnce(t)
  PROVE  LET t1 == RemoveAt(t, i)
         IN  /\ TableCards(t1) = TableCards(t) \ {t[i].card}
             /\ LaidOnce(t1) /\ t[i].card \in TableCards(t)
<1> DEFINE t1 == RemoveAt(t, i)
           n == Len(t)
           c == t[i].card
           from(j) == IF j < i THEN j ELSE j + 1
<1>1. n \in Nat /\ DOMAIN t = 1 .. n /\ i \in 1 .. n /\ t[i].beatenBy = NoCard
  BY EntryRemoved DEF Unbeaten
<1>2. DOMAIN t1 = 1 .. n - 1 /\ \A j \in 1 .. n - 1 : t1[j] = t[from(j)]
  BY EntryRemoved DEF Unbeaten
<1>3. /\ \A j \in 1 .. n - 1 : from(j) \in 1 .. n /\ from(j) # i
      /\ \A j, k \in 1 .. n - 1 : from(j) = from(k) => j = k
      /\ \A k \in 1 .. n : k # i => \E j \in 1 .. n - 1 : from(j) = k
  <2>1. ASSUME NEW k \in 1 .. n, k # i PROVE \E j \in 1 .. n - 1 : from(j) = k
    <3>1. CASE k < i
      BY <1>1, <3>1
    <3>2. CASE k > i
      <4>1. k - 1 \in 1 .. n - 1 /\ from(k - 1) = k
        BY <1>1, <3>2
      <4> QED BY <4>1
    <3> QED BY <1>1, <2>1, <3>1, <3>2
  <2> QED BY <1>1, <2>1
<1> HIDE DEF t1, n, from
<1>4. /\ \A j \in DOMAIN t : j # i => t[j].card # c
      /\ \A j \in DOMAIN t : t[j].beatenBy # c
  BY <1>1 DEF LaidOnce
<1>5. TableCards(t1) = TableCards(t) \ {c} /\ c \in TableCards(t)
  <2>1. {t1[j].card : j \in DOMAIN t1} = {t[j].card : j \in DOMAIN t} \ {c}
    <3>1. ASSUME NEW j \in DOMAIN t1
          PROVE  \E k \in DOMAIN t : k # i /\ t1[j].card = t[k].card
      BY <1>1, <1>2, <1>3
    <3>2. ASSUME NEW k \in DOMAIN t, k # i PROVE \E j \in DOMAIN t1 : t1[j].card = t[k].card
      BY <1>1, <1>2, <1>3, <3>2
    <3> QED BY <1>4, <3>1, <3>2
  <2>2. {t1[j].beatenBy : j \in Beaten(t1)} = {t[j].beatenBy : j \in Beaten(t)}
    <3>1. ASSUME NEW j \in Beaten(t1)
          PROVE  \E k \in Beaten(t) : t1[j].beatenBy = t[k].beatenBy
      BY <1>1, <1>2, <1>3 DEF Beaten
    <3>2. ASSUME NEW k \in Beaten(t) PROVE \E j \in Beaten(t1) : t1[j].beatenBy = t[k].beatenBy
      <4>1. k \in 1 .. n /\ k # i
        BY <1>1 DEF Beaten
      <4>2. PICK j \in 1 .. n - 1 : from(j) = k
        BY <1>3, <4>1
      <4> QED BY <1>2, <4>2 DEF Beaten
    <3> QED BY <3>1, <3>2
  <2>3. c \notin {t[j].beatenBy : j \in Beaten(t)}
    BY <1>4 DEF Beaten
  <2> QED BY <1>1, <2>1, <2>2, <2>3 DEF TableCards
<1>6. LaidOnce(t1)
  <2> SUFFICES ASSUME NEW j \in 1 .. n - 1, NEW k \in 1 .. n - 1
               PROVE  /\ t1[j].card # t1[k].beatenBy
                      /\ j # k => t1[j].card # t1[k].card
                      /\ j # k /\ t1[j].beatenBy # NoCard => t1[j].beatenBy # t1[k].beatenBy
    BY <1>2 DEF LaidOnce
  <2>1. t1[j] = t[from(j)] /\ t1[k] = t[from(k)] /\ (j # k => from(j) # from(k))
    BY <1>2, <1>3
  <2>2. from(j) \in DOMAIN t /\ from(k) \in DOMAIN t
    BY <1>1, <1>3
  <2> QED BY <2>1, <2>2 DEF LaidOnce
<1> QED BY <1>5, <1>6 DEF t1

(* Cards go from the hands to the table, or from the table to a hand. *)
LEMMA HandsToTable ==
  ASSUME NEW h, NEW d, NEW t, NEW disc, NEW h1, NEW t1, NEW X, Conserved(h, d, t, disc),
         X \in SUBSET InHands(h), InHands(h1) = InHands(h) \ X, Apart(h1),
         TableCards(t1) = TableCards(t) \cup X, LaidOnce(t1)
  PROVE  Conserved(h1, d, t1, disc)
BY DEF Conserved, Apart

LEMMA TableToHands ==
  ASSUME NEW h, NEW d, NEW t, NEW disc, NEW h1, NEW t1, NEW X, Conserved(h, d, t, disc),
         X \in SUBSET TableCards(t), InHands(h1) = InHands(h) \cup X, Apart(h1),
         TableCards(t1) = TableCards(t) \ X, LaidOnce(t1)
  PROVE  Conserved(h1, d, t1, disc)
BY DEF Conserved, Apart

LEMMA EmptyTable == TableCards(<<>>) = {} /\ LaidOnce(<<>>)
BY DEF TableCards, Beaten, LaidOnce

LEMMA ConservedParts ==
  ASSUME NEW h, NEW d, NEW t, NEW disc, Conserved(h, d, t, disc)
  PROVE  /\ Apart(h) /\ LaidOnce(t)
         /\ InHands(h) \cap TableCards(t) = {}
         /\ TableCards(t) \in SUBSET Deck
BY DEF Conserved, Apart

(* A player throws a card; the defender covers entry i with one. *)
LEMMA PlayKeeps ==
  ASSUME TypeOK, CardsConserved, NEW p \in Seats, NEW c \in hands[p]
  PROVE  Conserved([hands EXCEPT ![p] = @ \ {c}], deck, Append(table, NewEntry(p, c)), discard)
<1>1. hands \in HandsType /\ table \in Seq(Entry)
  BY DEF TypeOK, HandsType
<1>2. Apart(hands) /\ LaidOnce(table) /\ InHands(hands) \cap TableCards(table) = {}
  BY ConservedParts DEF CardsConserved
<1>3. c \in Deck /\ c \in InHands(hands) /\ c \notin TableCards(table)
  BY <1>1, <1>2 DEF InHands, HandsType
<1> DEFINE h1 == [hands EXCEPT ![p] = @ \ {c}]
           t1 == Append(table, NewEntry(p, c))
<1>4. InHands(h1) = InHands(hands) \ {c} /\ Apart(h1)
  BY <1>1, <1>2, CardLeavesHand
<1>5. TableCards(t1) = TableCards(table) \cup {c} /\ LaidOnce(t1)
  BY <1>1, <1>2, <1>3, CardLands
<1>6. {c} \in SUBSET InHands(hands)
  BY <1>3
<1> HIDE DEF h1, t1
<1>7. Conserved(h1, deck, t1, discard)
  BY <1>4, <1>5, <1>6, HandsToTable DEF CardsConserved
<1> QED BY <1>7 DEF h1, t1

LEMMA CoverKeeps ==
  ASSUME TypeOK, CardsConserved, NEW i \in Unbeaten(table), NEW c \in hands[defender]
  PROVE  Conserved([hands EXCEPT ![defender] = @ \ {c}], deck,
                   [table EXCEPT ![i].beatenBy = c], discard)
<1>1. hands \in HandsType /\ table \in Seq(Entry) /\ defender \in Seats
  BY DEF TypeOK, HandsType
<1>2. Apart(hands) /\ LaidOnce(table) /\ InHands(hands) \cap TableCards(table) = {}
  BY ConservedParts DEF CardsConserved
<1>3. c \in Deck /\ c \in InHands(hands) /\ c \notin TableCards(table)
  BY <1>1, <1>2 DEF InHands, HandsType
<1> DEFINE h1 == [hands EXCEPT ![defender] = @ \ {c}]
           t1 == [table EXCEPT ![i].beatenBy = c]
<1>4. InHands(h1) = InHands(hands) \ {c} /\ Apart(h1)
  BY <1>1, <1>2, CardLeavesHand
<1>5. TableCards(t1) = TableCards(table) \cup {c} /\ LaidOnce(t1)
  BY <1>1, <1>2, <1>3, CardCovers
<1>6. {c} \in SUBSET InHands(hands)
  BY <1>3
<1> HIDE DEF h1, t1
<1>7. Conserved(h1, deck, t1, discard)
  BY <1>4, <1>5, <1>6, HandsToTable DEF CardsConserved
<1> QED BY <1>7 DEF h1, t1

(* Both closings keep the cards, wherever the last command left them. *)
LEMMA BeatenKeeps ==
  ASSUME TypeOK, NEW h \in HandsType, NEW t, NEW lock, Conserved(h, deck, t, discard),
         closeBoutBeaten(h, t, lock)
  PROVE  CardsConserved'
<1> DEFINE drawers == {p \in Seats : ~Finished(p)}
           disc == discard \cup TableCards(t)
<1>1. /\ hands' = refillHands(h, drawers) /\ deck' = refillDeck(h, drawers)
      /\ table' = <<>> /\ discard' = disc
  BY DEF closeBoutBeaten
<1>2. Conserved(h, deck, <<>>, disc)
  BY EmptyTable DEF Conserved
<1>3. Conserved(refillHands(h, drawers), refillDeck(h, drawers), <<>>, disc)
  <2> HIDE DEF disc
  <2> QED BY <1>2, RefillKeeps
<1> QED BY <1>1, <1>3 DEF CardsConserved

LEMMA TakenKeeps ==
  ASSUME TypeOK, NEW h \in HandsType, NEW t, NEW lock, Conserved(h, deck, t, discard),
         closeBoutTaken(h, t, lock)
  PROVE  CardsConserved'
<1> DEFINE drawers == {p \in Seats : ~Finished(p)} \ {defender}
           h0 == [h EXCEPT ![defender] = @ \cup TableCards(t)]
<1>1. /\ hands' = refillHands(h0, drawers) /\ deck' = refillDeck(h0, drawers)
      /\ table' = <<>> /\ discard' = discard
  BY DEF closeBoutTaken
<1>2. /\ Apart(h) /\ InHands(h) \cap TableCards(t) = {} /\ TableCards(t) \in SUBSET Deck
      /\ defender \in Seats
  BY ConservedParts DEF TypeOK
<1>3. InHands(h0) = InHands(h) \cup TableCards(t) /\ Apart(h0)
  BY <1>2, CardsEnterHand
<1>4. h0 \in HandsType
  BY <1>2 DEF HandsType
<1> HIDE DEF h0
<1>5. Conserved(h0, deck, <<>>, discard)
  BY <1>3, EmptyTable, TableToHands
<1>6. Conserved(refillHands(h0, drawers), refillDeck(h0, drawers), <<>>, discard)
  BY <1>4, <1>5, RefillKeeps
<1> QED BY <1>1, <1>6 DEF CardsConserved

-----------------------------------------------------------------------------
(***************************************************************************)
(* Every command keeps the cards.                                          *)
(***************************************************************************)
LEMMA AttackKeeps ==
  ASSUME TypeOK, CardsConserved, NEW p \in Seats, NEW c \in hands[p], Attack(p, c)
  PROVE  CardsConserved'
<1> DEFINE h == [hands EXCEPT ![p] = @ \ {c}]
           t == Append(table, NewEntry(p, c))
<1>1. Conserved(h, deck, t, discard) /\ h \in HandsType
  BY PlayKeeps, PlayType
<1>2. \/ closeBoutTaken(h, t, exclusiveLockReleased)
      \/ hands' = h /\ table' = t /\ deck' = deck /\ discard' = discard
  BY DEF Attack
<1> HIDE DEF h, t
<1>3. CASE closeBoutTaken(h, t, exclusiveLockReleased)
  BY <1>1, <1>3, TakenKeeps
<1>4. CASE hands' = h /\ table' = t /\ deck' = deck /\ discard' = discard
  BY <1>1, <1>4 DEF CardsConserved
<1> QED BY <1>2, <1>3, <1>4

LEMMA BeatKeeps ==
  ASSUME TypeOK, CardsConserved, NEW i \in DOMAIN table, NEW c \in hands[defender], Beat(i, c)
  PROVE  CardsConserved'
<1> DEFINE h == [hands EXCEPT ![defender] = @ \ {c}]
           t == [table EXCEPT ![i].beatenBy = c]
<1>1. i \in Unbeaten(table) /\ defender \in Seats
  BY DEF Beat, TypeOK
<1>2. Conserved(h, deck, t, discard) /\ h \in HandsType
  BY <1>1, CoverKeeps, PlayType
<1>3. \/ closeBoutBeaten(h, t, exclusiveLockReleased)
      \/ hands' = h /\ table' = t /\ deck' = deck /\ discard' = discard
  BY DEF Beat
<1> HIDE DEF h, t
<1>4. CASE closeBoutBeaten(h, t, exclusiveLockReleased)
  BY <1>2, <1>4, BeatenKeeps
<1>5. CASE hands' = h /\ table' = t /\ deck' = deck /\ discard' = discard
  BY <1>2, <1>5 DEF CardsConserved
<1> QED BY <1>3, <1>4, <1>5

LEMMA TranslateKeeps ==
  ASSUME TypeOK, CardsConserved, NEW c \in hands[defender], Translate(c)
  PROVE  CardsConserved'
<1>1. defender \in Seats
  BY DEF TypeOK
<1>2. Conserved([hands EXCEPT ![defender] = @ \ {c}], deck,
                Append(table, NewEntry(defender, c)), discard)
  BY <1>1, PlayKeeps
<1> QED BY <1>2 DEF Translate, CardsConserved

LEMMA TakeKeeps ==
  ASSUME TypeOK, CardsConserved, Take
  PROVE  CardsConserved'
<1>1. hands \in HandsType
  BY DEF TypeOK, HandsType
<1>2. CASE closeBoutTaken(hands, table, exclusiveLockReleased)
  BY <1>1, <1>2, TakenKeeps DEF CardsConserved
<1>3. CASE UNCHANGED cardVars
  BY <1>3 DEF CardsConserved, cardVars
<1> QED BY <1>2, <1>3 DEF Take, cardVars

LEMMA PassKeeps ==
  ASSUME TypeOK, CardsConserved, NEW p \in Seats, Pass(p)
  PROVE  CardsConserved'
<1> DEFINE released == exclusiveLockReleased \/ (ExclusiveThrowIn /\ p = attacker)
<1>1. hands \in HandsType
  BY DEF TypeOK, HandsType
<1>2. \/ closeBoutBeaten(hands, table, released)
      \/ closeBoutTaken(hands, table, released)
      \/ UNCHANGED cardVars
  BY DEF Pass, cardVars
<1> HIDE DEF released
<1>3. CASE closeBoutBeaten(hands, table, released)
  BY <1>1, <1>3, BeatenKeeps DEF CardsConserved
<1>4. CASE closeBoutTaken(hands, table, released)
  BY <1>1, <1>4, TakenKeeps DEF CardsConserved
<1>5. CASE UNCHANGED cardVars
  BY <1>5 DEF CardsConserved, cardVars
<1> QED BY <1>2, <1>3, <1>4, <1>5

(* A card that was called out goes back to the hand it came from. *)
LEMMA ReturnKeeps ==
  ASSUME TypeOK, CardsConserved, NEW cheater \in Seats, NEW c \in TableCards(table), NEW t,
         TableCards(t) = TableCards(table) \ {c}, LaidOnce(t), CardReturned(cheater, c, t)
  PROVE  CardsConserved'
<1> DEFINE h == [hands EXCEPT ![cheater] = @ \cup {c}]
<1>1. hands \in HandsType
  BY DEF TypeOK, HandsType
<1>2. Apart(hands) /\ InHands(hands) \cap TableCards(table) = {}
  BY ConservedParts DEF CardsConserved
<1>3. {c} \cap InHands(hands) = {}
  BY <1>2
<1>4. InHands(h) = InHands(hands) \cup {c} /\ Apart(h)
  BY <1>1, <1>2, <1>3, CardsEnterHand
<1>5. {c} \in SUBSET TableCards(table)
  OBVIOUS
<1>6. hands' = h /\ table' = t /\ deck' = deck /\ discard' = discard
  BY DEF CardReturned
<1> HIDE DEF h
<1>7. Conserved(h, deck, t, discard)
  BY <1>4, <1>5, TableToHands DEF CardsConserved
<1> QED BY <1>6, <1>7 DEF CardsConserved

LEMMA NoticeKeeps ==
  ASSUME TypeOK, CardsConserved, NEW p \in Seats, NEW i \in DOMAIN table,
         NoticeBeat(p, i) \/ NoticeAttack(p, i)
  PROVE  CardsConserved'
<1>1. table \in Seq(Entry) /\ table[i] \in Entry /\ LaidOnce(table) /\ defender \in Seats
  BY ConservedParts DEF TypeOK, CardsConserved
<1>2. CASE NoticeBeat(p, i)
  <2> DEFINE t == [table EXCEPT ![i].beatenBy = NoCard]
  <2>1. i \in Beaten(table) /\ CardReturned(defender, table[i].beatenBy, t)
    BY <1>2 DEF NoticeBeat, FakeBeat
  <2>2. /\ TableCards(t) = TableCards(table) \ {table[i].beatenBy} /\ LaidOnce(t)
        /\ table[i].beatenBy \in TableCards(table)
    BY <1>1, <2>1, CardUncovers
  <2> HIDE DEF t
  <2> QED BY <1>1, <2>1, <2>2, ReturnKeeps
<1>3. CASE NoticeAttack(p, i)
  <2> DEFINE t == RemoveAt(table, i)
  <2>1. i \in Unbeaten(table) /\ CardReturned(table[i].by, table[i].card, t)
    BY <1>3 DEF NoticeAttack, FakeThrow
  <2>2. /\ TableCards(t) = TableCards(table) \ {table[i].card} /\ LaidOnce(t)
        /\ table[i].card \in TableCards(table)
    BY <1>1, <2>1, CardLifts
  <2>3. table[i].by \in Seats
    BY <1>1 DEF Entry
  <2> HIDE DEF t
  <2> QED BY <2>1, <2>2, <2>3, ReturnKeeps
<1> QED BY <1>2, <1>3

LEMMA NextKeeps ==
  ASSUME TypeOK, CardsConserved, [Next]_vars
  PROVE  CardsConserved'
<1>1. defender \in Seats
  BY DEF TypeOK
<1>2. ASSUME NEW p \in Seats, NEW c \in hands[p], Attack(p, c) PROVE CardsConserved'
  BY <1>2, AttackKeeps
<1>3. ASSUME NEW i \in DOMAIN table, NEW c \in hands[defender], Beat(i, c) PROVE CardsConserved'
  BY <1>3, BeatKeeps
<1>4. ASSUME NEW c \in hands[defender], Translate(c) PROVE CardsConserved'
  BY <1>4, TranslateKeeps
<1>5. CASE Take
  BY <1>5, TakeKeeps
<1>6. ASSUME NEW p \in Seats, Pass(p) PROVE CardsConserved'
  BY <1>6, PassKeeps
<1>7. ASSUME NEW p \in Seats, NEW i \in DOMAIN table, NoticeBeat(p, i) \/ NoticeAttack(p, i)
      PROVE  CardsConserved'
  BY <1>7, NoticeKeeps
<1>8. CASE UNCHANGED vars
  BY <1>8 DEF vars, CardsConserved
<1> QED BY <1>2, <1>3, <1>4, <1>5, <1>6, <1>7, <1>8 DEF Next, GameOver

-----------------------------------------------------------------------------
(***************************************************************************)
(* The deal.                                                               *)
(***************************************************************************)
LEMMA DeckOnce ==
  ASSUME NEW order \in DeckOrders
  PROVE  LET d == TrumpToBottom(order)
         IN  DOMAIN d = 1 .. Cardinality(Deck) /\ IsInjective(d) /\ Range(d) = Deck
<1> DEFINE n == Cardinality(Deck)
           d == TrumpToBottom(order)
           t == Min(TrumpPositions(order))
           from(i) == IF i = 1 THEN t ELSE IF i <= t THEN i - 1 ELSE i
<1>1. n \in Nat /\ order \in [1 .. n -> Deck] /\ \A c \in Deck : \E i \in 1 .. n : order[i] = c
  BY DeckAssumption, FS_CardinalityType
<1>2. IsInjective(order)
  <2>1. order \in Surjection(1 .. n, Deck)
    BY <1>1 DEF Surjection
  <2>2. IsFiniteSet(1 .. n) /\ Cardinality(1 .. n) = n
    BY <1>1, FS_Interval
  <2>3. order \in Injection(1 .. n, Deck)
    BY <2>1, <2>2, FS_Surjection
  <2> QED BY <1>1, <2>3 DEF Injection
<1>3. CASE TrumpPositions(order) = {}
  <2>1. d = order
    BY <1>3 DEF TrumpToBottom
  <2> QED BY <1>1, <1>2, <2>1 DEF Range
<1>4. CASE TrumpPositions(order) # {}
  <2>1. t \in 1 .. n
    <3>1. TrumpPositions(order) \in SUBSET (1 .. n)
      BY <1>1 DEF TrumpPositions
    <3> QED BY <1>1, <1>4, <3>1, MinOfNaturals
  <2>2. DOMAIN d = 1 .. n /\ \A i \in 1 .. n : d[i] = order[from(i)]
    BY <1>1, <1>4 DEF TrumpToBottom
  <2> HIDE DEF n, d, t
  <2>3. /\ \A i \in 1 .. n : from(i) \in 1 .. n
        /\ \A i, j \in 1 .. n : from(i) = from(j) => i = j
    BY <1>1, <2>1
  <2>4. ASSUME NEW k \in 1 .. n PROVE \E i \in 1 .. n : from(i) = k
    <3>1. CASE k = t
      BY <1>1, <2>1, <3>1
    <3>2. CASE k < t
      <4>1. k + 1 \in 1 .. n /\ from(k + 1) = k
        BY <1>1, <2>1, <3>2
      <4> QED BY <4>1
    <3>3. CASE k > t
      <4>1. from(k) = k
        BY <1>1, <2>1, <3>3
      <4> QED BY <4>1
    <3> QED BY <1>1, <2>1, <3>1, <3>2, <3>3
  <2> HIDE DEF from
  <2>5. IsInjective(d)
    BY <1>1, <1>2, <2>2, <2>3 DEF IsInjective
  <2>6. Range(d) = Deck
    <3>1. \A i \in 1 .. n : d[i] \in Deck
      BY <1>1, <2>2, <2>3
    <3>2. ASSUME NEW c \in Deck PROVE \E i \in 1 .. n : d[i] = c
      <4>1. PICK k \in 1 .. n : order[k] = c
        BY <1>1
      <4> QED BY <2>2, <2>4, <4>1
    <3> QED BY <2>2, <3>1, <3>2 DEF Range
  <2> QED BY <2>2, <2>5, <2>6 DEF n, d
<1> QED BY <1>3, <1>4

LEMMA InitKeeps == Init => CardsConserved
<1> SUFFICES ASSUME Init PROVE CardsConserved
  OBVIOUS
<1>1. PICK order \in DeckOrders :
        LET d == TrumpToBottom(order)
        IN  /\ hands = [p \in Seats |-> DealtHand(d, p)]
            /\ deck = SubSeq(d, 1, Len(d) - N * HandSize)
            /\ discard = {} /\ table = <<>>
  BY DEF Init
<1> DEFINE d == TrumpToBottom(order)
           n == Cardinality(Deck)
           H == N * HandSize
<1>2. n \in Nat /\ H \in Nat /\ H <= n
  BY DeckAssumption, FS_CardinalityType, PlayersAssumption, SettingsAssumption, DealAssumption
<1>3. /\ d \in Seq(Deck) /\ Len(d) = n /\ DOMAIN d = 1 .. n
      /\ IsInjective(d) /\ Range(d) = Deck
  BY TrumpType, DeckOnce
<1>4. \A p \in Seats : hands[p] = {d[n - k] : k \in {k \in 0 .. H - 1 : k % N = p}}
  BY <1>1, <1>3 DEF DealtHand
<1>5. deck = SubSeq(d, 1, n - H) /\ discard = {} /\ table = <<>>
  BY <1>1, <1>3
<1> HIDE DEF d, n, H
<1>6. DOMAIN deck = 1 .. n - H /\ \A i \in 1 .. n - H : deck[i] = d[i]
  BY <1>2, <1>3, <1>5
<1>7. ASSUME NEW p \in Seats, NEW c \in hands[p]
      PROVE  \E k \in 0 .. H - 1 : c = d[n - k] /\ k % N = p
  BY <1>4
<1>8. ASSUME NEW i \in n - H + 1 .. n
      PROVE  \E p \in Seats : d[i] \in hands[p]
  <2>1. n - i \in 0 .. H - 1 /\ n - (n - i) = i
    BY <1>2
  <2>2. (n - i) % N \in Seats
    BY <2>1, PlayersAssumption DEF Seats
  <2> QED BY <1>4, <2>1, <2>2
<1>9. ASSUME NEW p \in Seats, NEW c \in hands[p]
      PROVE  c \in Deck /\ c \notin Range(deck)
  <2>1. PICK k \in 0 .. H - 1 : c = d[n - k] /\ k % N = p
    BY <1>7
  <2>2. n - k \in 1 .. n /\ n - k > n - H
    BY <1>2, <2>1
  <2>3. ASSUME NEW i \in 1 .. n - H PROVE d[i] # d[n - k]
    <3>1. i \in 1 .. n /\ i # n - k
      BY <1>2, <2>2
    <3> QED BY <1>3, <2>2, <3>1 DEF IsInjective
  <2> QED BY <1>3, <1>6, <2>1, <2>2, <2>3 DEF Range
<1>10. ASSUME NEW p \in Seats, NEW q \in Seats, p # q
       PROVE  hands[p] \cap hands[q] = {}
  <2> SUFFICES ASSUME NEW c \in hands[p], c \in hands[q] PROVE FALSE
    OBVIOUS
  <2>1. PICK j \in 0 .. H - 1 : c = d[n - j] /\ j % N = p
    BY <1>7
  <2>2. PICK k \in 0 .. H - 1 : c = d[n - k] /\ k % N = q
    BY <1>7
  <2>3. n - j \in 1 .. n /\ n - k \in 1 .. n
    BY <1>2
  <2>4. n - j = n - k
    BY <1>3, <2>1, <2>2, <2>3 DEF IsInjective
  <2>5. j = k
    BY <1>2, <2>4
  <2> QED BY <1>10, <2>1, <2>2, <2>5
<1>11. InHands(hands) \cup Range(deck) = Deck
  <2>1. ASSUME NEW c \in Deck PROVE c \in InHands(hands) \cup Range(deck)
    <3>1. PICK i \in 1 .. n : d[i] = c
      BY <1>3 DEF Range
    <3>2. CASE i \in 1 .. n - H
      BY <1>6, <3>1, <3>2 DEF Range
    <3>3. CASE i \in n - H + 1 .. n
      BY <1>8, <3>1, <3>3 DEF InHands
    <3> QED BY <1>2, <3>2, <3>3
  <2>2. Range(deck) \subseteq Deck
    BY <1>2, <1>3, <1>6 DEF Range
  <2> QED BY <1>9, <2>1, <2>2 DEF InHands
<1>12. InHands(hands) \cap Range(deck) = {}
  BY <1>9 DEF InHands
<1>13. IsInjective(deck)
  BY <1>2, <1>3, <1>6 DEF IsInjective
<1>14. TableCards(table) = {} /\ LaidOnce(table)
  BY <1>5, EmptyTable
<1> QED BY <1>5, <1>10, <1>11, <1>12, <1>13, <1>14 DEF CardsConserved, Conserved

(* The engine never loses or doubles a card: whatever is thrown, beaten,    *)
(* translated, taken, swept, refilled or called out, in every order, each   *)
(* card of the deck lies in exactly one place.                              *)
THEOREM Conservation == Spec => []CardsConserved
<1>1. Init => CardsConserved
  BY InitKeeps
<1>2. TypeOK /\ CardsConserved /\ [Next]_vars => CardsConserved'
  BY NextKeeps
<1> QED BY <1>1, <1>2, TypeCorrect, PTL DEF Spec

-----------------------------------------------------------------------------
(* The engine implements BoutProtocol. *)

(* The roles belong to two players who are still in, and the phase agrees *)
(* with the table as far as the guards of the commands depend on it.      *)
RolesInPlay ==
  InPlay => attacker # defender /\ attacker \notin Out(place) /\ defender \notin Out(place)

PhaseFits ==
  /\ status = "bout_attack" => table = <<>>
  /\ status = "bout_settle" => Unbeaten(table) = {}
  /\ status \in {"bout_defense", "bout_settle", "bout_take_pending"} => table # <<>>

RefInv == TypeOK /\ RolesInPlay /\ PhaseFits

-----------------------------------------------------------------------------
(* Somebody else is in: the next player in is somebody else, and in. *)
LEMMA NextActiveIsIn ==
  ASSUME NEW pl, NEW from \in Seats, NEW q \in Seats, q \notin Out(pl), q # from
  PROVE  /\ nextActivePlayerIndex(pl, from) \in Seats
         /\ nextActivePlayerIndex(pl, from) \notin Out(pl)
         /\ nextActivePlayerIndex(pl, from) # from
<1> DEFINE steps == {s \in 1 .. N : Seat(from, s) \notin Out(pl)}
           d == SeatsAfter(from, q)
<1>1. d \in 1 .. N - 1 /\ Seat(from, d) = q
  <2>1. d \in 0 .. N - 1 /\ Seat(from, d) = q /\ d # 0
    BY SeatAtDistance
  <2> QED BY <2>1, PlayersAssumption
<1>2. d \in steps /\ steps \in SUBSET Nat
  BY <1>1, PlayersAssumption
<1>3. Min(steps) \in steps /\ Min(steps) <= d
  BY <1>2, MinOfNaturals
<1>4. nextActivePlayerIndex(pl, from) = Seat(from, Min(steps))
  BY <1>2 DEF nextActivePlayerIndex
<1>5. Min(steps) \in 1 .. N - 1
  BY <1>1, <1>3, PlayersAssumption
<1> HIDE DEF d
<1>6. Seat(from, Min(steps)) \notin Out(pl)
  BY <1>3
<1> HIDE DEF steps
<1>7. Seat(from, Min(steps)) \in Seats /\ Seat(from, Min(steps)) # from
  BY <1>5, PlayersAssumption DEF Seat, Seats
<1> QED BY <1>4, <1>6, <1>7

LEMMA SomebodyElse ==
  ASSUME NEW O, Cardinality(Seats \ O) > 1, NEW from
  PROVE  \E q \in Seats : q \notin O /\ q # from
<1>1. IsFiniteSet({from}) /\ Cardinality({from}) = 1
  BY FS_Singleton
<1>2. CASE Seats \ O \in SUBSET {from}
  <2>1. Cardinality(Seats \ O) <= 1 /\ Cardinality(Seats \ O) \in Nat
    BY <1>1, <1>2, FS_Subset, FS_CardinalityType
  <2> QED BY <2>1
<1>3. CASE ~(Seats \ O \in SUBSET {from})
  BY <1>3
<1> QED BY <1>2, <1>3

LEMMA AtMostOneIn ==
  ASSUME NEW O, Cardinality(Seats \ O) <= 1
  PROVE  \A p, q \in Seats \ O : p = q
<1> SUFFICES ASSUME NEW p \in Seats \ O, NEW q \in Seats \ O, p # q
             PROVE  FALSE
  OBVIOUS
<1>1. IsFiniteSet(Seats \ O)
  BY SeatsFinite, FS_Subset
<1>2. IsFiniteSet({p}) /\ Cardinality({p}) = 1
  BY FS_Singleton
<1>3. IsFiniteSet({p} \cup {q}) /\ Cardinality({p} \cup {q}) = 2
  BY SMTT(15), <1>2, FS_AddElement
<1>4. Cardinality({p} \cup {q}) <= Cardinality(Seats \ O)
  BY <1>1, FS_Subset
<1>5. Cardinality(Seats \ O) \in Nat
  BY <1>1, FS_CardinalityType
<1> QED BY <1>3, <1>4, <1>5

(* A new bout gives the roles to two players who are in. *)
LEMMA NewBoutRoles ==
  ASSUME NEW pl, NEW h, NEW first \in Seats, startNewBout(pl, h, first),
         first \notin Out(pl)
  PROVE  /\ status' = "bout_attack"
         /\ attacker' \in Seats \ Out(pl)
         /\ defender' \in Seats \ (Out(pl) \cup {attacker'})
<1>1. Cardinality(Seats \ Out(pl)) > 1 /\ status' = "bout_attack" /\ attacker' = first
      /\ defender' = nextActivePlayerIndex(pl, first)
  BY DEF startNewBout
<1>2. PICK q \in Seats : q \notin Out(pl) /\ q # first
  BY <1>1, SomebodyElse
<1> QED BY <1>1, <1>2, NextActiveIsIn

(* Whoever is out stays out. *)
LEMMA OutStaysOut ==
  ASSUME TypeOK, NEW h, NEW d
  PROVE  Out(place) \subseteq Out(markFinishedPlayers(h, d))
<1> DEFINE new == IF d = <<>> THEN {p \in Seats : ~Finished(p) /\ h[p] = {}} ELSE {}
<1>1. \A p \in Out(place) : p \in Seats /\ p \notin new /\ place[p] > 0
  BY DEF Out, Finished
<1>2. \A p \in Seats : p \notin new => markFinishedPlayers(h, d)[p] = place[p]
  BY DEF markFinishedPlayers
<1> HIDE DEF new
<1> QED BY <1>1, <1>2 DEF Out

(* Both closings are the protocol's Closed, and keep the invariant. *)
LEMMA CloseRefines ==
  ASSUME RefInv, NEW h, NEW t, NEW lock, closeBoutBeaten(h, t, lock) \/ closeBoutTaken(h, t, lock)
  PROVE  Protocol!Closed /\ RolesInPlay' /\ PhaseFits'
<1>0. defender \in Seats /\ TypeOK
  BY DEF RefInv, TypeOK
<1>1. ASSUME NEW pl, Out(place) \subseteq Out(pl), place' = pl, table' = <<>>, passed' = {},
             NEW h1, NEW first \in Seats,
             EndGame(pl, lock) \/ startNewBout(pl, h1, first),
             Cardinality(Seats \ Out(pl)) > 1 => first \notin Out(pl)
      PROVE  Protocol!Closed /\ RolesInPlay' /\ PhaseFits'
  <2>0. Out(pl) \in SUBSET Seats /\ Out(place)' = Out(pl)
    BY <1>1 DEF Out
  <2>1. CASE EndGame(pl, lock)
    <3>1. /\ Cardinality(Seats \ Out(pl)) <= 1 /\ status' = "game_over"
          /\ attacker' = attacker /\ defender' = defender
      BY <2>1 DEF EndGame
    <3>2. Protocol!Closed
      <4> DEFINE gone == Out(pl)
      <4>1. /\ gone \in SUBSET Seats /\ Out(place) \subseteq gone
            /\ Out(place)' = gone /\ passed' = {}
            /\ \A p, q \in Seats \ gone : p = q
            /\ status' = "game_over"
            /\ attacker' = attacker /\ defender' = defender
        BY <1>1, <2>0, <3>1, AtMostOneIn
      <4> HIDE DEF gone
      <4> QED BY <4>1 DEF Protocol!Closed
    <3> QED BY <3>1, <3>2 DEF RolesInPlay, PhaseFits, InPlay
  <2>2. CASE startNewBout(pl, h1, first)
    <3>1. /\ status' = "bout_attack"
          /\ attacker' \in Seats \ Out(pl)
          /\ defender' \in Seats \ (Out(pl) \cup {attacker'})
      <4>1. Cardinality(Seats \ Out(pl)) > 1
        BY <2>2 DEF startNewBout
      <4> QED BY <1>1, <2>2, <4>1, NewBoutRoles
    <3>2. Protocol!Closed
      <4> DEFINE gone == Out(pl)
      <4>1. /\ gone \in SUBSET Seats /\ Out(place) \subseteq gone
            /\ Out(place)' = gone /\ passed' = {}
            /\ status' = "bout_attack" /\ attacker' \in Seats \ gone
            /\ defender' \in Seats \ (gone \cup {attacker'})
        BY <1>1, <2>0, <3>1
      <4> HIDE DEF gone
      <4> QED BY <4>1 DEF Protocol!Closed
    <3>3. RolesInPlay'
      BY <2>0, <3>1 DEF RolesInPlay
    <3> QED BY <1>1, <3>1, <3>2, <3>3 DEF PhaseFits
  <2> QED BY <1>1, <2>1, <2>2
<1>2. ASSUME NEW pl, Cardinality(Seats \ Out(pl)) > 1
      PROVE  nextActivePlayerIndex(pl, defender) \in Seats \ Out(pl)
  <2>1. PICK q \in Seats : q \notin Out(pl) /\ q # defender
    BY <1>2, SomebodyElse
  <2> QED BY <1>0, <2>1, NextActiveIsIn
<1>3. CASE closeBoutBeaten(h, t, lock)
  <2> DEFINE drawers == {p \in Seats : ~Finished(p)}
             h1 == refillHands(h, drawers)
             pl == markFinishedPlayers(h1, refillDeck(h, drawers))
             first == IF pl[defender] > 0 THEN nextActivePlayerIndex(pl, defender) ELSE defender
  <2>1. /\ place' = pl /\ table' = <<>> /\ passed' = {}
        /\ EndGame(pl, lock) \/ startNewBout(pl, h1, first)
    BY <1>3 DEF closeBoutBeaten
  <2>2. Out(place) \subseteq Out(pl)
    BY <1>0, OutStaysOut
  <2> HIDE DEF pl, h1
  <2>3. first \in Seats /\ (Cardinality(Seats \ Out(pl)) > 1 => first \notin Out(pl))
    BY <1>0, <1>2, NextActiveType DEF Out
  <2> HIDE DEF first
  <2> QED BY <1>1, <2>1, <2>2, <2>3
<1>4. CASE closeBoutTaken(h, t, lock)
  <2> DEFINE drawers == {p \in Seats : ~Finished(p)} \ {defender}
             h0 == [h EXCEPT ![defender] = @ \cup TableCards(t)]
             h1 == refillHands(h0, drawers)
             pl == markFinishedPlayers(h1, refillDeck(h0, drawers))
             first == nextActivePlayerIndex(pl, defender)
  <2>1. /\ place' = pl /\ table' = <<>> /\ passed' = {}
        /\ EndGame(pl, lock) \/ startNewBout(pl, h1, first)
    BY <1>4 DEF closeBoutTaken
  <2>2. Out(place) \subseteq Out(pl)
    BY <1>0, OutStaysOut
  <2> HIDE DEF pl, h1
  <2>3. first \in Seats /\ (Cardinality(Seats \ Out(pl)) > 1 => first \notin Out(pl))
    BY <1>0, <1>2, NextActiveType
  <2> HIDE DEF first
  <2> QED BY <1>1, <2>1, <2>2, <2>3
<1> QED BY <1>3, <1>4

-----------------------------------------------------------------------------
(***************************************************************************)
(* Every command is a move of the protocol, or none it can see.            *)
(***************************************************************************)
Kept == RolesInPlay' /\ PhaseFits'

LEMMA ThrownNotEmpty ==
  ASSUME TypeOK, NEW p \in Seats, NEW c \in hands[p]
  PROVE  Append(table, NewEntry(p, c)) # <<>>
<1>1. table \in Seq(Entry) /\ NewEntry(p, c) \in Entry
  <2>1. c \in Deck
    BY PlayType
  <2> QED BY <2>1 DEF TypeOK, NewEntry, Entry
<1>2. Len(Append(table, NewEntry(p, c))) = Len(table) + 1 /\ Len(table) \in Nat
  BY <1>1
<1> SUFFICES ASSUME Append(table, NewEntry(p, c)) = <<>> PROVE FALSE
  OBVIOUS
<1>3. Len(Append(table, NewEntry(p, c))) = 0
  OBVIOUS
<1> QED BY <1>2, <1>3

LEMMA AttackRefines ==
  ASSUME RefInv, NEW p \in Seats, NEW c \in hands[p], Attack(p, c)
  PROVE  Protocol!Throw(p) /\ Kept
<1> DEFINE h == [hands EXCEPT ![p] = @ \ {c}]
           t == Append(table, NewEntry(p, c))
<1>1. /\ p \in Seats \ (Out(place) \cup {defender}) /\ status # "game_over"
      /\ status = "bout_attack" => p = attacker
  BY DEF Attack, canThrow, baseCanThrow, Finished, Out, RefInv, PhaseFits
<1>2. CASE /\ status = "bout_take_pending"
           /\ closeBoutTaken(h, t, exclusiveLockReleased)
  <2>1. Protocol!Closed /\ RolesInPlay' /\ PhaseFits'
    BY <1>2, CloseRefines
  <2> QED BY <1>1, <1>2, <2>1 DEF Protocol!Throw, Protocol!Throwers, Kept
<1>3. CASE /\ table' = t /\ passed' = {}
           /\ \/ status' = "bout_defense"
              \/ status = "bout_take_pending" /\ status' = "bout_take_pending"
           /\ attacker' = attacker /\ defender' = defender /\ place' = place
  <2>1. t # <<>>
    BY ThrownNotEmpty DEF RefInv
  <2>2. RolesInPlay' /\ PhaseFits'
    BY <1>1, <1>3, <2>1 DEF RefInv, RolesInPlay, PhaseFits, InPlay
  <2> QED BY <1>1, <1>3, <2>2 DEF Protocol!Throw, Protocol!Throwers, Protocol!Phase, Kept
<1> HIDE DEF h, t
<1>4. \/ /\ status = "bout_take_pending" /\ closeBoutTaken(h, t, exclusiveLockReleased)
      \/ /\ table' = t /\ passed' = {}
         /\ \/ status' = "bout_defense"
            \/ status = "bout_take_pending" /\ status' = "bout_take_pending"
         /\ attacker' = attacker /\ defender' = defender /\ place' = place
  BY DEF Attack, roleVars, resultVars, h, t
<1> QED BY <1>2, <1>3, <1>4

LEMMA BeatRefines ==
  ASSUME RefInv, NEW i \in DOMAIN table, NEW c \in hands[defender], Beat(i, c)
  PROVE  Protocol!Beat(defender) /\ Kept
<1> DEFINE h == [hands EXCEPT ![defender] = @ \ {c}]
           t == [table EXCEPT ![i].beatenBy = c]
<1>1. status = "bout_defense" /\ t # <<>>
  BY DEF Beat, RefInv, TypeOK
<1>2. CASE closeBoutBeaten(h, t, exclusiveLockReleased)
  <2>1. Protocol!Closed /\ RolesInPlay' /\ PhaseFits'
    BY <1>2, CloseRefines
  <2> QED BY <1>1, <2>1 DEF Protocol!Beat, Kept
<1>3. CASE /\ table' = t /\ passed' = {}
           /\ \/ status' = "bout_defense"
              \/ status' = "bout_settle" /\ Unbeaten(t) = {}
           /\ attacker' = attacker /\ defender' = defender /\ place' = place
  <2>1. RolesInPlay' /\ PhaseFits'
    BY <1>1, <1>3 DEF RefInv, RolesInPlay, PhaseFits, InPlay
  <2> QED BY <1>1, <1>3, <2>1 DEF Protocol!Beat, Protocol!Phase, Kept
<1> HIDE DEF h, t
<1>4. \/ closeBoutBeaten(h, t, exclusiveLockReleased)
      \/ /\ table' = t /\ passed' = {}
         /\ \/ status' = "bout_defense"
            \/ status' = "bout_settle" /\ Unbeaten(t) = {}
         /\ attacker' = attacker /\ defender' = defender /\ place' = place
  BY DEF Beat, roleVars, resultVars, tableFullyBeaten, h, t
<1> QED BY <1>2, <1>3, <1>4

LEMMA TranslateRefines ==
  ASSUME RefInv, NEW c \in hands[defender], Translate(c)
  PROVE  Protocol!Translate(defender) /\ Kept
<1> DEFINE t == Append(table, NewEntry(defender, c))
           next == nextActivePlayerIndex(place, defender)
<1>1. /\ table \in Seq(Entry) /\ t # <<>> /\ status \in Phases
      /\ defender \in Seats /\ attacker \in Seats
  BY ThrownNotEmpty DEF RefInv, TypeOK
<1>2. /\ status \notin {"game_over", "bout_take_pending"} /\ table # <<>> /\ Beaten(table) = {}
      /\ table' = t /\ attacker' = defender /\ defender' = next
      /\ passed' = {} /\ status' = "bout_defense" /\ place' = place
  BY DEF Translate, canTranslate, resultVars
<1>3. status # "bout_settle"
  <2>1. Len(table) \in Nat \ {0} /\ 1 \in DOMAIN table
    BY <1>1, <1>2
  <2>2. Unbeaten(table) # {}
    BY <1>2, <2>1 DEF Beaten, Unbeaten
  <2> QED BY <2>2 DEF RefInv, PhaseFits
<1>4. status = "bout_defense"
  BY <1>1, <1>2, <1>3 DEF RefInv, PhaseFits, Phases
<1>5. attacker # defender /\ attacker \notin Out(place) /\ defender \notin Out(place)
  BY <1>2 DEF RefInv, RolesInPlay, InPlay
<1>6. next \in Seats /\ next \notin Out(place) /\ next # defender
  BY <1>1, <1>5, NextActiveIsIn
<1> HIDE DEF next, t
<1>7. RolesInPlay' /\ PhaseFits'
  BY <1>1, <1>2, <1>5, <1>6 DEF RolesInPlay, PhaseFits
<1> QED BY <1>2, <1>4, <1>6, <1>7 DEF Protocol!Translate, Protocol!Throwers, Kept

LEMMA TakeRefines ==
  ASSUME RefInv, Take
  PROVE  Protocol!Take(defender) /\ Kept
<1>1. status \in {"bout_defense", "bout_settle"} /\ table # <<>>
  BY DEF Take
<1>2. CASE closeBoutTaken(hands, table, exclusiveLockReleased)
  <2>1. Protocol!Closed /\ RolesInPlay' /\ PhaseFits'
    BY <1>2, CloseRefines
  <2> QED BY <1>1, <2>1 DEF Protocol!Take, Protocol!MayTake, Kept
<1>3. CASE /\ passed' = {} /\ status' = "bout_take_pending" /\ table' = table
           /\ attacker' = attacker /\ defender' = defender /\ place' = place
  <2>1. RolesInPlay' /\ PhaseFits'
    BY <1>1, <1>3 DEF RefInv, RolesInPlay, PhaseFits, InPlay
  <2> QED BY <1>1, <1>3, <2>1 DEF Protocol!Take, Protocol!MayTake, Protocol!Phase, Kept
<1> QED BY <1>2, <1>3 DEF Take, cardVars, roleVars, resultVars

LEMMA PassRefines ==
  ASSUME RefInv, NEW p \in Seats, Pass(p)
  PROVE  Protocol!Pass(p) /\ Kept
<1> DEFINE released == exclusiveLockReleased \/ (ExclusiveThrowIn /\ p = attacker)
           throwers == Seats \ (Out(place) \cup {defender})
<1>1. status \in {"bout_settle", "bout_take_pending"} /\ p \in throwers \ passed
  BY DEF Pass, baseCanThrow, Finished, Out
<1>2. Eligible \subseteq throwers
  BY DEF Eligible, baseCanThrow, Finished, Out
<1>3. CASE closeBoutBeaten(hands, table, released) \/ closeBoutTaken(hands, table, released)
  <2> HIDE DEF released
  <2>1. Protocol!Closed /\ RolesInPlay' /\ PhaseFits'
    BY <1>3, CloseRefines
  <2> QED BY <1>1, <2>1 DEF Protocol!Pass, Protocol!MayPass, Protocol!Throwers, Kept
<1>4. CASE /\ ~(Eligible \subseteq passed \cup {p}) /\ passed' = passed \cup {p}
           /\ status' = status /\ table' = table
           /\ attacker' = attacker /\ defender' = defender /\ place' = place
  <2>1. ~(throwers \subseteq passed \cup {p})
    BY <1>2, <1>4
  <2>2. RolesInPlay' /\ PhaseFits'
    BY <1>1, <1>4 DEF RefInv, RolesInPlay, PhaseFits, InPlay
  <2> QED BY <1>1, <1>4, <2>1, <2>2 DEF Protocol!Pass, Protocol!MayPass, Protocol!Throwers, Protocol!Phase, Kept
<1> QED BY <1>3, <1>4 DEF Pass, cardVars, roleVars, resultVars

LEMMA NoticeRefines ==
  ASSUME RefInv, NEW p \in Seats, NEW i \in DOMAIN table, NoticeBeat(p, i) \/ NoticeAttack(p, i)
  PROVE  Protocol!NoticeCheat(p) /\ Kept
<1>1. table \in Seq(Entry) /\ status \in Phases /\ table # <<>>
  BY DEF RefInv, TypeOK
<1>2. p \in Seats \ Out(place) /\ status # "game_over"
  BY DEF NoticeBeat, NoticeAttack, canNotice, Finished, Out
<1>3. status \in {"bout_defense", "bout_settle", "bout_take_pending"}
  BY <1>1, <1>2 DEF RefInv, PhaseFits, Phases
<1>4. ASSUME NEW cheater, NEW c, NEW t, t # <<>>, CardReturned(cheater, c, t)
      PROVE  Protocol!NoticeCheat(p) /\ Kept
  <2>1. /\ status' = PhaseAfterCatch(t) /\ table' = t /\ passed' = passed
        /\ attacker' = attacker /\ defender' = defender /\ place' = place
    BY <1>4 DEF CardReturned, roleVars, resultVars
  <2>2. \/ status = "bout_take_pending" /\ status' = "bout_take_pending"
        \/ /\ status \in {"bout_defense", "bout_settle"}
           /\ status' = "bout_defense" \/ (status' = "bout_settle" /\ Unbeaten(t) = {})
    BY <1>3, <1>4, <2>1 DEF PhaseAfterCatch
  <2>3. RolesInPlay' /\ PhaseFits'
    BY <1>2, <1>4, <2>1, <2>2 DEF RefInv, RolesInPlay, PhaseFits, InPlay
  <2> QED BY <1>2, <2>1, <2>2, <2>3 DEF Protocol!NoticeCheat, Protocol!Phase, Kept
<1>5. CASE NoticeBeat(p, i)
  <2> DEFINE t == [table EXCEPT ![i].beatenBy = NoCard]
  <2>1. t # <<>>
    BY <1>1
  <2>2. CardReturned(defender, table[i].beatenBy, t)
    BY <1>5 DEF NoticeBeat
  <2> HIDE DEF t
  <2> QED BY <1>4, <2>1, <2>2
<1>6. CASE NoticeAttack(p, i)
  <2> DEFINE t == RemoveAt(table, i)
  <2>1. CardReturned(table[i].by, table[i].card, t) /\ i > 1
    BY <1>6 DEF NoticeAttack, FakeThrow
  <2>2. t # <<>>
    <3>1. i \in 1 .. Len(table) /\ Len(table) \in Nat
      BY <1>1
    <3>2. SubSeq(table, 1, i - 1) \in Seq(Entry) /\ Len(SubSeq(table, 1, i - 1)) = i - 1
      BY <1>1, <2>1, <3>1
    <3>3. SubSeq(table, i + 1, Len(table)) \in Seq(Entry)
      BY <1>1, <3>1
    <3> HIDE <1>1
    <3> QED BY <2>1, <3>1, <3>2, <3>3 DEF RemoveAt
  <2> HIDE DEF t
  <2> QED BY <1>4, <2>1, <2>2
<1> QED BY <1>5, <1>6

LEMMA NextRefines ==
  ASSUME RefInv, [Next]_vars
  PROVE  [Protocol!Next]_(Protocol!gameVars) /\ Kept
<1>0. defender \in Seats
  BY DEF RefInv, TypeOK
<1>1. ASSUME NEW p \in Seats, NEW c \in hands[p], Attack(p, c)
      PROVE  Protocol!Next /\ Kept
  BY <1>1, AttackRefines DEF Protocol!Next, Protocol!Move
<1>2. ASSUME NEW i \in DOMAIN table, NEW c \in hands[defender], Beat(i, c)
      PROVE  Protocol!Next /\ Kept
  BY <1>0, <1>2, BeatRefines DEF Protocol!Next, Protocol!Move
<1>3. ASSUME NEW c \in hands[defender], Translate(c)
      PROVE  Protocol!Next /\ Kept
  BY <1>0, <1>3, TranslateRefines DEF Protocol!Next, Protocol!Move
<1>4. CASE Take
  BY <1>0, <1>4, TakeRefines DEF Protocol!Next, Protocol!Move
<1>5. ASSUME NEW p \in Seats, Pass(p)
      PROVE  Protocol!Next /\ Kept
  BY <1>5, PassRefines DEF Protocol!Next, Protocol!Move
<1>6. ASSUME NEW p \in Seats, NEW i \in DOMAIN table, NoticeBeat(p, i) \/ NoticeAttack(p, i)
      PROVE  Protocol!Next /\ Kept
  BY <1>6, NoticeRefines DEF Protocol!Next, Protocol!Move
<1>7. CASE UNCHANGED vars
  BY <1>7 DEF vars, Protocol!gameVars, Kept, RefInv, RolesInPlay, PhaseFits, InPlay
<1> QED BY <1>1, <1>2, <1>3, <1>4, <1>5, <1>6, <1>7 DEF Next, GameOver

LEMMA InitRefines == Init => Protocol!Init /\ RolesInPlay /\ PhaseFits
<1> SUFFICES ASSUME Init PROVE Protocol!Init /\ RolesInPlay /\ PhaseFits
  OBVIOUS
<1>1. /\ attacker \in Seats /\ defender = Seat(attacker, 1)
      /\ status = "bout_attack" /\ passed = {} /\ table = <<>>
      /\ place = [p \in Seats |-> 0]
  BY InitType DEF Init, TypeOK
<1>2. defender \in Seats /\ defender # attacker
  BY <1>1, PlayersAssumption DEF Seat, Seats
<1>3. Out(place) = {}
  BY <1>1 DEF Out
<1> QED BY <1>1, <1>2, <1>3 DEF Protocol!Init, RolesInPlay, PhaseFits

(* The engine implements the protocol the service, its turn timer and its   *)
(* pause rely on: seen through status, roles, passes and finished players,  *)
(* every command is one of the protocol's moves.                            *)
THEOREM Refinement == Spec => ImplementsBoutProtocol
<1>1. Init => Protocol!Init /\ RolesInPlay /\ PhaseFits
  BY InitRefines
<1>2. TypeOK /\ RolesInPlay /\ PhaseFits /\ [Next]_vars
        => [Protocol!Next]_(Protocol!gameVars) /\ RolesInPlay' /\ PhaseFits'
  BY NextRefines DEF RefInv, Kept
<1> QED BY <1>1, <1>2, TypeCorrect, PTL DEF Spec, ImplementsBoutProtocol, Protocol!Spec

=============================================================================
