----------------------------- MODULE DurakPlay ------------------------------
(***************************************************************************)
(* A bout from its opening to its end, for every number of players, deck   *)
(* and choice of settings, cheating included: the defender can answer,     *)
(* somebody can move, the flags that outlive a bout or a pass tell what    *)
(* happened, the roles rotate by the rules, a bout without cheats ends,    *)
(* and places and durak are right; between bouts nobody is short of cards; *)
(* the book of cheats says who cheated where, and the page offers the      *)
(* moves the engine accepts.                                               *)
(***************************************************************************)
EXTENDS DurakEngineProofs, CheatBook, GamePage

(* The cards the defender still holds make up, with those already spent on  *)
(* beats, at least the hand the bout started with, and no more attacks lie  *)
(* than that hand had cards.                                                *)
HandCovers ==
  InPlay => /\ Len(table) <= initialDefenderHandSize
            /\ initialDefenderHandSize <= Cardinality(hands[defender]) + Cardinality(Beaten(table))

AnswerInv == RefInv /\ CardsConserved /\ HandCovers

-----------------------------------------------------------------------------
(* Every entry is beaten or open. *)
LEMMA EntriesCounted ==
  ASSUME NEW t \in Seq(Entry)
  PROVE  /\ IsFiniteSet(Beaten(t)) /\ Cardinality(Beaten(t)) \in Nat
         /\ Cardinality(Unbeaten(t)) = Len(t) - Cardinality(Beaten(t))
<1>1. IsFiniteSet(DOMAIN t) /\ Cardinality(DOMAIN t) = Len(t)
  <2>1. DOMAIN t = 1 .. Len(t) /\ Len(t) \in Nat
    OBVIOUS
  <2> QED BY <2>1, FS_Interval
<1>2. Beaten(t) \in SUBSET DOMAIN t /\ Unbeaten(t) = DOMAIN t \ Beaten(t)
  BY DEF Beaten, Unbeaten
<1>3. DOMAIN t \cap Beaten(t) = Beaten(t)
  BY <1>2
<1>4. IsFiniteSet(Beaten(t)) /\ Cardinality(Beaten(t)) \in Nat
  BY <1>1, <1>2, FS_Subset, FS_CardinalityType
<1>5. Cardinality(DOMAIN t \ Beaten(t)) = Cardinality(DOMAIN t) - Cardinality(DOMAIN t \cap Beaten(t))
  BY <1>1, FS_Difference
<1> QED BY <1>1, <1>2, <1>3, <1>4, <1>5

LEMMA NothingBeaten == Beaten(<<>>) = {} /\ Len(<<>>) = 0 /\ Cardinality(Beaten(<<>>)) = 0
BY FS_EmptySet DEF Beaten

(* A new bout starts with the defender's whole hand against an empty table. *)
LEMMA CloseAnswers ==
  ASSUME TypeOK', NEW h, NEW t, NEW lock,
         closeBoutBeaten(h, t, lock) \/ closeBoutTaken(h, t, lock)
  PROVE  HandCovers'
<1>1. /\ table' = <<>>
      /\ status' = "game_over" \/ initialDefenderHandSize' = Cardinality(hands'[defender'])
  BY DEF closeBoutBeaten, closeBoutTaken, EndGame, startNewBout
<1>2. Cardinality(hands'[defender']) \in Nat
  BY HandsFinite DEF TypeOK
<1> QED BY <1>1, <1>2, NothingBeaten DEF HandCovers, InPlay

(* One card can still be thrown: the table is smaller than the defender's    *)
(* first hand.                                                               *)
LEMMA RoomLeft ==
  ASSUME TypeOK, attacksRemaining(table) > 0
  PROVE  Len(table) + 1 <= initialDefenderHandSize
<1> DEFINE caps == {limit(firstDefenseHappened, initialDefenderHandSize), initialDefenderHandSize}
<1>1. Len(table) \in Nat /\ initialDefenderHandSize \in Nat
  BY DEF TypeOK
<1>2. caps \in SUBSET Nat /\ caps # {}
  BY <1>1, SettingsAssumption DEF limit
<1>3. Min(caps) \in Nat /\ Min(caps) <= initialDefenderHandSize
  BY <1>2, MinOfNaturals
<1>4. Min(caps) > Len(table)
  <2> HIDE DEF caps
  <2> QED BY <1>1, <1>3 DEF attacksRemaining, caps
<1> HIDE DEF caps
<1> QED BY <1>1, <1>3, <1>4

(* A new entry is open. *)
LEMMA ThrowIsOpen ==
  ASSUME NEW t \in Seq(Entry), NEW p \in Seats, NEW c \in Deck
  PROVE  LET t1 == Append(t, NewEntry(p, c))
         IN  Beaten(t1) = Beaten(t) /\ Len(t1) = Len(t) + 1
<1> DEFINE t1 == Append(t, NewEntry(p, c))
<1>1. NewEntry(p, c) \in Entry /\ NewEntry(p, c).beatenBy = NoCard
  BY DEF NewEntry, Entry
<1>2. /\ Len(t) \in Nat /\ Len(t1) = Len(t) + 1 /\ DOMAIN t1 = 1 .. Len(t) + 1
      /\ \A j \in 1 .. Len(t) : t1[j] = t[j]
      /\ t1[Len(t) + 1] = NewEntry(p, c) /\ DOMAIN t = 1 .. Len(t)
  <2> HIDE <1>1
  <2>1. t1 \in Seq(Entry)
    BY <1>1
  <2> QED BY <1>1
<1> HIDE DEF t1
<1>3. Beaten(t1) = Beaten(t)
  BY <1>1, <1>2 DEF Beaten
<1> QED BY <1>2, <1>3 DEF t1

(* Lifting an open entry keeps the others beaten. *)
LEMMA LiftKeepsBeats ==
  ASSUME NEW t \in Seq(Entry), NEW i \in Unbeaten(t)
  PROVE  LET t1 == RemoveAt(t, i)
         IN  Len(t1) <= Len(t) /\ Cardinality(Beaten(t)) <= Cardinality(Beaten(t1))
<1> DEFINE t1 == RemoveAt(t, i)
           n == Len(t)
<1>1. /\ i \in DOMAIN t /\ DOMAIN t = 1 .. n /\ n \in Nat
      /\ t1 \in Seq(Entry) /\ DOMAIN t1 = 1 .. n - 1
      /\ \A j \in 1 .. n - 1 : t1[j] = t[IF j < i THEN j ELSE j + 1]
  BY EntryRemoved DEF Unbeaten
<1>2. t[i].beatenBy = NoCard
  BY DEF Unbeaten
<1>3. Len(t1) <= n
  <2> HIDE DEF t1, n
  <2>1. DOMAIN t1 = 1 .. Len(t1) /\ Len(t1) \in Nat
    BY <1>1
  <2>2. n \in 1 .. n /\ (n \in 1 .. Len(t1) => n \in 1 .. n - 1)
    BY <1>1, <2>1
  <2> QED BY <1>1, <2>1, <2>2
<1> HIDE DEF t1, n
<1> DEFINE f == [j \in Beaten(t) |-> IF j < i THEN j ELSE j - 1]
<1>4. ASSUME NEW j \in Beaten(t)
      PROVE  f[j] \in Beaten(t1)
  <2>1. j \in 1 .. n /\ j # i /\ t[j].beatenBy # NoCard /\ i \in 1 .. n
    BY <1>1, <1>2 DEF Beaten
  <2>2. CASE j < i
    BY <1>1, <2>1, <2>2 DEF Beaten
  <2>3. CASE j > i
    <3>1. j - 1 \in 1 .. n - 1 /\ ~(j - 1 < i) /\ (j - 1) + 1 = j
      BY <1>1, <2>1, <2>3
    <3>2. t1[j - 1] = t[j]
      BY <1>1, <3>1
    <3> QED BY <1>1, <2>1, <2>3, <3>1, <3>2 DEF Beaten
  <2> QED BY <1>1, <2>1, <2>2, <2>3
<1>5. ASSUME NEW j \in Beaten(t), NEW k \in Beaten(t), f[j] = f[k]
      PROVE  j = k
  <2>1. j \in 1 .. n /\ j # i /\ k \in 1 .. n /\ k # i /\ i \in 1 .. n
    BY <1>1, <1>2 DEF Beaten
  <2> QED BY <1>1, <1>5, <2>1
<1>6. f \in Injection(Beaten(t), Beaten(t1))
  <2> HIDE DEF f
  <2>1. f \in [Beaten(t) -> Beaten(t1)]
    <3>1. f = [j \in Beaten(t) |-> f[j]]
      BY DEF f
    <3> QED BY <1>4, <3>1
  <2> QED BY <1>5, <2>1 DEF Injection, IsInjective
<1>7. IsFiniteSet(Beaten(t1))
  BY <1>1, EntriesCounted
<1> HIDE DEF f
<1> QED BY <1>3, <1>6, <1>7, FS_Injection DEF t1, n

-----------------------------------------------------------------------------
LEMMA AttackAnswers ==
  ASSUME AnswerInv, TypeOK', NEW p \in Seats, NEW c \in hands[p], Attack(p, c)
  PROVE  HandCovers'
<1> DEFINE h == [hands EXCEPT ![p] = @ \ {c}]
           t == Append(table, NewEntry(p, c))
<1>1. /\ TypeOK /\ HandCovers /\ status # "game_over" /\ p # defender
      /\ attacksRemaining(table) > 0
  BY DEF AnswerInv, RefInv, Attack, canThrow, baseCanThrow
<1>2. CASE closeBoutTaken(h, t, exclusiveLockReleased)
  BY <1>2, CloseAnswers
<1>3. CASE hands' = h /\ table' = t /\ UNCHANGED roleVars
  <2>1. Len(table) + 1 <= initialDefenderHandSize
    BY <1>1, RoomLeft
  <2>2. Beaten(t) = Beaten(table) /\ Len(t) = Len(table) + 1
    BY <1>1, PlayType, ThrowIsOpen DEF TypeOK
  <2>3. h[defender] = hands[defender]
    BY <1>1 DEF TypeOK
  <2> HIDE DEF h, t
  <2> QED BY <1>1, <1>3, <2>1, <2>2, <2>3 DEF HandCovers, InPlay, roleVars
<1> QED BY <1>2, <1>3 DEF Attack

LEMMA BeatAnswers ==
  ASSUME AnswerInv, TypeOK', NEW i \in DOMAIN table, NEW c \in hands[defender], Beat(i, c)
  PROVE  HandCovers'
<1> DEFINE h == [hands EXCEPT ![defender] = @ \ {c}]
           t == [table EXCEPT ![i].beatenBy = c]
<1>1. /\ TypeOK /\ HandCovers /\ status # "game_over" /\ i \in Unbeaten(table)
      /\ table \in Seq(Entry) /\ hands[defender] \in SUBSET Deck /\ c \in Deck
  BY DEF AnswerInv, RefInv, Beat, TypeOK
<1>2. CASE closeBoutBeaten(h, t, exclusiveLockReleased)
  BY <1>2, CloseAnswers
<1>3. CASE hands' = h /\ table' = t /\ UNCHANGED roleVars
  <2>1. Beaten(t) = Beaten(table) \cup {i} /\ i \notin Beaten(table)
    <3>1. /\ DOMAIN t = DOMAIN table /\ t[i].beatenBy = c
          /\ \A j \in DOMAIN table : j # i => t[j].beatenBy = table[j].beatenBy
      BY <1>1, EntryCovered
    <3> HIDE DEF t
    <3> QED BY <1>1, <3>1, DeckAssumption DEF Beaten, Unbeaten
  <2>2. Cardinality(Beaten(t)) = Cardinality(Beaten(table)) + 1
    BY <1>1, <2>1, EntriesCounted, FS_AddElement
  <2>3. h[defender] = hands[defender] \ {c}
    BY <1>1 DEF TypeOK
  <2>4. Cardinality(h[defender]) = Cardinality(hands[defender]) - 1
    BY <1>1, <2>3, HandsFinite, FS_RemoveElement
  <2>5. Len(t) = Len(table)
    BY <1>1
  <2>6. /\ Cardinality(hands[defender]) \in Nat /\ Cardinality(Beaten(table)) \in Nat
        /\ initialDefenderHandSize \in Nat
    BY <1>1, HandsFinite, EntriesCounted DEF TypeOK
  <2> HIDE DEF h, t
  <2> QED BY <1>1, <1>3, <2>2, <2>4, <2>5, <2>6 DEF HandCovers, InPlay, roleVars
<1> QED BY <1>2, <1>3 DEF Beat

LEMMA TranslateAnswers ==
  ASSUME AnswerInv, NEW c \in hands[defender], Translate(c)
  PROVE  HandCovers'
<1> DEFINE h == [hands EXCEPT ![defender] = @ \ {c}]
           t == Append(table, NewEntry(defender, c))
           next == nextActivePlayerIndex(place, defender)
<1>1. /\ TypeOK /\ InPlay /\ attacker # defender /\ attacker \notin Out(place)
      /\ attacker \in Seats /\ defender \in Seats /\ table \in Seq(Entry) /\ c \in Deck
  BY DEF AnswerInv, RefInv, RolesInPlay, Translate, InPlay, TypeOK
<1>2. next \in Seats /\ next # defender
  BY <1>1, NextActiveIsIn
<1>3. /\ hands' = h /\ table' = t /\ defender' = next
      /\ initialDefenderHandSize' = Cardinality(h[next])
      /\ Cardinality(hands[next]) >= Len(table) + 1
  BY DEF Translate, canTranslate
<1>4. Len(t) = Len(table) + 1 /\ t \in Seq(Entry)
  BY <1>1, ThrowIsOpen, PlayType
<1> HIDE DEF next
<1>5. h[next] = hands[next]
  BY <1>1, <1>2 DEF TypeOK
<1>6. Cardinality(hands[next]) \in Nat /\ Cardinality(Beaten(t)) \in Nat
  BY <1>1, <1>2, <1>4, HandsFinite, EntriesCounted DEF TypeOK
<1> HIDE DEF h, t
<1> QED BY <1>3, <1>4, <1>5, <1>6 DEF HandCovers

LEMMA NoticeAnswers ==
  ASSUME AnswerInv, NEW p \in Seats, NEW i \in DOMAIN table,
         NoticeBeat(p, i) \/ NoticeAttack(p, i)
  PROVE  HandCovers'
<1>1. /\ TypeOK /\ HandCovers /\ InPlay /\ CardsConserved
      /\ table \in Seq(Entry) /\ hands \in [Seats -> SUBSET Deck] /\ defender \in Seats
      /\ initialDefenderHandSize \in Nat
  BY DEF AnswerInv, RefInv, NoticeBeat, NoticeAttack, InPlay, TypeOK
<1>2. /\ Cardinality(hands[defender]) \in Nat /\ IsFiniteSet(hands[defender])
      /\ IsFiniteSet(Beaten(table)) /\ Cardinality(Beaten(table)) \in Nat
  BY <1>1, HandsFinite, EntriesCounted
<1>3. CASE NoticeBeat(p, i)
  <2> DEFINE c == table[i].beatenBy
             t == [table EXCEPT ![i].beatenBy = NoCard]
  <2>1. /\ i \in Beaten(table) /\ table' = t /\ UNCHANGED roleVars
        /\ hands' = [hands EXCEPT ![defender] = @ \cup {c}]
    BY <1>3 DEF NoticeBeat, FakeBeat, CardReturned
  <2>2. c \in TableCards(table)
    BY <2>1 DEF TableCards
  <2>3. c \notin hands[defender]
    BY <1>1, <2>2 DEF CardsConserved, Conserved, InHands
  <2>4. Cardinality(hands'[defender]) = Cardinality(hands[defender]) + 1
    <3>1. hands'[defender] = hands[defender] \cup {c}
      BY <1>1, <2>1
    <3> HIDE DEF c
    <3> QED BY <1>2, <2>3, <3>1, FS_AddElement
  <2>5. Beaten(t) = Beaten(table) \ {i} /\ Len(t) = Len(table)
    <3>1. /\ DOMAIN t = DOMAIN table /\ t[i].beatenBy = NoCard
          /\ \A j \in DOMAIN table : j # i => t[j].beatenBy = table[j].beatenBy
      BY <1>1, EntryCovered
    <3>2. Len(t) = Len(table)
      BY <1>1
    <3> HIDE DEF t
    <3> QED BY <3>1, <3>2 DEF Beaten
  <2>6. Cardinality(Beaten(t)) = Cardinality(Beaten(table)) - 1
    BY <1>2, <2>1, <2>5, FS_RemoveElement
  <2> HIDE DEF c, t
  <2> QED BY <1>1, <1>2, <2>1, <2>4, <2>5, <2>6 DEF HandCovers, roleVars
<1>4. CASE NoticeAttack(p, i)
  <2> DEFINE t == RemoveAt(table, i)
             cheater == table[i].by
             c == table[i].card
  <2>1. /\ i \in Unbeaten(table) /\ table' = t /\ UNCHANGED roleVars
        /\ hands' = [hands EXCEPT ![cheater] = @ \cup {c}]
    BY <1>4 DEF NoticeAttack, FakeThrow, CardReturned
  <2>2. Len(t) <= Len(table) /\ Cardinality(Beaten(table)) <= Cardinality(Beaten(t))
    BY <1>1, <2>1, LiftKeepsBeats
  <2>3. t \in Seq(Entry)
    BY <1>1, EntryRemoved
  <2>4. Cardinality(Beaten(t)) \in Nat /\ Len(t) \in Nat /\ Len(table) \in Nat
    BY <1>1, <2>3, EntriesCounted
  <2> HIDE DEF t, cheater, c
  <2>5. hands'[defender] = hands[defender] \/ hands'[defender] = hands[defender] \cup {c}
    BY <1>1, <2>1
  <2>6. /\ Cardinality(hands'[defender]) \in Nat
        /\ Cardinality(hands[defender]) <= Cardinality(hands'[defender])
    <3>1. /\ IsFiniteSet(hands[defender] \cup {c})
          /\ Cardinality(hands[defender] \cup {c}) \in
               {Cardinality(hands[defender]), Cardinality(hands[defender]) + 1}
      BY <1>2, FS_AddElement
    <3>2. /\ Cardinality(hands[defender] \cup {c}) \in Nat
          /\ Cardinality(hands[defender]) <= Cardinality(hands[defender] \cup {c})
      BY <1>2, <3>1
    <3>3. CASE hands'[defender] = hands[defender]
      BY <1>2, <3>3
    <3>4. CASE hands'[defender] = hands[defender] \cup {c}
      BY <3>2, <3>4
    <3> QED BY <2>5, <3>3, <3>4
  <2> QED BY <1>1, <1>2, <2>1, <2>2, <2>4, <2>6 DEF HandCovers, roleVars
<1> QED BY <1>3, <1>4

LEMMA NextAnswers ==
  ASSUME AnswerInv, TypeOK', [Next]_vars
  PROVE  HandCovers'
<1>0. TypeOK /\ HandCovers
  BY DEF AnswerInv, RefInv
<1>1. ASSUME NEW p \in Seats, NEW c \in hands[p], Attack(p, c) PROVE HandCovers'
  BY <1>1, AttackAnswers
<1>2. ASSUME NEW i \in DOMAIN table, NEW c \in hands[defender], Beat(i, c) PROVE HandCovers'
  BY <1>2, BeatAnswers
<1>3. ASSUME NEW c \in hands[defender], Translate(c) PROVE HandCovers'
  BY <1>3, TranslateAnswers
<1>4. CASE Take
  <2>1. CASE closeBoutTaken(hands, table, exclusiveLockReleased)
    BY <2>1, CloseAnswers
  <2>2. CASE UNCHANGED <<cardVars, roleVars>>
    BY <1>0, <1>4, <2>2 DEF Take, HandCovers, InPlay, cardVars, roleVars
  <2> QED BY <1>4, <2>1, <2>2 DEF Take
<1>5. ASSUME NEW p \in Seats, Pass(p) PROVE HandCovers'
  <2>1. ASSUME NEW lock, closeBoutBeaten(hands, table, lock) \/ closeBoutTaken(hands, table, lock)
        PROVE  HandCovers'
    BY <2>1, CloseAnswers
  <2>2. CASE UNCHANGED <<cardVars, status, roleVars>>
    BY <1>0, <2>2 DEF HandCovers, InPlay, cardVars, roleVars
  <2> QED BY <1>5, <2>1, <2>2 DEF Pass
<1>6. ASSUME NEW p \in Seats, NEW i \in DOMAIN table, NoticeBeat(p, i) \/ NoticeAttack(p, i)
      PROVE  HandCovers'
  BY <1>6, NoticeAnswers
<1>7. CASE UNCHANGED vars
  BY <1>0, <1>7 DEF HandCovers, InPlay, vars
<1> QED BY <1>1, <1>2, <1>3, <1>4, <1>5, <1>6, <1>7 DEF Next, GameOver

LEMMA InitAnswers == Init => HandCovers
<1> SUFFICES ASSUME Init PROVE HandCovers
  OBVIOUS
<1>1. TypeOK /\ table = <<>> /\ initialDefenderHandSize = Cardinality(hands[defender])
  BY InitType DEF Init
<1>2. Cardinality(hands[defender]) \in Nat
  BY <1>1, HandsFinite DEF TypeOK
<1> QED BY <1>1, <1>2, NothingBeaten DEF HandCovers

(* However the throws, translates, beats and rolled-back cheats interleave,  *)
(* the throw-in cap (attacksRemaining, canTranslate) leaves the defender a   *)
(* card for every open attack.                                               *)
THEOREM Answerable == Spec => []DefenderCanAnswer
<1>1. Init => RolesInPlay /\ PhaseFits /\ HandCovers
  BY InitRefines, InitAnswers
<1>2. /\ TypeOK /\ RolesInPlay /\ PhaseFits /\ CardsConserved /\ HandCovers
      /\ TypeOK' /\ [Next]_vars
      => RolesInPlay' /\ PhaseFits' /\ HandCovers'
  BY NextRefines, NextAnswers DEF AnswerInv, RefInv, Kept
<1>3. TypeOK /\ HandCovers => DefenderCanAnswer
  <2> SUFFICES ASSUME TypeOK, HandCovers PROVE DefenderCanAnswer
    OBVIOUS
  <2>1. /\ Cardinality(Unbeaten(table)) = Len(table) - Cardinality(Beaten(table))
        /\ Cardinality(Beaten(table)) \in Nat /\ Len(table) \in Nat
    BY EntriesCounted DEF TypeOK
  <2>2. Cardinality(hands[defender]) \in Nat /\ initialDefenderHandSize \in Nat
    BY HandsFinite DEF TypeOK
  <2> QED BY <2>1, <2>2 DEF HandCovers, DefenderCanAnswer
<1> QED BY <1>1, <1>2, <1>3, TypeCorrect, Conservation, PTL DEF Spec

-----------------------------------------------------------------------------
(***************************************************************************)
(* Somebody can move.                                                      *)
(***************************************************************************)

(* Whoever is in holds cards when a bout opens, and the defender had some. *)
CanOpen ==
  status = "bout_attack" =>
    /\ \A p \in Seats \ Out(place) : hands[p] # {}
    /\ initialDefenderHandSize > 0

(* The passes never are complete: the last one closes the bout. *)
PassAwaited == InPlay => attacker \notin passed \/ ~(Eligible \subseteq passed)

MoveInv == RefInv /\ CanOpen /\ PassAwaited

LEMMA SomeCards ==
  ASSUME NEW S \in SUBSET Deck, S # {}
  PROVE  Cardinality(S) \in Nat /\ Cardinality(S) > 0
BY HandsFinite, FS_EmptySet

(* Who draws from a pile that is not exhausted by it ends with cards. *)
LEMMA DrawersHold ==
  ASSUME TypeOK, NEW h \in HandsType, NEW drawers \in SUBSET Seats, NEW p \in drawers,
         refillDeck(h, drawers) # <<>>
  PROVE  refillHands(h, drawers)[p] # {}
<1> DEFINE S == Slots(h, drawers)
           n == Cardinality(S)
           L == Len(deck)
<1>1. L \in Nat /\ n \in Nat /\ p \in Seats
  BY SlotsFinite DEF TypeOK
<1>2. n < L
  <2> HIDE DEF n, L
  <2> SUFFICES ASSUME ~(n < L) PROVE FALSE
    OBVIOUS
  <2>1. refillDeck(h, drawers) = SubSeq(deck, 1, 0)
    BY DEF refillDeck, n, L
  <2> QED BY <2>1 DEF TypeOK
<1>3. CASE h[p] # {}
  BY <1>1, <1>3 DEF refillHands
<1>4. CASE h[p] = {}
  <2> DEFINE s == <<p, 1>>
             k == Cardinality(SlotsBefore(h, drawers, s))
  <2>1. s \in S /\ s[1] = p
    <3>1. 1 \in 1 .. HandSize /\ Cardinality({}) = 0
      BY FS_EmptySet, SettingsAssumption
    <3>2. s \in drawers \X (1 .. HandSize) /\ s[1] = p /\ s[2] = 1
      BY <3>1
    <3> HIDE DEF s
    <3>3. s[2] > Cardinality(h[s[1]])
      <4>1. Cardinality(h[s[1]]) = 0
        BY <1>4, <3>1, <3>2
      <4> QED BY <3>2, <4>1
    <3> QED BY <3>2, <3>3 DEF Slots
  <2>2. k \in 0 .. n - 1
    BY <2>1, SlotRank
  <2> HIDE DEF n, L, k
  <2>3. k \in 0 .. L - 1
    BY <1>1, <1>2, <2>2
  <2>4. deck[L - k] \in Drawn(h, drawers, p)
    BY <2>1, <2>3 DEF Drawn, L, k
  <2> QED BY <1>1, <2>4 DEF refillHands
<1> QED BY <1>3, <1>4

(* After a refill whoever is in holds cards. *)
LEMMA InHoldCards ==
  ASSUME TypeOK, NEW h \in HandsType, NEW drawers \in SUBSET Seats,
         \A p \in Seats \ drawers : Finished(p) \/ h[p] # {}
  PROVE  LET h1 == refillHands(h, drawers)
             pl == markFinishedPlayers(h1, refillDeck(h, drawers))
         IN  \A p \in Seats \ Out(pl) : h1[p] # {}
<1> DEFINE h1 == refillHands(h, drawers)
           d1 == refillDeck(h, drawers)
           pl == markFinishedPlayers(h1, d1)
           new == IF d1 = <<>> THEN {p \in Seats : ~Finished(p) /\ h1[p] = {}} ELSE {}
<1> SUFFICES ASSUME NEW p \in Seats, p \notin Out(pl), h1[p] = {} PROVE FALSE
  OBVIOUS
<1>1. ~Finished(p)
  BY OutStaysOut DEF Finished, Out
<1>2. h[p] = {}
  BY DEF refillHands
<1>3. p \in drawers
  BY <1>1, <1>2
<1>4. d1 = <<>>
  BY <1>3, DrawersHold
<1>5. p \in new
  BY <1>1, <1>4
<1>6. pl[p] > 0
  <2> DEFINE ahead == {q \in new : q <= p}
  <2>1. ahead \in SUBSET Seats /\ p \in ahead
    BY <1>5, PlayersAssumption DEF Seats
  <2> HIDE DEF ahead
  <2>2. Cardinality(ahead) \in Nat /\ Cardinality(ahead) # 0
    <3>1. IsFiniteSet(ahead)
      BY <2>1, SeatsFinite, FS_Subset
    <3> QED BY <2>1, <3>1, FS_EmptySet, FS_CardinalityType
  <2>3. Cardinality(Out(place)) \in Nat
    BY SeatsFinite, FS_Subset, FS_CardinalityType DEF Out
  <2>4. pl[p] = Cardinality(Out(place)) + Cardinality(ahead)
    <3> HIDE DEF h1, d1
    <3> QED BY <1>5 DEF markFinishedPlayers, ahead
  <2> HIDE DEF pl
  <2> QED BY <2>2, <2>3, <2>4
<1> QED BY <1>6 DEF Out

(* What lies on a table that is not empty are cards of the deck. *)
LEMMA LaidCards ==
  ASSUME NEW t \in Seq(Entry), t # <<>>
  PROVE  TableCards(t) \in SUBSET Deck /\ TableCards(t) # {}
<1>1. 1 \in DOMAIN t /\ \A i \in DOMAIN t : t[i] \in Entry
  OBVIOUS
<1>2. \A i \in DOMAIN t : t[i].card \in Deck /\ t[i].beatenBy \in Deck \cup {NoCard}
  BY <1>1 DEF Entry
<1>3. TableCards(t) \in SUBSET Deck
  BY <1>2 DEF TableCards, Beaten
<1>4. t[1].card \in TableCards(t)
  BY <1>1 DEF TableCards
<1> QED BY <1>3, <1>4

LEMMA CloseMoves ==
  ASSUME MoveInv, RefInv', NEW h \in HandsType, NEW t \in Seq(Entry), t # <<>>, NEW lock,
         closeBoutBeaten(h, t, lock) \/ closeBoutTaken(h, t, lock)
  PROVE  CanOpen' /\ PassAwaited'
<1>1. TypeOK /\ TypeOK' /\ RolesInPlay' /\ defender \in Seats
  BY DEF MoveInv, RefInv, TypeOK
<1>2. PassAwaited'
  BY DEF closeBoutBeaten, closeBoutTaken, PassAwaited
<1>3. ASSUME status' = "bout_attack", \A p \in Seats \ Out(place') : hands'[p] # {},
             initialDefenderHandSize' = Cardinality(hands'[defender'])
      PROVE  CanOpen'
  <2>1. defender' \in Seats \ Out(place') /\ hands'[defender'] \in SUBSET Deck
    BY <1>1, <1>3 DEF RolesInPlay, InPlay, TypeOK, Out
  <2>2. initialDefenderHandSize' > 0
    BY <1>3, <2>1, SomeCards
  <2> QED BY <1>3, <2>2 DEF CanOpen, Out
<1>4. CASE closeBoutBeaten(h, t, lock)
  <2> DEFINE drawers == {p \in Seats : ~Finished(p)}
             h1 == refillHands(h, drawers)
             d1 == refillDeck(h, drawers)
             pl == markFinishedPlayers(h1, d1)
  <2>1. /\ hands' = h1 /\ place' = pl
        /\ \/ status' = "game_over"
           \/ status' = "bout_attack" /\ initialDefenderHandSize' = Cardinality(h1[defender'])
    BY <1>4 DEF closeBoutBeaten, EndGame, startNewBout
  <2>2. \A p \in Seats \ Out(pl) : h1[p] # {}
    BY <1>1, InHoldCards
  <2> HIDE DEF h1, pl
  <2> QED BY <1>2, <1>3, <2>1, <2>2 DEF CanOpen
<1>5. CASE closeBoutTaken(h, t, lock)
  <2> DEFINE drawers == {p \in Seats : ~Finished(p)} \ {defender}
             h0 == [h EXCEPT ![defender] = @ \cup TableCards(t)]
             h1 == refillHands(h0, drawers)
             d1 == refillDeck(h0, drawers)
             pl == markFinishedPlayers(h1, d1)
  <2>1. /\ hands' = h1 /\ place' = pl
        /\ \/ status' = "game_over"
           \/ status' = "bout_attack" /\ initialDefenderHandSize' = Cardinality(h1[defender'])
    BY <1>5 DEF closeBoutTaken, EndGame, startNewBout
  <2>2. TableCards(t) \in SUBSET Deck /\ TableCards(t) # {}
    BY LaidCards
  <2>3. h0 \in HandsType /\ h0[defender] # {}
    BY <1>1, <2>2 DEF HandsType
  <2> HIDE DEF h0
  <2>4. \A p \in Seats \ Out(pl) : h1[p] # {}
    BY <1>1, <2>3, InHoldCards
  <2> HIDE DEF h1, pl
  <2> QED BY <1>2, <1>3, <2>1, <2>4 DEF CanOpen
<1> QED BY <1>4, <1>5

LEMMA NextMoves ==
  ASSUME MoveInv, RefInv', [Next]_vars
  PROVE  CanOpen' /\ PassAwaited'
<1>0. /\ TypeOK /\ TypeOK' /\ RolesInPlay /\ PhaseFits /\ CanOpen /\ PassAwaited
      /\ defender \in Seats /\ attacker \in Seats
      /\ hands \in [Seats -> SUBSET Deck] /\ hands \in HandsType /\ table \in Seq(Entry)
  BY DEF MoveInv, RefInv, TypeOK, HandsType
<1>1. ASSUME NEW p \in Seats, NEW c \in hands[p], Attack(p, c) PROVE CanOpen' /\ PassAwaited'
  <2> DEFINE h == [hands EXCEPT ![p] = @ \ {c}]
             t == Append(table, NewEntry(p, c))
  <2>1. CASE closeBoutTaken(h, t, exclusiveLockReleased)
    BY <1>0, <2>1, PlayType, ThrownNotEmpty, CloseMoves
  <2>2. CASE status' \in {"bout_take_pending", "bout_defense"} /\ passed' = {}
    BY <2>2 DEF CanOpen, PassAwaited
  <2> QED BY <1>1, <2>1, <2>2 DEF Attack
<1>2. ASSUME NEW i \in DOMAIN table, NEW c \in hands[defender], Beat(i, c)
      PROVE  CanOpen' /\ PassAwaited'
  <2> DEFINE h == [hands EXCEPT ![defender] = @ \ {c}]
             t == [table EXCEPT ![i].beatenBy = c]
  <2>1. CASE closeBoutBeaten(h, t, exclusiveLockReleased)
    <3>1. h \in HandsType /\ c \in Deck
      BY <1>0 DEF HandsType
    <3>2. t \in Seq(Entry) /\ t # <<>>
      <4>1. table[i] \in Entry
        BY <1>0
      <4>2. [table[i] EXCEPT !.beatenBy = c] \in Entry
        BY <3>1, <4>1 DEF Entry
      <4> QED BY <1>0, <4>2
    <3> HIDE DEF h, t
    <3> QED BY <2>1, <3>1, <3>2, CloseMoves
  <2>2. CASE status' \in {"bout_settle", "bout_defense"} /\ passed' = {}
    BY <2>2 DEF CanOpen, PassAwaited
  <2> QED BY <1>2, <2>1, <2>2 DEF Beat
<1>3. ASSUME NEW c \in hands[defender], Translate(c) PROVE CanOpen' /\ PassAwaited'
  BY <1>3 DEF Translate, CanOpen, PassAwaited
<1>4. CASE Take
  <2>1. CASE closeBoutTaken(hands, table, exclusiveLockReleased)
    BY <1>0, <1>4, <2>1, CloseMoves DEF Take
  <2>2. CASE status' = "bout_take_pending" /\ passed' = {}
    BY <2>2 DEF CanOpen, PassAwaited
  <2> QED BY <1>4, <2>1, <2>2 DEF Take
<1>5. ASSUME NEW p \in Seats, Pass(p) PROVE CanOpen' /\ PassAwaited'
  <2>1. status \in {"bout_settle", "bout_take_pending"} /\ table # <<>>
    BY <1>0, <1>5 DEF Pass, PhaseFits
  <2>2. ASSUME NEW lock, closeBoutBeaten(hands, table, lock) \/ closeBoutTaken(hands, table, lock)
        PROVE  CanOpen' /\ PassAwaited'
    BY <1>0, <2>1, <2>2, CloseMoves
  <2>3. CASE /\ ~(Eligible \subseteq passed \cup {p}) /\ passed' = passed \cup {p}
             /\ UNCHANGED <<cardVars, status, roleVars, resultVars>>
    BY <2>1, <2>3 DEF CanOpen, PassAwaited, Eligible, baseCanThrow, Finished,
                      cardVars, roleVars, resultVars
  <2> QED BY <1>5, <2>2, <2>3 DEF Pass
<1>6. ASSUME NEW p \in Seats, NEW i \in DOMAIN table, NoticeBeat(p, i) \/ NoticeAttack(p, i)
      PROVE  CanOpen' /\ PassAwaited'
  <2>1. PICK cheater, c, t :
          /\ hands' = [hands EXCEPT ![cheater] = @ \cup {c}]
          /\ UNCHANGED <<roleVars, resultVars, passed>> /\ InPlay
    BY <1>6 DEF NoticeBeat, NoticeAttack, CardReturned, InPlay
  <2>2. Eligible \subseteq Eligible'
    BY <1>0, <2>1 DEF Eligible, baseCanThrow, Finished, roleVars, resultVars
  <2>3. table' # <<>>
    <3>1. CASE NoticeBeat(p, i)
      BY <1>0, <3>1 DEF NoticeBeat, CardReturned
    <3>2. CASE NoticeAttack(p, i)
      <4>1. i > 1 /\ table' = RemoveAt(table, i)
        BY <3>2 DEF NoticeAttack, FakeThrow, CardReturned
      <4>2. 1 \in DOMAIN table'
        BY <1>0, <4>1, EntryRemoved
      <4> QED BY <4>2
    <3> QED BY <1>6, <3>1, <3>2
  <2>4. status' # "bout_attack"
    <3>1. CASE NoticeBeat(p, i)
      BY <2>3, <3>1 DEF NoticeBeat, CardReturned, PhaseAfterCatch
    <3>2. CASE NoticeAttack(p, i)
      BY <2>3, <3>2 DEF NoticeAttack, CardReturned, PhaseAfterCatch
    <3> QED BY <1>6, <3>1, <3>2
  <2> QED BY <1>0, <2>1, <2>2, <2>4 DEF CanOpen, PassAwaited, roleVars
<1>7. CASE UNCHANGED vars
  BY <1>0, <1>7 DEF CanOpen, PassAwaited, InPlay, Eligible, baseCanThrow, Finished, vars
<1> QED BY <1>1, <1>2, <1>3, <1>4, <1>5, <1>6, <1>7 DEF Next, GameOver

LEMMA InitMoves == Init => CanOpen /\ PassAwaited
<1> SUFFICES ASSUME Init PROVE CanOpen /\ PassAwaited
  OBVIOUS
<1>1. PICK order \in DeckOrders :
        LET d == TrumpToBottom(order)
        IN  /\ hands = [p \in Seats |-> DealtHand(d, p)]
            /\ initialDefenderHandSize = Cardinality(hands[defender])
            /\ passed = {}
  BY DEF Init
<1> DEFINE d == TrumpToBottom(order)
<1>2. TypeOK
  BY InitType
<1>3. ASSUME NEW p \in Seats PROVE hands[p] # {}
  <2>1. N <= N * HandSize /\ N * HandSize \in Nat
    BY PlayersAssumption, SettingsAssumption
  <2>2. p \in 0 .. N * HandSize - 1 /\ p % N = p
    BY <2>1, PlayersAssumption DEF Seats
  <2>3. d[Len(d) - p] \in DealtHand(d, p)
    <3> HIDE DEF d
    <3> QED BY <2>2 DEF DealtHand
  <2> QED BY <1>1, <2>3
<1>4. initialDefenderHandSize > 0
  BY <1>1, <1>2, <1>3, SomeCards DEF TypeOK
<1> QED BY <1>1, <1>3, <1>4 DEF CanOpen, PassAwaited

(* An empty table with a defender who holds cards has room for an attack. *)
LEMMA RoomToOpen ==
  ASSUME TypeOK, initialDefenderHandSize > 0, table = <<>>
  PROVE  attacksRemaining(table) > 0
<1> DEFINE caps == {limit(firstDefenseHappened, initialDefenderHandSize), initialDefenderHandSize}
<1>1. caps \in SUBSET Nat /\ caps # {} /\ \A x \in caps : x > 0
  BY SettingsAssumption DEF limit, TypeOK
<1>2. Min(caps) \in Nat /\ Min(caps) > 0
  BY <1>1, MinOfNaturals
<1>3. Len(table) = 0
  BY NothingBeaten
<1> HIDE DEF caps
<1> QED BY <1>2, <1>3 DEF attacksRemaining, caps

(* Whatever the players, the deck and the settings, whoever the phase waits  *)
(* for is in the game and has a move: the refill, the finishing places, the  *)
(* roles and the passes never leave a bout without one (reducers.ts,         *)
(* transitions.ts).                                                          *)
THEOREM SomebodyMoves == Spec => []SomebodyCanMove
<1>1. Init => RolesInPlay /\ PhaseFits /\ CanOpen /\ PassAwaited
  BY InitRefines, InitMoves
<1>2. TypeOK /\ RolesInPlay /\ PhaseFits /\ CanOpen /\ PassAwaited /\ TypeOK' /\ [Next]_vars
      => RolesInPlay' /\ PhaseFits' /\ CanOpen' /\ PassAwaited'
  BY NextRefines, NextMoves DEF MoveInv, RefInv, Kept
<1>3. TypeOK /\ RolesInPlay /\ PhaseFits /\ CanOpen /\ PassAwaited => SomebodyCanMove
  <2> SUFFICES ASSUME TypeOK, RolesInPlay, PhaseFits, CanOpen, PassAwaited
               PROVE  SomebodyCanMove
    OBVIOUS
  <2>1. attacker \in Seats /\ defender \in Seats
    BY DEF TypeOK
  <2>2. InPlay => attacker # defender /\ ~Finished(attacker) /\ ~Finished(defender)
    BY <2>1 DEF RolesInPlay, Finished, Out
  <2>3. status = "bout_attack" => hands[attacker] # {} /\ attacksRemaining(table) > 0
    BY <2>1, RoomToOpen DEF CanOpen, PhaseFits, RolesInPlay, InPlay
  <2>4. ASSUME status \in {"bout_settle", "bout_take_pending"}
        PROVE  \E p \in Seats : baseCanThrow(p) /\ p \notin passed
    <3>1. InPlay
      BY <2>4 DEF InPlay
    <3>2. CASE attacker \notin passed
      BY <2>1, <2>2, <3>1, <3>2 DEF baseCanThrow
    <3>3. CASE ~(Eligible \subseteq passed)
      BY <3>3 DEF Eligible
    <3> QED BY <3>1, <3>2, <3>3 DEF PassAwaited
  <2> QED BY <2>2, <2>3, <2>4 DEF SomebodyCanMove
<1> QED BY <1>1, <1>2, <1>3, TypeCorrect, PTL DEF Spec

-----------------------------------------------------------------------------
(***************************************************************************)
(* The phase fits the table.                                               *)
(***************************************************************************)

(* What PhaseFits leaves open. *)
PhaseTells ==
  /\ status = "bout_attack" => passed = {}
  /\ status = "bout_defense" => Unbeaten(table) # {}
  /\ status = "bout_settle" => CheatingEnabled

LEMMA CloseTells ==
  ASSUME NEW h, NEW t, NEW lock, closeBoutBeaten(h, t, lock) \/ closeBoutTaken(h, t, lock)
  PROVE  PhaseTells'
<1>1. passed' = {} /\ status' \in {"bout_attack", "game_over"}
  BY DEF closeBoutBeaten, closeBoutTaken, EndGame, startNewBout
<1> QED BY <1>1 DEF PhaseTells

(* A card just thrown is open. *)
LEMMA ThrownOpen ==
  ASSUME NEW t \in Seq(Entry), NEW p \in Seats, NEW c \in Deck
  PROVE  Unbeaten(Append(t, NewEntry(p, c))) # {}
<1> DEFINE t1 == Append(t, NewEntry(p, c))
<1>1. NewEntry(p, c) \in Entry /\ NewEntry(p, c).beatenBy = NoCard
  BY DEF NewEntry, Entry
<1>2. Len(t) + 1 \in DOMAIN t1 /\ t1[Len(t) + 1] = NewEntry(p, c)
  <2>1. Len(t) \in Nat /\ DOMAIN t1 = 1 .. Len(t) + 1 /\ t1[Len(t) + 1] = NewEntry(p, c)
    BY <1>1
  <2> QED BY <2>1
<1> HIDE DEF t1
<1> QED BY <1>1, <1>2 DEF Unbeaten, t1

LEMMA NextTells ==
  ASSUME RefInv, PhaseTells, [Next]_vars
  PROVE  PhaseTells'
<1>0. table \in Seq(Entry) /\ attacker \in Seats /\ defender \in Seats /\ TypeOK
  BY DEF RefInv, TypeOK
<1>1. ASSUME NEW p \in Seats, NEW c \in hands[p], Attack(p, c) PROVE PhaseTells'
  <2> DEFINE h == [hands EXCEPT ![p] = @ \ {c}]
             t == Append(table, NewEntry(p, c))
  <2>1. CASE closeBoutTaken(h, t, exclusiveLockReleased)
    <3> HIDE DEF h, t
    <3> QED BY <2>1, CloseTells
  <2>2. CASE table' = t /\ status' \in {"bout_take_pending", "bout_defense"}
    <3>1. Unbeaten(t) # {}
      BY <1>0, PlayType, ThrownOpen
    <3> HIDE DEF t
    <3> QED BY <2>2, <3>1 DEF PhaseTells
  <2> QED BY <1>1, <2>1, <2>2 DEF Attack
<1>2. ASSUME NEW i \in DOMAIN table, NEW c \in hands[defender], Beat(i, c) PROVE PhaseTells'
  <2> DEFINE h == [hands EXCEPT ![defender] = @ \ {c}]
             t == [table EXCEPT ![i].beatenBy = c]
  <2>1. CASE closeBoutBeaten(h, t, exclusiveLockReleased)
    <3> HIDE DEF h, t
    <3> QED BY <2>1, CloseTells
  <2>2. CASE /\ ~tableFullyBeaten(t) \/ CheatingEnabled
             /\ table' = t
             /\ status' = IF tableFullyBeaten(t) THEN "bout_settle" ELSE "bout_defense"
    <3>1. DOMAIN t = DOMAIN table /\ t # <<>>
      <4>1. DOMAIN t = DOMAIN table /\ i \in DOMAIN t
        BY <1>0, EntryCovered
      <4> HIDE DEF t
      <4> QED BY <4>1
    <3> HIDE DEF t
    <3>2. CASE tableFullyBeaten(t)
      BY <2>2, <3>2 DEF PhaseTells
    <3>3. CASE ~tableFullyBeaten(t)
      BY <2>2, <3>1, <3>3 DEF PhaseTells, tableFullyBeaten
    <3> QED BY <3>2, <3>3
  <2> HIDE DEF h, t
  <2>3. \/ closeBoutBeaten(h, t, exclusiveLockReleased)
        \/ /\ ~tableFullyBeaten(t) \/ CheatingEnabled
           /\ table' = t
           /\ status' = IF tableFullyBeaten(t) THEN "bout_settle" ELSE "bout_defense"
    BY <1>2 DEF Beat, h, t
  <2> QED BY <2>1, <2>2, <2>3
<1>3. ASSUME NEW c \in hands[defender], Translate(c) PROVE PhaseTells'
  <2> DEFINE t == Append(table, NewEntry(defender, c))
  <2>1. table' = t /\ status' = "bout_defense"
    BY <1>3 DEF Translate
  <2>2. Unbeaten(t) # {}
    BY <1>0, PlayType, ThrownOpen
  <2> HIDE DEF t
  <2> QED BY <2>1, <2>2 DEF PhaseTells
<1>4. CASE Take
  <2>1. CASE closeBoutTaken(hands, table, exclusiveLockReleased)
    BY <2>1, CloseTells
  <2>2. CASE status' = "bout_take_pending"
    BY <2>2 DEF PhaseTells
  <2> QED BY <1>4, <2>1, <2>2 DEF Take
<1>5. ASSUME NEW p \in Seats, Pass(p) PROVE PhaseTells'
  <2>1. ASSUME NEW lock, closeBoutBeaten(hands, table, lock) \/ closeBoutTaken(hands, table, lock)
        PROVE  PhaseTells'
    BY <2>1, CloseTells
  <2>2. CASE /\ status \in {"bout_settle", "bout_take_pending"}
             /\ UNCHANGED <<cardVars, status>>
    BY <2>2 DEF PhaseTells, cardVars
  <2> QED BY <1>5, <2>1, <2>2 DEF Pass
<1>6. ASSUME NEW p \in Seats, NEW i \in DOMAIN table, NoticeBeat(p, i) \/ NoticeAttack(p, i)
      PROVE  PhaseTells'
  <2>1. CheatingEnabled /\ status' # "bout_attack"
    BY <1>6, NoticeRefines DEF NoticeBeat, NoticeAttack, canNotice,
                               Protocol!NoticeCheat, Protocol!Phase
  <2>2. ASSUME NEW cheater, NEW c, NEW t, CardReturned(cheater, c, t)
        PROVE  PhaseTells'
    <3>1. status' = PhaseAfterCatch(t) /\ table' = t
      BY <2>2 DEF CardReturned
    <3> QED BY <2>1, <3>1 DEF PhaseTells, PhaseAfterCatch
  <2> QED BY <1>6, <2>2 DEF NoticeBeat, NoticeAttack
<1>7. CASE UNCHANGED vars
  BY <1>7 DEF PhaseTells, vars
<1> QED BY <1>1, <1>2, <1>3, <1>4, <1>5, <1>6, <1>7 DEF Next, GameOver

(* Whatever the settings, and whichever cheats are rolled back in the middle *)
(* of a beaten or abandoned bout, the phase shown to the clients fits the    *)
(* table and somebody can move in it (reducers.ts).                          *)
THEOREM PhasesAlive == Spec => []PhaseAlive
<1>1. Init => RolesInPlay /\ PhaseFits /\ PhaseTells
  BY InitRefines DEF Init, PhaseTells
<1>2. TypeOK /\ RolesInPlay /\ PhaseFits /\ PhaseTells /\ [Next]_vars
      => RolesInPlay' /\ PhaseFits' /\ PhaseTells'
  BY NextRefines, NextTells DEF RefInv, Kept
<1>3. PhaseFits /\ PhaseTells /\ SomebodyCanMove => PhaseAlive
  BY DEF PhaseFits, PhaseTells, PhaseAlive, PhaseMatchesTable, tableFullyBeaten
<1> QED BY <1>1, <1>2, <1>3, TypeCorrect, SomebodyMoves, PTL DEF Spec

-----------------------------------------------------------------------------
(***************************************************************************)
(* The flags, the rotation of the roles, the end of a bout, the result.    *)
(***************************************************************************)

(* A beaten table holds two cards per entry, all different. *)
LEMMA BeatenIsEven ==
  ASSUME NEW t \in Seq(Entry), LaidOnce(t), Unbeaten(t) = {}
  PROVE  /\ IsFiniteSet(TableCards(t))
         /\ Len(t) \in Nat /\ Cardinality(TableCards(t)) = Len(t) + Len(t)
<1> DEFINE D == DOMAIN t
           C == {t[i].card : i \in D}
           B == {t[i].beatenBy : i \in D}
           card == [i \in D |-> t[i].card]
           beat == [i \in D |-> t[i].beatenBy]
<1>1. IsFiniteSet(D) /\ Cardinality(D) = Len(t) /\ Len(t) \in Nat
  <2>1. D = 1 .. Len(t) /\ Len(t) \in Nat
    OBVIOUS
  <2> QED BY <2>1, FS_Interval
<1>2. TableCards(t) = C \cup B /\ \A i \in D : t[i].beatenBy # NoCard
  BY DEF TableCards, Beaten, Unbeaten
<1>3. card \in Bijection(D, C)
  BY DEF LaidOnce, Bijection, Injection, Surjection, IsInjective
<1>4. beat \in Bijection(D, B)
  BY <1>2 DEF LaidOnce, Bijection, Injection, Surjection, IsInjective
<1>5. C \cap B = {}
  BY DEF LaidOnce
<1> HIDE DEF D, C, B, card, beat
<1>6. IsFiniteSet(C) /\ Cardinality(C) = Len(t)
  BY <1>1, <1>3, FS_Bijection DEF ExistsBijection
<1>7. IsFiniteSet(B) /\ Cardinality(B) = Len(t)
  BY <1>1, <1>4, FS_Bijection DEF ExistsBijection
<1>8. Cardinality(C \cap B) = 0
  BY <1>5, FS_EmptySet
<1>9. IsFiniteSet(C \cup B) /\ Cardinality(C \cup B) = Cardinality(C) + Cardinality(B) - Cardinality(C \cap B)
  BY <1>6, <1>7, FS_Union
<1> QED BY <1>1, <1>2, <1>6, <1>7, <1>8, <1>9

(* A swept table keeps the pile even, and leaves cards in it. *)
LEMMA SweepIsEven ==
  ASSUME TypeOK, LatchMeansDefense, NEW h, NEW d, NEW t \in Seq(Entry), Conserved(h, d, t, discard),
         tableFullyBeaten(t)
  PROVE  /\ discard \cup TableCards(t) # {}
         /\ Cardinality(discard \cup TableCards(t)) % 2 = 0
<1>1. t # <<>> /\ Unbeaten(t) = {} /\ LaidOnce(t) /\ TableCards(t) \cap discard = {}
  BY DEF tableFullyBeaten, Conserved
<1>2. /\ IsFiniteSet(TableCards(t)) /\ Len(t) \in Nat
      /\ Cardinality(TableCards(t)) = Len(t) + Len(t)
  BY <1>1, BeatenIsEven
<1>3. IsFiniteSet(discard) /\ Cardinality(discard) \in Nat /\ Cardinality(discard) % 2 = 0
  BY HandsFinite DEF TypeOK, LatchMeansDefense
<1>4. /\ Cardinality(discard \cap TableCards(t)) = 0
      /\ Cardinality(discard \cup TableCards(t)) =
           Cardinality(discard) + Cardinality(TableCards(t)) - Cardinality(discard \cap TableCards(t))
  <2>1. discard \cap TableCards(t) = {}
    BY <1>1
  <2> QED BY <1>2, <1>3, <2>1, FS_Union, FS_EmptySet
<1>5. TableCards(t) # {}
  <2>1. 1 \in DOMAIN t
    BY <1>1
  <2> QED BY <2>1 DEF TableCards
<1>6. Cardinality(discard \cup TableCards(t)) = Cardinality(discard) + 2 * Len(t)
  BY <1>2, <1>3, <1>4
<1> QED BY <1>2, <1>3, <1>5, <1>6

LEMMA BeatenKeepsFlags ==
  ASSUME TypeOK, LatchMeansDefense, NEW h, NEW t \in Seq(Entry), NEW lock,
         Conserved(h, deck, t, discard), tableFullyBeaten(t), closeBoutBeaten(h, t, lock)
  PROVE  FlagsHold'
<1>1. discard' = discard \cup TableCards(t) /\ firstDefenseHappened' = TRUE /\ table' = <<>>
  BY DEF closeBoutBeaten
<1> QED BY <1>1, SweepIsEven DEF FlagsHold, LatchMeansDefense, ExclusiveLockHolds

LEMMA TakenKeepsFlags ==
  ASSUME LatchMeansDefense, NEW h, NEW t, NEW lock, closeBoutTaken(h, t, lock)
  PROVE  FlagsHold'
BY DEF closeBoutTaken, FlagsHold, LatchMeansDefense, ExclusiveLockHolds

-----------------------------------------------------------------------------
FlagInv == RefInv /\ CardsConserved /\ FlagsHold

LEMMA AttackKeepsFlags ==
  ASSUME FlagInv, NEW p \in Seats, NEW c \in hands[p], Attack(p, c)
  PROVE  FlagsHold'
<1> DEFINE h == [hands EXCEPT ![p] = @ \ {c}]
           t == Append(table, NewEntry(p, c))
<1>1. /\ TypeOK /\ LatchMeansDefense /\ canThrow(p) /\ status # "game_over"
      /\ attacker \notin Out(place) /\ attacker \in Seats /\ hands \in [Seats -> SUBSET Deck]
      /\ table \in Seq(Entry) /\ c \in Deck
  BY DEF FlagInv, RefInv, RolesInPlay, InPlay, FlagsHold, Attack, TypeOK
<1>2. CASE closeBoutTaken(h, t, exclusiveLockReleased)
  BY <1>1, <1>2, TakenKeepsFlags
<1>3. CASE /\ hands' = h /\ table' = t
           /\ UNCHANGED <<deck, discard, roleVars, resultVars, firstDefenseHappened,
                          exclusiveLockReleased, cheatAttemptsRemaining>>
  <2>1. ASSUME ExclusiveThrowIn, ~exclusiveLockReleased, h[attacker] # {}
        PROVE  p = attacker
    <3>1. hands[attacker] # {}
      BY <1>1, <2>1
    <3>2. ~Finished(attacker)
      BY <1>1 DEF Finished, Out
    <3> QED BY <1>1, <2>1, <3>1, <3>2 DEF canThrow
  <2>2. Last(t).by = p
    <3>1. NewEntry(p, c) \in Entry /\ NewEntry(p, c).by = p
      BY <1>1 DEF NewEntry, Entry
    <3>2. t[Len(t)] = NewEntry(p, c)
      BY <1>1, <3>1
    <3> QED BY <3>1, <3>2 DEF Last
  <2> HIDE DEF h, t
  <2>3. ExclusiveLockHolds'
    BY <1>3, <2>1, <2>2 DEF ExclusiveLockHolds, roleVars
  <2>4. LatchMeansDefense'
    BY <1>1, <1>3 DEF LatchMeansDefense
  <2> QED BY <2>3, <2>4 DEF FlagsHold
<1> QED BY <1>2, <1>3 DEF Attack

LEMMA BeatKeepsFlags ==
  ASSUME FlagInv, NEW i \in DOMAIN table, NEW c \in hands[defender], Beat(i, c)
  PROVE  FlagsHold'
<1> DEFINE h == [hands EXCEPT ![defender] = @ \ {c}]
           t == [table EXCEPT ![i].beatenBy = c]
<1>1. /\ TypeOK /\ CardsConserved /\ LatchMeansDefense /\ ExclusiveLockHolds
      /\ i \in Unbeaten(table) /\ attacker # defender
      /\ attacker \in Seats /\ hands \in [Seats -> SUBSET Deck]
      /\ table \in Seq(Entry) /\ c \in Deck
  BY DEF FlagInv, RefInv, RolesInPlay, InPlay, FlagsHold, Beat, TypeOK
<1>2. t \in Seq(Entry)
  <2>1. table[i] \in Entry
    BY <1>1
  <2>2. [table[i] EXCEPT !.beatenBy = c] \in Entry
    BY <1>1, <2>1 DEF Entry
  <2> QED BY <1>1, <2>2
<1>3. CASE tableFullyBeaten(t) /\ closeBoutBeaten(h, t, exclusiveLockReleased)
  <2>1. Conserved(h, deck, t, discard)
    BY <1>1, CoverKeeps
  <2> HIDE DEF h, t
  <2> QED BY <1>1, <1>2, <1>3, <2>1, BeatenKeepsFlags
<1>4. CASE /\ hands' = h /\ table' = t
           /\ UNCHANGED <<deck, discard, roleVars, resultVars, firstDefenseHappened,
                          exclusiveLockReleased, cheatAttemptsRemaining>>
  <2>1. Len(t) = Len(table) /\ h[attacker] = hands[attacker] /\ table # <<>>
    BY <1>1
  <2>2. Last(t).by = Last(table).by
    <3>1. Len(table) \in DOMAIN table /\ table[Len(table)] \in Entry
      BY <1>1, <2>1
    <3>2. t[Len(table)] = table[Len(table)]
            \/ t[Len(table)] = [table[Len(table)] EXCEPT !.beatenBy = c]
      BY <1>1, <3>1
    <3>3. t[Len(table)].by = table[Len(table)].by
      <4> HIDE DEF t
      <4> QED BY <3>1, <3>2 DEF Entry
    <3> HIDE DEF t
    <3> QED BY <2>1, <3>3 DEF Last
  <2> HIDE DEF h, t
  <2>3. ExclusiveLockHolds'
    BY <1>1, <1>4, <2>1, <2>2 DEF ExclusiveLockHolds, roleVars
  <2> QED BY <1>1, <1>4, <2>3 DEF FlagsHold, LatchMeansDefense
<1> QED BY <1>3, <1>4 DEF Beat

LEMMA TranslateKeepsFlags ==
  ASSUME FlagInv, NEW c \in hands[defender], Translate(c)
  PROVE  FlagsHold'
<1>1. LatchMeansDefense /\ table \in Seq(Entry) /\ c \in Deck /\ defender \in Seats
  BY DEF FlagInv, FlagsHold, RefInv, TypeOK
<1>2. /\ table' = Append(table, NewEntry(defender, c)) /\ attacker' = defender
      /\ UNCHANGED <<discard, firstDefenseHappened>>
  BY DEF Translate
<1>3. Last(table').by = attacker'
  <2>1. NewEntry(defender, c) \in Entry /\ NewEntry(defender, c).by = defender
    BY <1>1 DEF NewEntry, Entry
  <2>2. table'[Len(table')] = NewEntry(defender, c)
    BY <1>1, <1>2, <2>1
  <2> QED BY <1>2, <2>1, <2>2 DEF Last
<1> QED BY <1>1, <1>2, <1>3 DEF FlagsHold, LatchMeansDefense, ExclusiveLockHolds

LEMMA PassKeepsFlags ==
  ASSUME FlagInv, NEW p \in Seats, Pass(p)
  PROVE  FlagsHold'
<1> DEFINE released == exclusiveLockReleased \/ (ExclusiveThrowIn /\ p = attacker)
<1>1. /\ TypeOK /\ CardsConserved /\ LatchMeansDefense /\ ExclusiveLockHolds /\ PhaseFits
      /\ table \in Seq(Entry)
  BY DEF FlagInv, RefInv, FlagsHold, TypeOK
<1>2. CASE status = "bout_settle" /\ closeBoutBeaten(hands, table, released)
  <2>1. tableFullyBeaten(table)
    BY <1>1, <1>2 DEF PhaseFits, tableFullyBeaten
  <2> HIDE DEF released
  <2> QED BY <1>1, <1>2, <2>1, BeatenKeepsFlags DEF CardsConserved
<1>3. CASE closeBoutTaken(hands, table, released)
  BY <1>1, <1>3, TakenKeepsFlags
<1>4. CASE /\ exclusiveLockReleased' = released
           /\ UNCHANGED <<cardVars, status, roleVars, resultVars, firstDefenseHappened,
                          cheatAttemptsRemaining>>
  BY <1>1, <1>4 DEF FlagsHold, LatchMeansDefense, ExclusiveLockHolds, cardVars, roleVars
<1> QED BY <1>2, <1>3, <1>4 DEF Pass

LEMMA NextKeepsFlags ==
  ASSUME FlagInv, [Next]_vars
  PROVE  FlagsHold'
<1>0. LatchMeansDefense /\ ExclusiveLockHolds
  BY DEF FlagInv, FlagsHold
<1>1. ASSUME NEW p \in Seats, NEW c \in hands[p], Attack(p, c) PROVE FlagsHold'
  BY <1>1, AttackKeepsFlags
<1>2. ASSUME NEW i \in DOMAIN table, NEW c \in hands[defender], Beat(i, c) PROVE FlagsHold'
  BY <1>2, BeatKeepsFlags
<1>3. ASSUME NEW c \in hands[defender], Translate(c) PROVE FlagsHold'
  BY <1>3, TranslateKeepsFlags
<1>4. CASE Take
  <2>1. CASE closeBoutTaken(hands, table, exclusiveLockReleased)
    BY <1>0, <2>1, TakenKeepsFlags
  <2>2. CASE UNCHANGED <<cardVars, roleVars, resultVars, firstDefenseHappened,
                         exclusiveLockReleased, cheatAttemptsRemaining>>
    BY <1>0, <2>2 DEF FlagsHold, LatchMeansDefense, ExclusiveLockHolds, cardVars, roleVars
  <2> QED BY <1>4, <2>1, <2>2 DEF Take
<1>5. ASSUME NEW p \in Seats, Pass(p) PROVE FlagsHold'
  BY <1>5, PassKeepsFlags
<1>6. ASSUME NEW p \in Seats, NEW i \in DOMAIN table, NoticeBeat(p, i) \/ NoticeAttack(p, i)
      PROVE  FlagsHold'
  <2>1. CheatingEnabled /\ UNCHANGED <<discard, firstDefenseHappened>>
    BY <1>6 DEF NoticeBeat, NoticeAttack, canNotice, CardReturned
  <2> QED BY <1>0, <2>1 DEF FlagsHold, LatchMeansDefense, ExclusiveLockHolds
<1>7. CASE UNCHANGED vars
  BY <1>0, <1>7 DEF FlagsHold, LatchMeansDefense, ExclusiveLockHolds, vars
<1> QED BY <1>1, <1>2, <1>3, <1>4, <1>5, <1>6, <1>7 DEF Next, GameOver

LEMMA InitFlags == Init => FlagsHold
<1> SUFFICES ASSUME Init PROVE FlagsHold
  OBVIOUS
<1>1. discard = {} /\ table = <<>> /\ firstDefenseHappened = FALSE
  BY DEF Init
<1>2. Cardinality(discard) % 2 = 0
  BY <1>1, FS_EmptySet
<1> QED BY <1>1, <1>2 DEF FlagsHold, LatchMeansDefense, ExclusiveLockHolds

(* The first-defence latch (firstDefenseHappened) is set exactly when a bout *)
(* was swept, and the exclusive throw-in lock keeps everyone but the primary *)
(* attacker back until it is released.                                       *)
THEOREM FlagsCorrect == Spec => []FlagsHold
<1>1. Init => RolesInPlay /\ PhaseFits /\ FlagsHold
  BY InitRefines, InitFlags
<1>2. TypeOK /\ RolesInPlay /\ PhaseFits /\ CardsConserved /\ FlagsHold /\ [Next]_vars
      => RolesInPlay' /\ PhaseFits' /\ FlagsHold'
  BY NextRefines, NextKeepsFlags DEF FlagInv, RefInv, Kept
<1> QED BY <1>1, <1>2, TypeCorrect, Conservation, PTL DEF Spec

-----------------------------------------------------------------------------
(***************************************************************************)
(* The roles.                                                              *)
(***************************************************************************)
Rotation ==
  (attacker' # attacker \/ defender' # defender) =>
    /\ defender' = nextActivePlayerIndex(place', attacker')
    /\ IF discard' # discard
       THEN attacker' = (IF place'[defender] > 0 THEN nextActivePlayerIndex(place', defender)
                                                 ELSE defender)
       ELSE attacker' = (IF table' = <<>> THEN nextActivePlayerIndex(place', defender) ELSE defender)

LEMMA BeatenRotates ==
  ASSUME NEW h, NEW t \in Seq(Entry), NEW lock,
         Conserved(h, deck, t, discard), tableFullyBeaten(t), closeBoutBeaten(h, t, lock)
  PROVE  Rotation
<1>1. discard' # discard
  <2>1. 1 \in DOMAIN t
    BY DEF tableFullyBeaten
  <2>2. t[1].card \in TableCards(t) /\ TableCards(t) \cap discard = {}
    BY <2>1 DEF TableCards, Conserved
  <2> QED BY <2>2 DEF closeBoutBeaten
<1>2. \/ UNCHANGED <<attacker, defender>>
      \/ /\ defender' = nextActivePlayerIndex(place', attacker')
         /\ attacker' = (IF place'[defender] > 0 THEN nextActivePlayerIndex(place', defender)
                                                 ELSE defender)
  BY DEF closeBoutBeaten, EndGame, startNewBout
<1> QED BY <1>1, <1>2 DEF Rotation

LEMMA TakenRotates ==
  ASSUME NEW h, NEW t, NEW lock, closeBoutTaken(h, t, lock)
  PROVE  Rotation
<1>1. \/ UNCHANGED <<attacker, defender>>
      \/ /\ defender' = nextActivePlayerIndex(place', attacker')
         /\ attacker' = nextActivePlayerIndex(place', defender)
  BY DEF closeBoutTaken, EndGame, startNewBout
<1>2. discard' = discard /\ table' = <<>>
  BY DEF closeBoutTaken
<1> QED BY <1>1, <1>2 DEF Rotation

LEMMA NextRotates ==
  ASSUME TypeOK, PhaseFits, CardsConserved, [Next]_vars
  PROVE  Rotation
<1>0. table \in Seq(Entry) /\ defender \in Seats
  BY DEF TypeOK
<1>1. ASSUME NEW p \in Seats, NEW c \in hands[p], Attack(p, c) PROVE Rotation
  <2>1. CASE closeBoutTaken([hands EXCEPT ![p] = @ \ {c}], Append(table, NewEntry(p, c)),
                            exclusiveLockReleased)
    BY <2>1, TakenRotates
  <2>2. CASE UNCHANGED roleVars
    BY <2>2 DEF Rotation, roleVars
  <2> QED BY <1>1, <2>1, <2>2 DEF Attack
<1>2. ASSUME NEW i \in DOMAIN table, NEW c \in hands[defender], Beat(i, c) PROVE Rotation
  <2> DEFINE h == [hands EXCEPT ![defender] = @ \ {c}]
             t == [table EXCEPT ![i].beatenBy = c]
  <2>1. CASE tableFullyBeaten(t) /\ closeBoutBeaten(h, t, exclusiveLockReleased)
    <3>1. Conserved(h, deck, t, discard)
      BY <1>2, CoverKeeps DEF Beat
    <3>2. t \in Seq(Entry)
      <4>1. table[i] \in Entry /\ c \in Deck
        BY <1>0 DEF TypeOK
      <4>2. [table[i] EXCEPT !.beatenBy = c] \in Entry
        BY <4>1 DEF Entry
      <4> QED BY <1>0, <4>2
    <3> HIDE DEF h, t
    <3> QED BY <2>1, <3>1, <3>2, BeatenRotates
  <2>2. CASE UNCHANGED roleVars
    BY <2>2 DEF Rotation, roleVars
  <2> QED BY <1>2, <2>1, <2>2 DEF Beat
<1>3. ASSUME NEW c \in hands[defender], Translate(c) PROVE Rotation
  <2>1. /\ table' = Append(table, NewEntry(defender, c)) /\ attacker' = defender
        /\ defender' = nextActivePlayerIndex(place, defender)
        /\ UNCHANGED <<discard, place>>
    BY <1>3 DEF Translate, resultVars
  <2>2. table' # <<>>
    BY <2>1, ThrownNotEmpty, <1>0
  <2> QED BY <2>1, <2>2 DEF Rotation
<1>4. CASE Take
  <2>1. CASE closeBoutTaken(hands, table, exclusiveLockReleased)
    BY <2>1, TakenRotates
  <2>2. CASE UNCHANGED roleVars
    BY <2>2 DEF Rotation, roleVars
  <2> QED BY <1>4, <2>1, <2>2 DEF Take
<1>5. ASSUME NEW p \in Seats, Pass(p) PROVE Rotation
  <2>1. ASSUME NEW lock, status = "bout_settle", closeBoutBeaten(hands, table, lock)
        PROVE  Rotation
    <3>1. tableFullyBeaten(table)
      BY <2>1 DEF PhaseFits, tableFullyBeaten
    <3> QED BY <1>0, <2>1, <3>1, BeatenRotates DEF CardsConserved
  <2>2. ASSUME NEW lock, closeBoutTaken(hands, table, lock) PROVE Rotation
    BY <2>2, TakenRotates
  <2>3. CASE UNCHANGED roleVars
    BY <2>3 DEF Rotation, roleVars
  <2> QED BY <1>5, <2>1, <2>2, <2>3 DEF Pass
<1>6. ASSUME NEW p \in Seats, NEW i \in DOMAIN table, NoticeBeat(p, i) \/ NoticeAttack(p, i)
      PROVE  Rotation
  BY <1>6 DEF NoticeBeat, NoticeAttack, CardReturned, Rotation, roleVars
<1>7. CASE UNCHANGED vars
  BY <1>7 DEF Rotation, vars
<1> QED BY <1>1, <1>2, <1>3, <1>4, <1>5, <1>6, <1>7 DEF Next, GameOver

(* The roles move only when a bout closes or is translated, and then to whom *)
(* the rules say: startNewBout, closeBoutBeaten, closeBoutTaken and the      *)
(* translate of reducers.ts.                                                 *)
THEOREM RolesCorrect == Spec => RolesRotate
<1>1. Init => RolesInPlay /\ PhaseFits
  BY InitRefines
<1>2. TypeOK /\ RolesInPlay /\ PhaseFits /\ [Next]_vars => RolesInPlay' /\ PhaseFits'
  BY NextRefines DEF RefInv, Kept
<1>3. TypeOK /\ PhaseFits /\ CardsConserved /\ [Next]_vars => [Rotation]_vars
  BY NextRotates
<1>4. Spec => [][Rotation]_vars
  BY <1>1, <1>2, <1>3, TypeCorrect, Conservation, PTL DEF Spec
<1>5. RolesRotate <=> [][Rotation]_vars
  BY DEF RolesRotate, Rotation
<1> QED BY <1>4, <1>5

-----------------------------------------------------------------------------
(***************************************************************************)
(* The end of a bout.                                                      *)
(***************************************************************************)
Progress ==
  ~CheatingEnabled /\ table # <<>> /\ table' # <<>> =>
    \/ HandCards' < HandCards
    \/ /\ HandCards' = HandCards
       /\ \/ status # "bout_take_pending" /\ status' = "bout_take_pending"
          \/ status' = status /\ passed \subseteq passed' /\ passed' # passed

(* A card that is played leaves one card fewer in the hands. *)
LEMMA PlayedCardCounts ==
  ASSUME TypeOK, CardsConserved, NEW p \in Seats, NEW c \in hands[p],
         hands' = [hands EXCEPT ![p] = @ \ {c}]
  PROVE  HandCards' < HandCards
<1>1. Apart(hands) /\ hands \in HandsType
  BY DEF CardsConserved, Conserved, Apart, TypeOK, HandsType
<1>2. InHands(hands') = InHands(hands) \ {c} /\ c \in InHands(hands)
  BY <1>1, CardLeavesHand
<1>3. InHands(hands) \in SUBSET Deck
  BY DEF InHands, TypeOK
<1>4. IsFiniteSet(InHands(hands)) /\ Cardinality(InHands(hands)) \in Nat
  BY <1>3, HandsFinite
<1>5. Cardinality(InHands(hands')) = Cardinality(InHands(hands)) - 1
  BY <1>2, <1>4, FS_RemoveElement
<1>6. HandCards = Cardinality(InHands(hands)) /\ HandCards' = Cardinality(InHands(hands'))
  BY DEF HandCards, InHands
<1> QED BY <1>4, <1>5, <1>6

LEMMA NextProgresses ==
  ASSUME TypeOK, CardsConserved, [Next]_vars
  PROVE  [Progress]_vars
<1> SUFFICES ASSUME ~CheatingEnabled, table # <<>>, table' # <<>>, Next, ~UNCHANGED vars
             PROVE  Progress
  BY DEF Progress
<1>0. defender \in Seats
  BY DEF TypeOK
<1>1. ASSUME NEW p \in Seats, NEW c \in hands[p], Attack(p, c) PROVE Progress
  <2>1. hands' = [hands EXCEPT ![p] = @ \ {c}]
    BY <1>1 DEF Attack, closeBoutTaken
  <2> QED BY <2>1, PlayedCardCounts DEF Progress
<1>2. ASSUME NEW i \in DOMAIN table, NEW c \in hands[defender], Beat(i, c) PROVE Progress
  <2>1. hands' = [hands EXCEPT ![defender] = @ \ {c}]
    BY <1>2 DEF Beat, closeBoutBeaten
  <2> QED BY <1>0, <2>1, PlayedCardCounts DEF Progress
<1>3. ASSUME NEW c \in hands[defender], Translate(c) PROVE Progress
  <2>1. hands' = [hands EXCEPT ![defender] = @ \ {c}]
    BY <1>3 DEF Translate
  <2> QED BY <1>0, <2>1, PlayedCardCounts DEF Progress
<1>4. CASE Take
  <2>1. hands' = hands /\ status # "bout_take_pending" /\ status' = "bout_take_pending"
    BY <1>4 DEF Take, closeBoutTaken, cardVars
  <2> QED BY <2>1 DEF Progress, HandCards
<1>5. ASSUME NEW p \in Seats, Pass(p) PROVE Progress
  <2>1. hands' = hands /\ status' = status /\ p \notin passed /\ passed' = passed \cup {p}
    BY <1>5 DEF Pass, closeBoutBeaten, closeBoutTaken, cardVars
  <2> QED BY <2>1 DEF Progress, HandCards
<1>6. ASSUME NEW p \in Seats, NEW i \in DOMAIN table, NoticeBeat(p, i) \/ NoticeAttack(p, i)
      PROVE  Progress
  BY <1>6 DEF NoticeBeat, NoticeAttack, canNotice
<1> QED BY <1>1, <1>2, <1>3, <1>4, <1>5, <1>6 DEF Next, GameOver

(* Without cheats to undo every bout ends: a card leaves the hands, or a take *)
(* is called, or one more has passed, and none of this is ever undone         *)
(* (reducers.ts, applyCommand).                                               *)
THEOREM BoutEnds == Spec => BoutProgress
<1>1. TypeOK /\ CardsConserved /\ [Next]_vars => [Progress]_vars
  BY NextProgresses
<1>2. Spec => [][Progress]_vars
  BY <1>1, TypeCorrect, Conservation, PTL DEF Spec
<1>3. BoutProgress <=> [][Progress]_vars
  BY DEF BoutProgress, Progress
<1> QED BY <1>2, <1>3

-----------------------------------------------------------------------------
(***************************************************************************)
(* The result of a game.                                                   *)
(***************************************************************************)

(* Counting off the seats of a set gives each number once. *)
LEMMA CountedOff ==
  ASSUME NEW S \in SUBSET Seats
  PROVE  LET rank(p) == Cardinality({q \in S : q <= p})
         IN  /\ IsFiniteSet(S) /\ Cardinality(S) \in Nat
             /\ \A p \in S : rank(p) \in 1 .. Cardinality(S)
             /\ \A k \in 1 .. Cardinality(S) : \E p \in S : rank(p) = k
<1> DEFINE upTo(p) == {q \in S : q <= p}
           rank(p) == Cardinality(upTo(p))
           n == Cardinality(S)
           f == [p \in S |-> rank(p)]
<1>1. IsFiniteSet(S) /\ n \in Nat /\ \A p \in S : p \in Nat
  <2>1. IsFiniteSet(S) /\ n \in Nat
    BY SeatsFinite, FS_Subset, FS_CardinalityType
  <2>2. \A p \in Seats : p \in Nat
    BY PlayersAssumption DEF Seats
  <2> QED BY <2>1, <2>2
<1>2. ASSUME NEW p \in S
      PROVE  /\ p \in upTo(p) /\ IsFiniteSet(upTo(p)) /\ rank(p) \in 1 .. n
  <2>1. upTo(p) \in SUBSET S /\ p \in upTo(p)
    BY <1>1
  <2> HIDE DEF upTo
  <2>2. IsFiniteSet(upTo(p)) /\ rank(p) \in Nat /\ rank(p) <= n /\ rank(p) # 0
    BY <1>1, <2>1, FS_Subset, FS_CardinalityType, FS_EmptySet
  <2> QED BY <1>1, <2>1, <2>2
<1>3. ASSUME NEW p \in S, NEW r \in S, p < r
      PROVE  rank(p) # rank(r)
  <2>1. upTo(p) \in SUBSET upTo(r) /\ r \in upTo(r) /\ r \notin upTo(p)
    BY <1>1, <1>3
  <2> HIDE DEF upTo
  <2> QED BY <1>2, <2>1, FS_Subset
<1>4. f \in Injection(S, 1 .. n)
  <2> HIDE DEF n, rank
  <2>1. f \in [S -> 1 .. n]
    BY <1>2
  <2>2. \A p, r \in S : f[p] = f[r] => p = r
    BY <1>1, <1>3
  <2> HIDE DEF f
  <2> QED BY <2>1, <2>2 DEF Injection, IsInjective
<1>5. IsFiniteSet(1 .. n) /\ Cardinality(1 .. n) = n
  BY <1>1, FS_Interval
<1>6. f \in Surjection(S, 1 .. n)
  <2> HIDE DEF f
  <2> QED BY <1>1, <1>4, <1>5, FS_Injection
<1>7. ASSUME NEW k \in 1 .. n PROVE \E p \in S : rank(p) = k
  <2>1. \E p \in S : f[p] = k
    <3> HIDE DEF f
    <3> QED BY <1>6 DEF Surjection
  <2> QED BY <2>1
<1> QED BY <1>1, <1>2, <1>7

(* Players who leave take the next places, without gaps. *)
LEMMA PlacesFill ==
  ASSUME TypeOK, {place[p] : p \in Out(place)} = 1 .. Cardinality(Out(place)), NEW h, NEW d
  PROVE  LET pl == markFinishedPlayers(h, d)
             new == IF d = <<>> THEN {p \in Seats : ~Finished(p) /\ h[p] = {}} ELSE {}
         IN  /\ Out(pl) = Out(place) \cup new
             /\ {pl[p] : p \in Out(pl)} = 1 .. Cardinality(Out(pl))
<1> DEFINE pl == markFinishedPlayers(h, d)
           new == IF d = <<>> THEN {p \in Seats : ~Finished(p) /\ h[p] = {}} ELSE {}
           rank(p) == Cardinality({q \in new : q <= p})
           n == Cardinality(Out(place))
           m == Cardinality(new)
<1>1. /\ new \in SUBSET Seats /\ Out(place) \in SUBSET Seats /\ Out(place) \cap new = {}
  BY DEF Out, Finished
<1>2. \A p \in Seats : pl[p] = IF p \in new THEN n + rank(p) ELSE place[p]
  BY DEF markFinishedPlayers
<1>3. n \in Nat /\ IsFiniteSet(Out(place))
  BY <1>1, SeatsFinite, FS_Subset, FS_CardinalityType
<1>4. /\ IsFiniteSet(new) /\ m \in Nat
      /\ \A p \in new : rank(p) \in 1 .. m
      /\ \A k \in 1 .. m : \E p \in new : rank(p) = k
  <2> HIDE DEF new
  <2> QED BY <1>1, CountedOff
<1> HIDE DEF pl, new, rank
<1>5. Out(pl) = Out(place) \cup new
  <2>1. \A p \in Seats : pl[p] > 0 <=> p \in Out(place) \cup new
    BY <1>2, <1>3, <1>4 DEF Out
  <2> QED BY <1>1, <2>1 DEF Out
<1>6. Cardinality(Out(pl)) = n + m
  <2>1. Cardinality(Out(place) \cap new) = 0
    BY <1>1, FS_EmptySet
  <2>2. Cardinality(Out(place) \cup new) = n + m - Cardinality(Out(place) \cap new)
    BY <1>3, <1>4, FS_Union
  <2> QED BY <1>3, <1>4, <1>5, <2>1, <2>2
<1>7. ASSUME NEW p \in Out(pl) PROVE pl[p] \in 1 .. n + m
  <2>1. p \in Seats
    BY <1>1, <1>5
  <2>2. CASE p \in new
    BY <1>2, <1>3, <1>4, <2>1, <2>2
  <2>3. CASE p \notin new
    <3>1. p \in Out(place) /\ pl[p] = place[p]
      BY <1>2, <1>5, <2>1, <2>3
    <3>2. place[p] \in 1 .. n
      BY <3>1
    <3> QED BY <1>3, <1>4, <3>1, <3>2
  <2> QED BY <2>2, <2>3
<1>8. ASSUME NEW k \in 1 .. n + m PROVE \E p \in Out(pl) : pl[p] = k
  <2>1. CASE k <= n
    <3>1. k \in {place[p] : p \in Out(place)}
      BY <1>3, <2>1
    <3>2. PICK p \in Out(place) : place[p] = k
      BY <3>1
    <3>3. p \in Seats /\ p \notin new /\ p \in Out(pl)
      BY <1>1, <1>5
    <3> QED BY <1>2, <3>2, <3>3
  <2>2. CASE k > n
    <3>1. k - n \in 1 .. m
      BY <1>3, <1>4, <2>2
    <3>2. PICK p \in new : rank(p) = k - n
      BY <1>4, <3>1
    <3>3. p \in Seats /\ p \in Out(pl)
      BY <1>1, <1>5
    <3>4. pl[p] = n + (k - n)
      BY <1>2, <3>2, <3>3
    <3> QED BY <1>3, <3>3, <3>4
  <2> QED BY <1>3, <2>1, <2>2
<1>9. {pl[p] : p \in Out(pl)} = 1 .. n + m
  BY <1>7, <1>8
<1> QED BY <1>5, <1>6, <1>9 DEF pl, new

(* A refill, the places and the end of the game after it keep the result honest. *)
LEMMA SettledHonest ==
  ASSUME TypeOK, PlacesInOrder, InPlay, DurakHoldsTheRest,
         NEW h \in HandsType, NEW drawers \in SUBSET Seats, NEW lock, NEW first,
         \A p \in Out(place) : h[p] = {} /\ p \notin drawers,
         \A p \in Seats \ drawers : Finished(p) \/ h[p] # {},
         hands' = refillHands(h, drawers), deck' = refillDeck(h, drawers),
         place' = markFinishedPlayers(hands', deck'), table' = <<>>, passed' = {},
         EndGame(place', lock) \/ startNewBout(place', hands', first)
  PROVE  ResultHonest'
<1> DEFINE new == IF deck' = <<>> THEN {p \in Seats : ~Finished(p) /\ hands'[p] = {}} ELSE {}
<1>1. /\ Out(place') = Out(place) \cup new
      /\ {place'[p] : p \in Out(place')} = 1 .. Cardinality(Out(place'))
  <2> DEFINE h1 == hands'
             d1 == deck'
             pl == place'
  <2>1. pl = markFinishedPlayers(h1, d1)
    OBVIOUS
  <2> HIDE DEF h1, d1, pl
  <2>2. LET new1 == IF d1 = <<>> THEN {p \in Seats : ~Finished(p) /\ h1[p] = {}} ELSE {}
        IN  /\ Out(pl) = Out(place) \cup new1
            /\ {pl[p] : p \in Out(pl)} = 1 .. Cardinality(Out(pl))
    BY <2>1, PlacesFill DEF PlacesInOrder
  <2> QED BY <2>2 DEF h1, d1, pl
<1>2. \A p \in Out(place) : p \in Seats /\ hands'[p] = {}
  <2>1. ASSUME NEW p \in Out(place) PROVE p \in Seats /\ hands'[p] = {}
    <3>1. p \in Seats /\ h[p] = {} /\ p \notin drawers
      BY DEF Out
    <3>2. Drawn(h, drawers, p) = {}
      BY <3>1 DEF Drawn, Slots
    <3> QED BY <3>1, <3>2 DEF refillHands
  <2> QED BY <2>1
<1>3. \A p \in Out(place') : p \in Seats /\ hands'[p] = {}
  BY <1>1, <1>2
<1>4. \A p \in Seats \ Out(place') : hands'[p] # {}
  <2> DEFINE h1 == refillHands(h, drawers)
             pl == markFinishedPlayers(h1, refillDeck(h, drawers))
  <2>1. \A p \in Seats \ Out(pl) : h1[p] # {}
    BY InHoldCards
  <2> QED BY <2>1
<1>5. PlacesInOrder'
  <2>1. \A p \in Out(place') : hands'[p] = {} /\ p \notin passed'
                               /\ \A i \in DOMAIN table' : table'[i].by # p
    BY <1>3
  <2> QED BY <1>1, <2>1 DEF PlacesInOrder, Out
<1>6. CASE EndGame(place', lock)
  <2>1. /\ Cardinality(Seats \ Out(place')) <= 1 /\ status' = "game_over"
        /\ loser' = IF Out(place') = Seats THEN NoSeat ELSE CHOOSE p \in Seats : p \notin Out(place')
    BY <1>6 DEF EndGame
  <2>2. deck' = <<>>
    <3>1. new # {}
      <4> SUFFICES ASSUME new = {} PROVE FALSE
        OBVIOUS
      <4>1. Out(place') = Out(place)
        BY <1>1
      <4> HIDE DEF new
      <4>2. Cardinality(Seats \ Out(place)) > 1
        BY DEF DurakHoldsTheRest
      <4>3. Cardinality(Seats \ Out(place)) \in Nat
        BY SeatsFinite, FS_Subset, FS_CardinalityType
      <4> QED BY <2>1, <4>1, <4>2, <4>3
    <3> QED BY <3>1
  <2>3. \A p, q \in Seats \ Out(place') : p = q
    <3> DEFINE O == Out(place')
    <3>1. Cardinality(Seats \ O) <= 1
      BY <2>1
    <3> HIDE DEF O
    <3>2. \A p, q \in Seats \ O : p = q
      BY <3>1, AtMostOneIn
    <3> QED BY <3>2 DEF O
  <2>4. ASSUME NEW p \in Seats PROVE hands'[p] # {} <=> p = loser'
    <3>1. hands'[p] # {} <=> p \notin Out(place')
      BY <1>3, <1>4
    <3>2. CASE Out(place') = Seats
      <4>1. loser' = -1 /\ p # -1
        BY <2>1, <3>2, PlayersAssumption DEF NoSeat, Seats
      <4> QED BY <3>1, <3>2, <4>1
    <3>3. CASE Out(place') # Seats
      <4>1. \E q \in Seats : q \notin Out(place')
        BY <1>3, <3>3
      <4>2. loser' \in Seats /\ loser' \notin Out(place')
        BY <2>1, <3>3, <4>1
      <4> QED BY <2>3, <3>1, <4>2
    <3> QED BY <3>2, <3>3
  <2>5. Cardinality(Seats \ Out(place')) \in Nat
    BY SeatsFinite, FS_Subset, FS_CardinalityType
  <2>6. ~(Cardinality(Seats \ Out(place')) > 1)
    BY <2>1, <2>5
  <2>7. DurakHoldsTheRest'
    <3>1. Out(place)' = Out(place')
      BY DEF Out
    <3> QED BY <2>1, <2>2, <2>4, <2>6, <3>1 DEF DurakHoldsTheRest, InPlay
  <2> QED BY <1>5, <2>7 DEF ResultHonest
<1>7. CASE startNewBout(place', hands', first)
  <2>1. Cardinality(Seats \ Out(place')) > 1 /\ status' = "bout_attack"
    BY <1>7 DEF startNewBout
  <2>2. DurakHoldsTheRest'
    <3>1. Out(place)' = Out(place')
      BY DEF Out
    <3> QED BY <2>1, <3>1 DEF DurakHoldsTheRest, InPlay
  <2> QED BY <1>5, <2>2 DEF ResultHonest
<1> QED BY <1>6, <1>7

LEMMA CloseHonest ==
  ASSUME RefInv, ResultHonest, InPlay, NEW h \in HandsType, NEW t \in Seq(Entry), t # <<>>,
         NEW lock, \A p \in Out(place) : h[p] = {},
         closeBoutBeaten(h, t, lock) \/ closeBoutTaken(h, t, lock)
  PROVE  ResultHonest'
<1>1. /\ TypeOK /\ PlacesInOrder /\ DurakHoldsTheRest /\ defender \in Seats \ Out(place)
  BY DEF RefInv, TypeOK, RolesInPlay, ResultHonest
<1>2. CASE closeBoutBeaten(h, t, lock)
  <2> DEFINE drawers == {p \in Seats : ~Finished(p)}
             h1 == refillHands(h, drawers)
             d1 == refillDeck(h, drawers)
             pl == markFinishedPlayers(h1, d1)
             first == IF pl[defender] > 0 THEN nextActivePlayerIndex(pl, defender) ELSE defender
  <2>1. /\ hands' = h1 /\ deck' = d1 /\ place' = pl /\ table' = <<>> /\ passed' = {}
        /\ EndGame(pl, lock) \/ startNewBout(pl, h1, first)
    BY <1>2 DEF closeBoutBeaten
  <2>2. /\ drawers \in SUBSET Seats /\ \A p \in Out(place) : p \notin drawers
        /\ \A p \in Seats \ drawers : Finished(p) \/ h[p] # {}
    BY DEF Out, Finished
  <2> HIDE DEF drawers, first
  <2> QED BY <1>1, <2>1, <2>2, SettledHonest
<1>3. CASE closeBoutTaken(h, t, lock)
  <2> DEFINE drawers == {p \in Seats : ~Finished(p)} \ {defender}
             h0 == [h EXCEPT ![defender] = @ \cup TableCards(t)]
             h1 == refillHands(h0, drawers)
             d1 == refillDeck(h0, drawers)
             pl == markFinishedPlayers(h1, d1)
             first == nextActivePlayerIndex(pl, defender)
  <2>1. /\ hands' = h1 /\ deck' = d1 /\ place' = pl /\ table' = <<>> /\ passed' = {}
        /\ EndGame(pl, lock) \/ startNewBout(pl, h1, first)
    BY <1>3 DEF closeBoutTaken
  <2>2. TableCards(t) \in SUBSET Deck /\ TableCards(t) # {}
    BY LaidCards
  <2>3. /\ h0 \in HandsType /\ h0[defender] # {}
        /\ \A p \in Out(place) : h0[p] = {}
    BY <1>1, <2>2 DEF HandsType, Out
  <2>4. /\ drawers \in SUBSET Seats /\ \A p \in Out(place) : p \notin drawers
        /\ \A p \in Seats \ drawers : Finished(p) \/ h0[p] # {}
    <3> HIDE DEF h0
    <3> QED BY <2>3 DEF Out, Finished
  <2> HIDE DEF drawers, first, h0
  <2> QED BY <1>1, <2>1, <2>3, <2>4, SettledHonest
<1> QED BY <1>2, <1>3

(* Inside a bout only players who are in touch hands, passes and table. *)
LEMMA OpenHonest ==
  ASSUME ResultHonest, InPlay, status' # "game_over", place' = place,
         \A p \in Out(place) : /\ hands'[p] = {} /\ p \notin passed'
                               /\ \A i \in DOMAIN table' : table'[i].by # p
  PROVE  ResultHonest'
<1>1. Out(place)' = Out(place)
  BY DEF Out
<1>2. PlacesInOrder'
  <2>1. {place[p] : p \in Out(place)} = 1 .. Cardinality(Out(place))
    BY DEF ResultHonest, PlacesInOrder
  <2> QED BY <1>1, <2>1 DEF PlacesInOrder
<1>3. DurakHoldsTheRest'
  BY <1>1 DEF ResultHonest, DurakHoldsTheRest, InPlay
<1> QED BY <1>2, <1>3 DEF ResultHonest

(* Who threw the entries of a table with one more. *)
LEMMA ThrownBy ==
  ASSUME NEW t \in Seq(Entry), NEW p \in Seats, NEW c \in Deck, NEW q,
         q # p, \A i \in DOMAIN t : t[i].by # q
  PROVE  \A i \in DOMAIN Append(t, NewEntry(p, c)) : Append(t, NewEntry(p, c))[i].by # q
<1> DEFINE e == NewEntry(p, c)
<1>1. e \in Entry /\ e.by = p
  BY DEF NewEntry, Entry
<1> HIDE DEF e
<1>2. /\ DOMAIN Append(t, e) = 1 .. Len(t) + 1 /\ Len(t) \in Nat /\ DOMAIN t = 1 .. Len(t)
      /\ \A i \in 1 .. Len(t) : Append(t, e)[i] = t[i]
      /\ Append(t, e)[Len(t) + 1] = e
  BY <1>1
<1>3. ASSUME NEW i \in 1 .. Len(t) + 1 PROVE Append(t, e)[i].by # q
  <2>1. CASE i \in 1 .. Len(t)
    BY <1>2, <2>1
  <2>2. CASE i = Len(t) + 1
    BY <1>1, <1>2, <2>2
  <2> QED BY <1>2, <2>1, <2>2
<1> QED BY <1>2, <1>3 DEF e

(* Covering or uncovering an entry does not change who threw it. *)
LEMMA CoveredBy ==
  ASSUME NEW t \in Seq(Entry), NEW i \in DOMAIN t, NEW x
  PROVE  LET t1 == [t EXCEPT ![i].beatenBy = x]
         IN  DOMAIN t1 = DOMAIN t /\ \A j \in DOMAIN t : t1[j].by = t[j].by
<1> DEFINE t1 == [t EXCEPT ![i].beatenBy = x]
<1>1. t[i] \in [card : Deck, beatenBy : Deck \cup {NoCard}, by : Seats]
  BY EntryShape DEF Entry
<1>2. /\ DOMAIN t1 = DOMAIN t
      /\ \A j \in DOMAIN t : j # i => t1[j] = t[j]
      /\ t1[i] = [t[i] EXCEPT !.beatenBy = x]
  OBVIOUS
<1>3. t1[i].by = t[i].by
  <2> HIDE DEF t1
  <2> QED BY <1>1, <1>2
<1> HIDE DEF t1
<1>4. \A j \in DOMAIN t : t1[j].by = t[j].by
  BY <1>2, <1>3
<1> QED BY <1>2, <1>4 DEF t1

LEMMA NextHonest ==
  ASSUME RefInv, ResultHonest, [Next]_vars
  PROVE  ResultHonest'
<1>0. /\ TypeOK /\ RolesInPlay /\ PhaseFits /\ table \in Seq(Entry)
      /\ hands \in [Seats -> SUBSET Deck] /\ hands \in HandsType /\ defender \in Seats
      /\ \A q \in Out(place) : /\ q \in Seats /\ hands[q] = {} /\ q \notin passed
                               /\ \A i \in DOMAIN table : table[i].by # q
  BY DEF RefInv, TypeOK, HandsType, ResultHonest, PlacesInOrder, Out
<1>1. ASSUME NEW p \in Seats, NEW c \in hands[p], Attack(p, c) PROVE ResultHonest'
  <2> DEFINE h == [hands EXCEPT ![p] = @ \ {c}]
             t == Append(table, NewEntry(p, c))
  <2>1. /\ InPlay /\ p \notin Out(place) /\ c \in Deck
        /\ h \in HandsType /\ t \in Seq(Entry) /\ t # <<>>
        /\ \A q \in Out(place) : h[q] = {}
    BY <1>0, <1>1, PlayType, ThrownNotEmpty
       DEF Attack, canThrow, baseCanThrow, Finished, Out, InPlay, HandsType
  <2>2. ASSUME NEW q \in Out(place) PROVE \A i \in DOMAIN t : t[i].by # q
    <3>1. q # p /\ \A i \in DOMAIN table : table[i].by # q
      BY <1>0, <2>1
    <3>2. table \in Seq(Entry) /\ c \in Deck
      BY <1>0, <2>1
    <3> QED BY <3>1, <3>2, ThrownBy, Zenon
  <2> HIDE DEF h, t
  <2>3. CASE closeBoutTaken(h, t, exclusiveLockReleased)
    BY <2>1, <2>3, CloseHonest
  <2>4. CASE /\ hands' = h /\ table' = t /\ passed' = {} /\ place' = place
             /\ status' \in {"bout_take_pending", "bout_defense"}
    BY <2>1, <2>2, <2>4, OpenHonest
  <2> QED BY <1>1, <2>3, <2>4 DEF Attack, resultVars, h, t
<1>2. ASSUME NEW i \in DOMAIN table, NEW c \in hands[defender], Beat(i, c) PROVE ResultHonest'
  <2> DEFINE h == [hands EXCEPT ![defender] = @ \ {c}]
             t == [table EXCEPT ![i].beatenBy = c]
  <2>1. /\ InPlay /\ h \in HandsType /\ c \in Deck
        /\ \A q \in Out(place) : h[q] = {}
    BY <1>0, <1>2 DEF Beat, RolesInPlay, InPlay, HandsType
  <2>2. DOMAIN t = DOMAIN table /\ \A j \in DOMAIN table : t[j].by = table[j].by
    BY <1>0, CoveredBy
  <2>3. t \in Seq(Entry) /\ t # <<>>
    <3>1. table[i] \in Entry
      BY <1>0
    <3>2. [table[i] EXCEPT !.beatenBy = c] \in Entry
      BY <2>1, <3>1 DEF Entry
    <3> QED BY <1>0, <3>2
  <2> HIDE DEF h, t
  <2>4. CASE closeBoutBeaten(h, t, exclusiveLockReleased)
    BY <2>1, <2>3, <2>4, CloseHonest
  <2>5. CASE /\ hands' = h /\ table' = t /\ passed' = {} /\ place' = place
             /\ status' \in {"bout_settle", "bout_defense"}
    BY <1>0, <2>1, <2>2, <2>5, OpenHonest
  <2> QED BY <1>2, <2>4, <2>5 DEF Beat, resultVars, h, t
<1>3. ASSUME NEW c \in hands[defender], Translate(c) PROVE ResultHonest'
  <2> DEFINE t == Append(table, NewEntry(defender, c))
  <2>1. /\ hands' = [hands EXCEPT ![defender] = @ \ {c}] /\ table' = t /\ passed' = {}
        /\ place' = place /\ status' = "bout_defense" /\ InPlay /\ c \in Deck
    BY <1>0, <1>3 DEF Translate, resultVars, InPlay
  <2>2. defender \notin Out(place)
    BY <2>1 DEF RefInv, RolesInPlay
  <2>3. ASSUME NEW q \in Out(place) PROVE \A i \in DOMAIN t : t[i].by # q
    <3>1. q # defender /\ \A i \in DOMAIN table : table[i].by # q
      BY <1>0, <2>2
    <3>2. table \in Seq(Entry) /\ c \in Deck /\ defender \in Seats
      BY <1>0, <2>1
    <3> QED BY <3>1, <3>2, ThrownBy, Zenon
  <2> HIDE DEF t
  <2> QED BY <1>0, <2>1, <2>2, <2>3, OpenHonest
<1>4. CASE Take
  <2>1. InPlay /\ table # <<>>
    BY <1>4 DEF Take, InPlay
  <2>2. CASE closeBoutTaken(hands, table, exclusiveLockReleased)
    BY <1>0, <2>1, <2>2, CloseHonest
  <2>3. CASE /\ passed' = {} /\ status' = "bout_take_pending"
             /\ UNCHANGED <<cardVars, resultVars>>
    BY <1>0, <2>1, <2>3, OpenHonest DEF cardVars, resultVars
  <2> QED BY <1>4, <2>2, <2>3 DEF Take
<1>5. ASSUME NEW p \in Seats, Pass(p) PROVE ResultHonest'
  <2>1. InPlay /\ table # <<>> /\ p \notin Out(place)
    BY <1>0, <1>5 DEF Pass, PhaseFits, InPlay, baseCanThrow, Finished, Out
  <2>2. ASSUME NEW lock, closeBoutBeaten(hands, table, lock) \/ closeBoutTaken(hands, table, lock)
        PROVE  ResultHonest'
    BY <1>0, <2>1, <2>2, CloseHonest
  <2>3. CASE passed' = passed \cup {p} /\ UNCHANGED <<cardVars, status, resultVars>>
    BY <1>0, <2>1, <2>3, OpenHonest DEF cardVars, resultVars, InPlay
  <2> QED BY <1>5, <2>2, <2>3 DEF Pass
<1>6. ASSUME NEW p \in Seats, NEW i \in DOMAIN table, NoticeBeat(p, i) PROVE ResultHonest'
  <2> DEFINE t == [table EXCEPT ![i].beatenBy = NoCard]
  <2>1. /\ hands' = [hands EXCEPT ![defender] = @ \cup {table[i].beatenBy}]
        /\ table' = t /\ passed' = passed /\ place' = place /\ InPlay
        /\ status' \in {"bout_attack", "bout_take_pending", "bout_defense", "bout_settle"}
    BY <1>6 DEF NoticeBeat, CardReturned, PhaseAfterCatch, resultVars, InPlay
  <2>2. DOMAIN t = DOMAIN table /\ \A j \in DOMAIN table : t[j].by = table[j].by
    BY <1>0, CoveredBy
  <2>3. defender \notin Out(place)
    BY <2>1 DEF RefInv, RolesInPlay
  <2> HIDE DEF t
  <2> QED BY <1>0, <2>1, <2>2, <2>3, OpenHonest
<1>7. ASSUME NEW p \in Seats, NEW i \in DOMAIN table, NoticeAttack(p, i) PROVE ResultHonest'
  <2> DEFINE t == RemoveAt(table, i)
  <2>1. /\ hands' = [hands EXCEPT ![table[i].by] = @ \cup {table[i].card}]
        /\ table' = t /\ passed' = passed /\ place' = place /\ InPlay
        /\ status' \in {"bout_attack", "bout_take_pending", "bout_defense", "bout_settle"}
    BY <1>7 DEF NoticeAttack, CardReturned, PhaseAfterCatch, resultVars, InPlay
  <2>2. \A j \in DOMAIN t : \E k \in DOMAIN table : t[j] = table[k]
    <3>1. /\ Len(table) \in Nat /\ DOMAIN table = 1 .. Len(table) /\ i \in 1 .. Len(table)
          /\ DOMAIN t = 1 .. Len(table) - 1
          /\ \A j \in 1 .. Len(table) - 1 : t[j] = table[IF j < i THEN j ELSE j + 1]
      BY <1>0, EntryRemoved
    <3> HIDE DEF t
    <3>2. \A j \in 1 .. Len(table) - 1 : (IF j < i THEN j ELSE j + 1) \in DOMAIN table
      BY <3>1
    <3> QED BY <3>1, <3>2
  <2> HIDE DEF t
  <2> QED BY <1>0, <2>1, <2>2, OpenHonest
<1>8. CASE UNCHANGED vars
  BY <1>8 DEF vars, ResultHonest, PlacesInOrder, DurakHoldsTheRest, InPlay, Out
<1> QED BY <1>1, <1>2, <1>3, <1>4, <1>5, <1>6, <1>7, <1>8 DEF Next, GameOver

LEMMA InitHonest == Init => ResultHonest
<1> SUFFICES ASSUME Init PROVE ResultHonest
  OBVIOUS
<1>1. /\ place = [p \in Seats |-> 0] /\ status = "bout_attack" /\ table = <<>>
  BY DEF Init
<1>2. Out(place) = {}
  BY <1>1 DEF Out
<1>3. Cardinality(Out(place)) = 0 /\ Cardinality(Seats \ Out(place)) = N
  BY <1>2, FS_EmptySet, SeatsFinite
<1> QED BY <1>1, <1>2, <1>3, PlayersAssumption
        DEF ResultHonest, PlacesInOrder, DurakHoldsTheRest, InPlay

(* Whatever is played, refilled or rolled back, the places are given without *)
(* gaps or ties, whoever has one is out for good, and the game ends exactly  *)
(* when one player or none is left, who then is the durak                    *)
(* (markFinishedPlayers, checkGameOver).                                     *)
THEOREM ResultRight == Spec => []ResultHonest
<1>1. Init => RolesInPlay /\ PhaseFits /\ ResultHonest
  BY InitRefines, InitHonest
<1>2. TypeOK /\ RolesInPlay /\ PhaseFits /\ ResultHonest /\ [Next]_vars
      => RolesInPlay' /\ PhaseFits' /\ ResultHonest'
  BY NextRefines, NextHonest DEF RefInv, Kept
<1> QED BY <1>1, <1>2, TypeCorrect, PTL DEF Spec

-----------------------------------------------------------------------------
(* What player p has laid on table t, when d defends. *)
Laid(t, d, p) ==
  {t[i].card : i \in {i \in DOMAIN t : t[i].by = p}}
  \cup (IF p = d THEN {t[i].beatenBy : i \in Beaten(t)} ELSE {})

(* While the pile lasts, the hand of a player who is in and what they laid in *)
(* the bout are a full hand.  HandsRefilled says this between bouts only, and *)
(* is not inductive: who takes the table does not draw, and is not short      *)
(* because of what they laid themselves.                                      *)
Stocked ==
  InPlay /\ deck # <<>> =>
    \A p \in Seats \ Out(place) : Cardinality(hands[p] \cup Laid(table, defender, p)) >= HandSize

LEMMA Larger ==
  ASSUME NEW S \in SUBSET Deck, NEW T \in SUBSET Deck, S \subseteq T, Cardinality(S) >= HandSize
  PROVE  Cardinality(T) >= HandSize
BY HandsFinite, FS_Subset, SettingsAssumption

(* The slots a player is short of are all served by a pile that outlasts them. *)
LEMMA DrawersFill ==
  ASSUME TypeOK, NEW h \in HandsType, NEW drawers \in SUBSET Seats, NEW p \in drawers,
         IsInjective(deck), h[p] \cap Range(deck) = {}, refillDeck(h, drawers) # <<>>
  PROVE  Cardinality(refillHands(h, drawers)[p]) >= HandSize
<1> DEFINE S == Slots(h, drawers)
           n == Cardinality(S)
           L == Len(deck)
           m == Cardinality(h[p])
           J == m + 1 .. HandSize
           X == Drawn(h, drawers, p)
           rank(s) == Cardinality(SlotsBefore(h, drawers, s))
           f == [j \in J |-> deck[L - rank(<<p, j>>)]]
<1>1. L \in Nat /\ n \in Nat /\ p \in Seats /\ HandSize \in Nat /\ DOMAIN deck = 1 .. L
  BY SlotsFinite, SettingsAssumption DEF TypeOK
<1>2. h[p] \in SUBSET Deck /\ m \in Nat /\ IsFiniteSet(h[p])
  BY <1>1, HandsFinite DEF HandsType
<1>3. n < L
  <2> HIDE DEF n, L
  <2> SUFFICES ASSUME ~(n < L) PROVE FALSE
    OBVIOUS
  <2>1. refillDeck(h, drawers) = SubSeq(deck, 1, 0)
    BY DEF refillDeck, n, L
  <2> QED BY <2>1 DEF TypeOK
<1>4. refillHands(h, drawers)[p] = h[p] \cup X
  BY <1>1 DEF refillHands
<1>5. ASSUME NEW j \in J
      PROVE  LET k == rank(<<p, j>>)
             IN  <<p, j>> \in S /\ k \in 0 .. L - 1 /\ deck[L - k] \in X
  <2> DEFINE s == <<p, j>>
             k == rank(s)
  <2>1. s \in S
    <3>1. j \in 1 .. HandSize /\ j > m
      BY <1>1, <1>2
    <3>2. s \in drawers \X (1 .. HandSize) /\ s[1] = p /\ s[2] = j
      BY <3>1
    <3> HIDE DEF s
    <3> QED BY <3>1, <3>2 DEF Slots
  <2>2. k \in 0 .. n - 1
    BY <2>1, SlotRank
  <2>3. s[1] = p
    OBVIOUS
  <2> HIDE DEF n, L, k, s
  <2>4. k \in 0 .. L - 1
    BY <1>1, <1>3, <2>2
  <2>5. deck[L - k] \in X
    BY <2>1, <2>3, <2>4 DEF Drawn, L, k
  <2> QED BY <2>1, <2>4, <2>5 DEF k, s
<1>6. X \in SUBSET Range(deck)
  BY <1>1 DEF Drawn, Range
<1>7. f \in Injection(J, X)
  <2> HIDE DEF S, L, J, X, rank
  <2>1. f \in [J -> X]
    BY <1>5
  <2>2. ASSUME NEW i \in J, NEW j \in J, f[i] = f[j] PROVE i = j
    <3>1. L - rank(<<p, i>>) = L - rank(<<p, j>>)
      <4>1. /\ L - rank(<<p, i>>) \in 1 .. L /\ L - rank(<<p, j>>) \in 1 .. L
        BY <1>1, <1>5
      <4> QED BY <1>1, <2>2, <4>1 DEF IsInjective
    <3>2. rank(<<p, i>>) = rank(<<p, j>>)
      BY <1>1, <1>5, <3>1
    <3>3. <<p, i>> = <<p, j>>
      BY <1>5, <3>2, SlotRank DEF S, rank
    <3> QED BY <3>3
  <2> QED BY <2>1, <2>2 DEF Injection, IsInjective
<1>8. X \in SUBSET Deck /\ IsFiniteSet(X) /\ Cardinality(X) \in Nat
  <2>1. Range(deck) \in SUBSET Deck
    BY DEF Range, TypeOK
  <2> QED BY <1>6, <2>1, HandsFinite
<1>9. Cardinality(J) <= Cardinality(X)
  BY <1>7, <1>8, FS_Injection
<1>10. Cardinality(h[p] \cup X) = m + Cardinality(X)
  <2> HIDE DEF X
  <2>1. h[p] \cap X = {}
    BY <1>6
  <2>2. Cardinality(h[p] \cap X) = 0
    BY <2>1, FS_EmptySet
  <2>3. Cardinality(h[p] \cup X) = m + Cardinality(X) - Cardinality(h[p] \cap X)
    BY <1>2, <1>8, FS_Union
  <2> QED BY <1>2, <1>8, <2>2, <2>3
<1>11. Cardinality(J) = IF m + 1 > HandSize THEN 0 ELSE HandSize - m
  <2> HIDE DEF m
  <2>1. m + 1 \in Int /\ HandSize \in Int /\ HandSize - (m + 1) + 1 = HandSize - m
    BY <1>1, <1>2
  <2> QED BY <2>1, FS_Interval
<1> HIDE DEF m, J, X
<1> QED BY <1>1, <1>2, <1>4, <1>8, <1>9, <1>10, <1>11

(* Cards dealt to one seat are HandSize. *)
LEMMA DealFills ==
  ASSUME NEW d \in Seq(Deck), IsInjective(d), N * HandSize <= Len(d), NEW p \in Seats
  PROVE  Cardinality(DealtHand(d, p)) >= HandSize
<1> DEFINE L == Len(d)
           J == 0 .. HandSize - 1
           X == DealtHand(d, p)
           f == [j \in J |-> d[L - (j * N + p)]]
<1>1. L \in Nat /\ HandSize \in Nat /\ N \in Nat /\ DOMAIN d = 1 .. L /\ p \in 0 .. N - 1
  BY SettingsAssumption, PlayersAssumption DEF Seats
<1>2. ASSUME NEW j \in J
      PROVE  LET k == j * N + p
             IN  k \in 0 .. N * HandSize - 1 /\ k \in 0 .. L - 1 /\ k % N = p
  <2> DEFINE k == j * N + p
  <2>1. j \in Nat /\ j + 1 <= HandSize
    BY <1>1
  <2>2. (j + 1) * N <= HandSize * N
    BY <1>1, <2>1
  <2>3. k \in 0 .. N * HandSize - 1
    BY <1>1, <2>1, <2>2
  <2>4. k % N = p
    BY <1>1, <2>1
  <2> QED BY <1>1, <2>3, <2>4
<1>3. f \in Injection(J, X)
  <2> HIDE DEF L, J
  <2>1. f \in [J -> X]
    BY <1>2 DEF DealtHand, L
  <2>2. ASSUME NEW i \in J, NEW j \in J, f[i] = f[j] PROVE i = j
    <3>1. L - (i * N + p) = L - (j * N + p)
      BY <1>1, <1>2, <2>2 DEF IsInjective
    <3> QED BY <1>1, <1>2, <3>1, PlayersAssumption DEF J
  <2> QED BY <2>1, <2>2 DEF Injection, IsInjective
<1>4. X \in SUBSET Deck
  BY <1>1 DEF DealtHand
<1>5. IsFiniteSet(X) /\ Cardinality(X) \in Nat
  BY <1>4, HandsFinite
<1>6. Cardinality(J) = HandSize
  BY <1>1, FS_Interval, SettingsAssumption
<1>7. Cardinality(J) <= Cardinality(X)
  <2> HIDE DEF J, X, f
  <2> QED BY <1>3, <1>5, FS_Injection
<1> QED BY <1>6, <1>7

-----------------------------------------------------------------------------
(* What is on the table and in a hand, together, are cards. *)
LEMMA LaidType ==
  ASSUME NEW h \in HandsType, NEW t \in Seq(Entry), NEW d, NEW p \in Seats
  PROVE  h[p] \cup Laid(t, d, p) \in SUBSET Deck /\ Laid(t, d, p) \subseteq TableCards(t)
<1>1. \A i \in DOMAIN t : t[i] \in Entry
  OBVIOUS
<1>2. Laid(t, d, p) \subseteq TableCards(t)
  BY DEF Laid, TableCards
<1>3. TableCards(t) \in SUBSET Deck
  BY <1>1 DEF TableCards, Beaten, Entry
<1> QED BY <1>2, <1>3 DEF HandsType

StockInv == MoveInv /\ CardsConserved /\ Stocked

(* Closing a bout on hands h and table t, which the cards of this bout make up. *)
LEMMA CloseStocks ==
  ASSUME TypeOK, TypeOK', NEW h \in HandsType, NEW t \in Seq(Entry), NEW lock,
         Conserved(h, deck, t, discard),
         deck # <<>> => \A p \in Seats \ Out(place) : Cardinality(h[p] \cup Laid(t, defender, p)) >= HandSize,
         closeBoutBeaten(h, t, lock) \/ closeBoutTaken(h, t, lock)
  PROVE  Stocked'
<1>1. defender \in Seats /\ deck \in Seq(Deck) /\ IsInjective(deck) /\ hands' \in HandsType
  BY DEF TypeOK, Conserved, HandsType
<1>2. \A p \in Seats : h[p] \cap Range(deck) = {}
  BY DEF Conserved, InHands
<1>3. Out(place) \subseteq Out(place')
  BY OutStaysOut DEF closeBoutBeaten, closeBoutTaken
<1>4. table' = <<>>
  BY DEF closeBoutBeaten, closeBoutTaken
<1>0. \A p \in Seats : hands'[p] \cup Laid(table', defender', p) = hands'[p]
  BY <1>4 DEF Laid, Beaten
<1> SUFFICES ASSUME deck' # <<>>, NEW p \in Seats, p \notin Out(place)
             PROVE  Cardinality(hands'[p]) >= HandSize
  BY <1>0, <1>3 DEF Stocked, Out
<1>5. ASSUME NEW h0 \in HandsType, NEW drawers \in SUBSET Seats,
             p \in drawers \/ Cardinality(h0[p]) >= HandSize, h0[p] \cap Range(deck) = {} \/ p \notin drawers,
             hands' = refillHands(h0, drawers), deck' = refillDeck(h0, drawers)
      PROVE  Cardinality(hands'[p]) >= HandSize
  <2>1. CASE p \in drawers
    BY <1>1, <1>5, <2>1, DrawersFill
  <2>2. CASE p \notin drawers
    <3>1. h0[p] \subseteq hands'[p]
      BY <1>5 DEF refillHands
    <3> QED BY <1>1, <1>5, <2>2, <3>1, Larger DEF HandsType
  <2> QED BY <2>1, <2>2
<1>6. ~Finished(p)
  BY DEF Out, Finished
<1>7. CASE closeBoutBeaten(h, t, lock)
  BY <1>2, <1>5, <1>6, <1>7 DEF closeBoutBeaten
<1>8. CASE closeBoutTaken(h, t, lock)
  <2> DEFINE drawers == {q \in Seats : ~Finished(q)} \ {defender}
             h0 == [h EXCEPT ![defender] = @ \cup TableCards(t)]
  <2>1. hands' = refillHands(h0, drawers) /\ deck' = refillDeck(h0, drawers) /\ drawers \in SUBSET Seats
    BY <1>8 DEF closeBoutTaken
  <2>2. TableCards(t) \in SUBSET Deck /\ Laid(t, defender, defender) \subseteq TableCards(t)
    <3>1. Laid(t, defender, defender) \subseteq TableCards(t)
      BY <1>1, LaidType
    <3> QED BY <3>1, ConservedParts
  <2>3. h0 \in HandsType /\ h0[defender] = h[defender] \cup TableCards(t)
        /\ \A q \in Seats : q # defender => h0[q] = h[q]
    BY <1>1, <2>2 DEF HandsType
  <2> HIDE DEF h0
  <2>4. CASE p = defender
    <3>1. deck # <<>>
      <4> SUFFICES ASSUME deck = <<>> PROVE FALSE
        OBVIOUS
      <4>1. refillDeck(h0, drawers) = SubSeq(deck, 1, 0)
        BY SlotsFinite, <2>1 DEF refillDeck
      <4> QED BY <2>1, <4>1
    <3>2. Cardinality(h[p] \cup Laid(t, defender, p)) >= HandSize
      BY <3>1
    <3>3. h[p] \cup Laid(t, defender, p) \subseteq h0[p]
      BY <2>2, <2>3, <2>4
    <3>4. Cardinality(h0[p]) >= HandSize
      BY <2>3, <3>2, <3>3, Larger DEF HandsType
    <3> QED BY <1>5, <2>1, <2>3, <2>4, <3>4
  <2>5. CASE p # defender
    <3>1. p \in drawers /\ h0[p] = h[p]
      BY <1>6, <2>3, <2>5
    <3> HIDE DEF drawers
    <3> QED BY <1>2, <1>5, <2>1, <2>3, <3>1
  <2> QED BY <2>4, <2>5
<1> QED BY <1>7, <1>8

(* A step that leaves everybody their hand and what they laid. *)
LEMMA OpenStocks ==
  ASSUME Stocked, InPlay, TypeOK', deck' = deck, place' = place,
         \A p \in Seats : hands[p] \cup Laid(table, defender, p)
                            \subseteq hands'[p] \cup Laid(table', defender', p)
  PROVE  Stocked'
<1> SUFFICES ASSUME deck # <<>>, NEW p \in Seats, p \notin Out(place)
             PROVE  Cardinality(hands'[p] \cup Laid(table', defender', p)) >= HandSize
  BY DEF Stocked, Out
<1>1. hands'[p] \cup Laid(table', defender', p) \in SUBSET Deck
  BY LaidType DEF TypeOK, HandsType
<1>2. Cardinality(hands[p] \cup Laid(table, defender, p)) >= HandSize
  BY DEF Stocked
<1> QED BY <1>1, <1>2, Larger

(* Throwing moves a card from the hand to what its player laid. *)
LEMMA ThrowLays ==
  ASSUME TypeOK, NEW p \in Seats, NEW c \in hands[p], NEW d
  PROVE  LET h == [hands EXCEPT ![p] = @ \ {c}]
             t == Append(table, NewEntry(p, c))
         IN  \A q \in Seats : hands[q] \cup Laid(table, d, q) \subseteq h[q] \cup Laid(t, d, q)
<1> DEFINE h == [hands EXCEPT ![p] = @ \ {c}]
           t == Append(table, NewEntry(p, c))
           n == Len(table)
<1>1. /\ n \in Nat /\ DOMAIN table = 1 .. n /\ DOMAIN t = 1 .. n + 1
      /\ \A i \in 1 .. n : t[i] = table[i]
      /\ t[n + 1] = NewEntry(p, c)
  BY DEF TypeOK
<1>2. \A q \in Seats : Laid(table, d, q) \subseteq Laid(t, d, q)
  <2> HIDE DEF t, n
  <2>1. \A i \in DOMAIN table : i \in DOMAIN t /\ t[i] = table[i]
    BY <1>1
  <2> QED BY <2>1 DEF Laid, Beaten
<1>3. c \in Laid(t, d, p)
  <2> HIDE DEF t, n
  <2>1. n + 1 \in DOMAIN t /\ t[n + 1].card = c /\ t[n + 1].by = p
    BY <1>1 DEF NewEntry
  <2> QED BY <2>1 DEF Laid
<1>4. h[p] = hands[p] \ {c} /\ \A q \in Seats : q # p => h[q] = hands[q]
  BY DEF TypeOK
<1> HIDE DEF t, h
<1>5. ASSUME NEW q \in Seats
      PROVE  hands[q] \cup Laid(table, d, q) \subseteq h[q] \cup Laid(t, d, q)
  <2>1. CASE q = p
    BY <1>2, <1>3, <1>4, <2>1
  <2>2. CASE q # p
    BY <1>2, <1>4, <2>2
  <2> QED BY <2>1, <2>2
<1> QED BY <1>5 DEF t, h

(* Beating moves a card from the defender's hand to what the defender laid. *)
LEMMA CoverLays ==
  ASSUME TypeOK, NEW i \in Unbeaten(table), NEW c \in hands[defender]
  PROVE  LET h == [hands EXCEPT ![defender] = @ \ {c}]
             t == [table EXCEPT ![i].beatenBy = c]
         IN  \A q \in Seats : hands[q] \cup Laid(table, defender, q)
                                \subseteq h[q] \cup Laid(t, defender, q)
<1> DEFINE h == [hands EXCEPT ![defender] = @ \ {c}]
           t == [table EXCEPT ![i].beatenBy = c]
<1>1. /\ i \in DOMAIN table /\ table[i].beatenBy = NoCard /\ defender \in Seats
      /\ c \in Deck /\ c # NoCard
  BY DeckAssumption DEF Unbeaten, TypeOK
<1>2. /\ DOMAIN t = DOMAIN table /\ t[i].beatenBy = c
      /\ \A j \in DOMAIN table : j # i => t[j].beatenBy = table[j].beatenBy
      /\ \A j \in DOMAIN table : t[j].card = table[j].card /\ t[j].by = table[j].by
  <2>1. table \in Seq(Entry)
    BY DEF TypeOK
  <2>2. /\ DOMAIN t = DOMAIN table
        /\ \A j \in DOMAIN table : j # i => t[j].beatenBy = table[j].beatenBy
        /\ \A j \in DOMAIN table : t[j].card = table[j].card
    BY <1>1, <2>1, EntryCovered
  <2>4. t[i].beatenBy = c
    BY <1>1, <2>1, EntryCovered
  <2>3. \A j \in DOMAIN table : t[j].by = table[j].by
    BY <1>1, <2>1, CoveredBy
  <2> QED BY <2>2, <2>3, <2>4
<1>3. h[defender] = hands[defender] \ {c} /\ \A q \in Seats : q # defender => h[q] = hands[q]
  BY DEF TypeOK
<1> HIDE DEF t, h
<1>4. Beaten(table) \subseteq Beaten(t) /\ i \in Beaten(t) /\ i \notin Beaten(table)
  BY <1>1, <1>2 DEF Beaten
<1>5. \A q \in Seats : Laid(table, defender, q) \subseteq Laid(t, defender, q)
  BY <1>2, <1>4 DEF Laid, Beaten
<1>6. c \in Laid(t, defender, defender)
  BY <1>2, <1>4 DEF Laid
<1>7. ASSUME NEW q \in Seats
      PROVE  hands[q] \cup Laid(table, defender, q) \subseteq h[q] \cup Laid(t, defender, q)
  <2>1. CASE q = defender
    BY <1>3, <1>5, <1>6, <2>1
  <2>2. CASE q # defender
    BY <1>3, <1>5, <2>2
  <2> QED BY <2>1, <2>2
<1> QED BY <1>7 DEF t, h

(* A card that was caught goes back to the hand of who laid it. *)
LEMMA ReturnLays ==
  ASSUME TypeOK, NEW p \in Seats, NEW i \in DOMAIN table, NoticeBeat(p, i) \/ NoticeAttack(p, i)
  PROVE  \A q \in Seats : hands[q] \cup Laid(table, defender, q)
                            \subseteq hands'[q] \cup Laid(table', defender', q)
<1>1. table \in Seq(Entry) /\ defender \in Seats /\ defender' = defender /\ hands \in [Seats -> SUBSET Deck]
  BY DEF TypeOK, NoticeBeat, NoticeAttack, CardReturned, roleVars
<1>2. CASE NoticeBeat(p, i)
  <2> DEFINE c == table[i].beatenBy
             t == [table EXCEPT ![i].beatenBy = NoCard]
  <2>1. i \in Beaten(table) /\ table' = t /\ hands' = [hands EXCEPT ![defender] = @ \cup {c}]
    BY <1>2 DEF NoticeBeat, FakeBeat, CardReturned
  <2>2. /\ DOMAIN t = DOMAIN table
        /\ \A j \in DOMAIN table : j # i => t[j].beatenBy = table[j].beatenBy
        /\ \A j \in DOMAIN table : t[j].card = table[j].card /\ t[j].by = table[j].by
    BY <1>1, EntryCovered, CoveredBy
  <2>3. /\ hands'[defender] = hands[defender] \cup {c}
        /\ \A q \in Seats : q # defender => hands'[q] = hands[q]
    BY <1>1, <2>1
  <2> HIDE DEF c, t
  <2>4. \A j \in Beaten(table) : j # i => j \in Beaten(t)
    BY <2>2 DEF Beaten
  <2>5. \A q \in Seats : Laid(table, defender, q) \subseteq
                           Laid(t, defender, q) \cup (IF q = defender THEN {c} ELSE {})
    BY <2>2, <2>4 DEF Laid, c, Beaten
  <2> QED BY <1>1, <2>1, <2>3, <2>5
<1>3. CASE NoticeAttack(p, i)
  <2> DEFINE cheater == table[i].by
             c == table[i].card
             t == RemoveAt(table, i)
             n == Len(table)
  <2>1. i \in Unbeaten(table) /\ table' = t /\ hands' = [hands EXCEPT ![cheater] = @ \cup {c}]
    BY <1>3 DEF NoticeAttack, FakeThrow, CardReturned
  <2>2. /\ n \in Nat /\ i \in 1 .. n /\ DOMAIN t = 1 .. n - 1 /\ DOMAIN table = 1 .. n
        /\ \A j \in 1 .. n - 1 : t[j] = table[IF j < i THEN j ELSE j + 1]
    BY <1>1, EntryRemoved
  <2>3. cheater \in Seats
    <3>1. table[i] \in Entry
      BY <1>1
    <3> QED BY <3>1 DEF Entry
  <2>4. /\ hands'[cheater] = hands[cheater] \cup {c}
        /\ \A q \in Seats : q # cheater => hands'[q] = hands[q]
    BY <1>1, <2>1, <2>3
  <2> HIDE DEF t, n
  <2>5. \A j \in DOMAIN table : j # i => \E k \in DOMAIN t : t[k] = table[j]
    <3> SUFFICES ASSUME NEW j \in 1 .. n, j # i PROVE \E k \in DOMAIN t : t[k] = table[j]
      BY <2>2
    <3>1. CASE j < i
      BY <2>2, <3>1
    <3>2. CASE j > i
      <4>1. j - 1 \in 1 .. n - 1 /\ ~(j - 1 < i) /\ (j - 1) + 1 = j
        BY <2>2, <3>2
      <4> QED BY <2>2, <4>1
    <3> QED BY <2>2, <3>1, <3>2
  <2>6. \A j \in Beaten(table) : j # i
    BY <2>1 DEF Beaten, Unbeaten
  <2>7. \A q \in Seats : Laid(table, defender, q) \subseteq
                           Laid(t, defender, q) \cup (IF q = cheater THEN {c} ELSE {})
    <3> SUFFICES ASSUME NEW q \in Seats, NEW x \in Laid(table, defender, q)
                 PROVE  x \in Laid(t, defender, q) \/ (q = cheater /\ x = c)
      OBVIOUS
    <3>1. ASSUME NEW j \in DOMAIN table, table[j].by = q, table[j].card = x
          PROVE  x \in Laid(t, defender, q) \/ (q = cheater /\ x = c)
      BY <2>5, <3>1 DEF Laid
    <3>2. ASSUME q = defender, NEW j \in Beaten(table), table[j].beatenBy = x
          PROVE  x \in Laid(t, defender, q)
      BY <2>5, <2>6, <3>2 DEF Laid, Beaten
    <3> QED BY <3>1, <3>2 DEF Laid
  <2> HIDE DEF c, cheater
  <2> QED BY <1>1, <2>1, <2>4, <2>7
<1> QED BY <1>2, <1>3

LEMMA NextStocks ==
  ASSUME StockInv, TypeOK', [Next]_vars
  PROVE  Stocked'
<1>0. /\ TypeOK /\ CardsConserved /\ Stocked /\ PhaseFits
      /\ hands \in HandsType /\ table \in Seq(Entry) /\ defender \in Seats
      /\ Conserved(hands, deck, table, discard)
  BY DEF StockInv, MoveInv, RefInv, TypeOK, HandsType, CardsConserved
<1>1. ASSUME NEW p \in Seats, NEW c \in hands[p], Attack(p, c) PROVE Stocked'
  <2> DEFINE h == [hands EXCEPT ![p] = @ \ {c}]
             t == Append(table, NewEntry(p, c))
  <2>1. /\ \A q \in Seats : hands[q] \cup Laid(table, defender, q) \subseteq h[q] \cup Laid(t, defender, q)
        /\ h \in HandsType /\ t \in Seq(Entry) /\ Conserved(h, deck, t, discard) /\ InPlay
    BY <1>0, <1>1, ThrowLays, PlayType, PlayKeeps DEF Attack, InPlay
  <2>2. CASE closeBoutTaken(h, t, exclusiveLockReleased)
    <3> HIDE DEF h, t
    <3>1. ASSUME deck # <<>>, NEW q \in Seats \ Out(place)
          PROVE  Cardinality(h[q] \cup Laid(t, defender, q)) >= HandSize
      BY <1>0, <2>1, <3>1, LaidType, Larger DEF Stocked
    <3> QED BY <1>0, <2>1, <2>2, <3>1, CloseStocks
  <2>3. CASE hands' = h /\ table' = t /\ UNCHANGED <<deck, roleVars, resultVars>>
    BY <1>0, <2>1, <2>3, OpenStocks DEF roleVars, resultVars
  <2> QED BY <1>1, <2>2, <2>3 DEF Attack
<1>2. ASSUME NEW i \in DOMAIN table, NEW c \in hands[defender], Beat(i, c) PROVE Stocked'
  <2> DEFINE h == [hands EXCEPT ![defender] = @ \ {c}]
             t == [table EXCEPT ![i].beatenBy = c]
  <2>1. i \in Unbeaten(table) /\ InPlay
    BY <1>2 DEF Beat, InPlay
  <2>2. /\ \A q \in Seats : hands[q] \cup Laid(table, defender, q) \subseteq h[q] \cup Laid(t, defender, q)
        /\ Conserved(h, deck, t, discard)
    BY <1>0, <2>1, CoverLays, CoverKeeps
  <2>3. h \in HandsType /\ t \in Seq(Entry)
    <3>1. c \in Deck /\ table[i] \in Entry
      BY <1>0 DEF HandsType
    <3>2. [table[i] EXCEPT !.beatenBy = c] \in Entry
      BY <3>1 DEF Entry
    <3> QED BY <1>0, <3>2 DEF HandsType
  <2>4. CASE closeBoutBeaten(h, t, exclusiveLockReleased)
    <3> HIDE DEF h, t
    <3>1. ASSUME deck # <<>>, NEW q \in Seats \ Out(place)
          PROVE  Cardinality(h[q] \cup Laid(t, defender, q)) >= HandSize
      BY <1>0, <2>1, <2>2, <2>3, <3>1, LaidType, Larger DEF Stocked
    <3> QED BY <1>0, <2>2, <2>3, <2>4, <3>1, CloseStocks
  <2>5. CASE hands' = h /\ table' = t /\ UNCHANGED <<deck, roleVars, resultVars>>
    BY <1>0, <2>1, <2>2, <2>5, OpenStocks DEF roleVars, resultVars
  <2> QED BY <1>2, <2>4, <2>5 DEF Beat
<1>3. ASSUME NEW c \in hands[defender], Translate(c) PROVE Stocked'
  <2> DEFINE h == [hands EXCEPT ![defender] = @ \ {c}]
             t == Append(table, NewEntry(defender, c))
  <2>1. /\ hands' = h /\ table' = t /\ Beaten(table) = {} /\ InPlay
        /\ UNCHANGED <<deck, place>>
    BY <1>3 DEF Translate, canTranslate, InPlay, resultVars
  <2>2. \A q \in Seats : hands[q] \cup Laid(table, defender', q) \subseteq h[q] \cup Laid(t, defender', q)
    BY <1>0, ThrowLays
  <2> HIDE DEF h, t
  <2>3. \A q \in Seats : Laid(table, defender, q) = Laid(table, defender', q)
    BY <2>1 DEF Laid
  <2> QED BY <1>0, <2>1, <2>2, <2>3, OpenStocks
<1>4. ASSUME InPlay, UNCHANGED <<cardVars, roleVars, resultVars>> PROVE Stocked'
  BY <1>0, <1>4, OpenStocks DEF cardVars, roleVars, resultVars
<1>5. ASSUME NEW lock, InPlay,
             closeBoutBeaten(hands, table, lock) \/ closeBoutTaken(hands, table, lock)
      PROVE  Stocked'
  BY <1>0, <1>5, CloseStocks DEF Stocked
<1>6. CASE Take
  BY <1>4, <1>5, <1>6 DEF Take, InPlay
<1>7. ASSUME NEW p \in Seats, Pass(p) PROVE Stocked'
  BY <1>4, <1>5, <1>7 DEF Pass, InPlay
<1>8. ASSUME NEW p \in Seats, NEW i \in DOMAIN table, NoticeBeat(p, i) \/ NoticeAttack(p, i)
      PROVE  Stocked'
  <2>1. InPlay /\ UNCHANGED <<deck, place>>
    BY <1>8 DEF NoticeBeat, NoticeAttack, CardReturned, InPlay, resultVars
  <2> QED BY <1>0, <1>8, <2>1, ReturnLays, OpenStocks
<1>9. CASE UNCHANGED vars
  BY <1>0, <1>9 DEF vars, Stocked, InPlay
<1> QED BY <1>1, <1>2, <1>3, <1>6, <1>7, <1>8, <1>9 DEF Next, GameOver

LEMMA InitStocks == Init => Stocked
<1> SUFFICES ASSUME Init PROVE Stocked
  OBVIOUS
<1>1. PICK order \in DeckOrders :
        hands = [p \in Seats |-> DealtHand(TrumpToBottom(order), p)]
  BY DEF Init
<1> DEFINE d == TrumpToBottom(order)
<1>2. d \in Seq(Deck) /\ IsInjective(d) /\ N * HandSize <= Len(d)
  BY TrumpType, DeckOnce, DealAssumption
<1>3. TypeOK
  BY InitType
<1> HIDE DEF d
<1>4. ASSUME NEW p \in Seats PROVE Cardinality(hands[p]) >= HandSize
  BY <1>1, <1>2, DealFills DEF d
<1>5. ASSUME NEW p \in Seats
      PROVE  Cardinality(hands[p] \cup Laid(table, defender, p)) >= HandSize
  <2>1. hands[p] \in SUBSET Deck /\ hands[p] \cup Laid(table, defender, p) \in SUBSET Deck
    BY <1>3, LaidType DEF TypeOK, HandsType
  <2> QED BY <1>4, <2>1, Larger
<1> QED BY <1>5 DEF Stocked

(* Whatever the players, the deck and the settings, nobody is short between  *)
(* bouts while the pile lasts, and everyone who is in holds a card when it   *)
(* is gone: the round-robin deal, the order of the drawers and the defender  *)
(* who takes and does not draw add up (deal.ts, refillHands, transitions.ts).*)
THEOREM NobodyShort == Spec => []HandsRefilled
<1>1. Init => RolesInPlay /\ PhaseFits /\ CanOpen /\ PassAwaited /\ CardsConserved /\ Stocked
  BY InitRefines, InitMoves, InitKeeps, InitStocks
<1>2. TypeOK /\ RolesInPlay /\ PhaseFits /\ CanOpen /\ PassAwaited /\ CardsConserved /\ Stocked
      /\ TypeOK' /\ [Next]_vars
      => RolesInPlay' /\ PhaseFits' /\ CanOpen' /\ PassAwaited' /\ CardsConserved' /\ Stocked'
  BY NextRefines, NextMoves, NextKeeps, NextStocks DEF StockInv, MoveInv, RefInv, Kept
<1>3. TypeOK /\ PhaseFits /\ CanOpen /\ Stocked => HandsRefilled
  <2> SUFFICES ASSUME TypeOK, PhaseFits, CanOpen, Stocked, status = "bout_attack",
                      NEW p \in Seats, ~Finished(p)
               PROVE  Cardinality(hands[p]) >= (IF deck # <<>> THEN HandSize ELSE 1)
    BY DEF HandsRefilled
  <2>1. p \notin Out(place) /\ InPlay /\ table = <<>> /\ hands[p] \in SUBSET Deck
    BY DEF Out, Finished, InPlay, PhaseFits, TypeOK
  <2>2. CASE deck = <<>>
    BY <2>1, <2>2, SomeCards DEF CanOpen
  <2>3. CASE deck # <<>>
    <3>1. Laid(table, defender, p) = {}
      BY <2>1 DEF Laid, Beaten
    <3>2. hands[p] \cup Laid(table, defender, p) = hands[p]
      BY <3>1
    <3> QED BY <2>1, <2>3, <3>2 DEF Stocked
  <2> QED BY <2>2, <2>3
<1> QED BY <1>1, <1>2, <1>3, TypeCorrect, PTL DEF Spec

-----------------------------------------------------------------------------
(***************************************************************************)
(* The book of cheats.                                                     *)
(***************************************************************************)

(* What CheatHistory rests on: the plays that are called tainted lie on the   *)
(* table, a card that does not beat what it covers is one of them, an entry   *)
(* with two of them is known, and without cheating there is nothing to note.  *)
TaintLies == \A x \in tainted : x[1] \in TableCards(table)

FakesTainted == \A i \in DOMAIN table : FakeBeat(i) => <<table[i].beatenBy, defender>> \in tainted

TwiceKnown ==
  \A i \in Beaten(table) :
    <<table[i].card, table[i].by>> \in tainted /\ <<table[i].beatenBy, defender>> \in tainted
    => table[i].card \in twice

NothingToNote == ~CheatingEnabled => book = NoEntries /\ tainted = {} /\ twice = {}

BookRight == CheatHistory /\ TaintLies /\ FakesTainted /\ TwiceKnown /\ NothingToNote

BookInv == TypeOK /\ CardsConserved /\ BookRight

LEMMA EmptyBook == DOMAIN NoEntries = {}
BY DEF NoEntries

LEMMA CardsOnTable ==
  ASSUME NEW t
  PROVE  /\ \A i \in DOMAIN t : t[i].card \in TableCards(t)
         /\ \A i \in Beaten(t) : i \in DOMAIN t /\ t[i].beatenBy \in TableCards(t)
BY DEF TableCards, Beaten

(* A bout that ends leaves no book. *)
LEMMA ClearedBook ==
  ASSUME book' = NoEntries, tainted' = {}, twice' = {}, table' = <<>>
  PROVE  BookRight'
<1>1. DOMAIN book' = {} /\ DOMAIN table' = {} /\ Beaten(table') = {}
  BY EmptyBook DEF Beaten
<1> QED BY <1>1 DEF BookRight, CheatHistory, TaintLies, FakesTainted, TwiceKnown, NothingToNote

(* A card that comes from a hand is new to the table and to the book. *)
LEMMA CardIsNew ==
  ASSUME BookInv, NEW p \in Seats, NEW c \in hands[p]
  PROVE  /\ c \in Deck /\ c \notin TableCards(table) /\ \A q : <<c, q>> \notin tainted
         /\ c \notin DOMAIN book
<1>1. c \in Deck /\ c \notin TableCards(table)
  BY DEF BookInv, TypeOK, CardsConserved, Conserved, InHands
<1>2. \A q : <<c, q>> \notin tainted
  BY <1>1 DEF BookInv, BookRight, TaintLies
<1>3. \A i \in DOMAIN table : table[i].card \in TableCards(table)
  BY CardsOnTable
<1> QED BY <1>1, <1>2, <1>3 DEF BookInv, BookRight, CheatHistory

(* A throw, legal or not, by an attacker or in a translate. *)
LEMMA ThrowBooks ==
  ASSUME BookInv, NEW p \in Seats, NEW c \in hands[p],
         table' = Append(table, NewEntry(p, c)),
         trumpSuit' = trumpSuit, defender' = defender \/ Beaten(table) = {},
         \/ UNCHANGED bookVars
         \/ CheatingEnabled /\ Noted(c, p) /\ tainted' = Lying(tainted \cup {<<c, p>>}) /\ UNCHANGED twice
  PROVE  BookRight'
<1> DEFINE n == Len(table)
           plays(i) == {<<table'[i].card, table'[i].by>>} \cup
                       (IF i \in Beaten(table') THEN {<<table'[i].beatenBy, defender'>>} ELSE {})
<1>1. /\ n \in Nat /\ DOMAIN table = 1 .. n /\ DOMAIN table' = 1 .. n + 1
      /\ \A i \in 1 .. n : table'[i] = table[i]
      /\ table'[n + 1] = NewEntry(p, c)
  BY DEF BookInv, TypeOK
<1>2. /\ c \in Deck /\ c \notin TableCards(table) /\ \A q : <<c, q>> \notin tainted
      /\ c \notin DOMAIN book
  BY CardIsNew
<1>3. TableCards(table') = TableCards(table) \cup {c}
  BY <1>2, CardLands DEF BookInv, TypeOK, CardsConserved, Conserved
<1>4. /\ \A i \in 1 .. n : plays(i) = Plays(i) /\ (i \in Beaten(table') <=> i \in Beaten(table))
      /\ plays(n + 1) = {<<c, p>>} /\ n + 1 \notin Beaten(table')
  <2> HIDE DEF n
  <2>1. \A i \in 1 .. n : i \in Beaten(table') <=> i \in Beaten(table)
    BY <1>1 DEF Beaten
  <2>2. n + 1 \notin Beaten(table') /\ n + 1 \in DOMAIN table'
    BY <1>1 DEF Beaten, NewEntry
  <2>3. ASSUME NEW i \in 1 .. n PROVE plays(i) = Plays(i)
    <3>1. CASE defender' = defender
      BY <1>1, <2>1, <3>1 DEF Plays
    <3>2. CASE Beaten(table) = {}
      BY <1>1, <2>1, <3>2 DEF Plays
    <3> QED BY <3>1, <3>2
  <2>4. plays(n + 1) = {<<c, p>>}
    BY <1>1, <2>2 DEF NewEntry
  <2> QED BY <2>1, <2>2, <2>3, <2>4
<1>5. \A i \in DOMAIN table' : i \in 1 .. n \/ i = n + 1
  BY <1>1
<1> HIDE DEF n, plays
<1>6. /\ \A i \in 1 .. n : Plays(i) \cap tainted' = Plays(i) \cap tainted
      /\ tainted \subseteq tainted'
  <2>1. CASE UNCHANGED bookVars
    BY <2>1 DEF bookVars
  <2>2. CASE tainted' = Lying(tainted \cup {<<c, p>>})
    <3>1. tainted' = tainted \cup {<<c, p>>}
      BY <1>3, <2>2 DEF Lying, BookInv, BookRight, TaintLies
    <3>2. ASSUME NEW i \in 1 .. n PROVE <<c, p>> \notin Plays(i)
      BY <1>1, <1>2, CardsOnTable DEF Plays
    <3> QED BY <3>1, <3>2
  <2> QED BY <2>1, <2>2
<1>7. TaintLies'
  BY <1>3 DEF TaintLies, BookInv, BookRight, Lying, bookVars
<1>8. FakesTainted'
  <2> SUFFICES ASSUME NEW i \in DOMAIN table', FakeBeat(i)'
               PROVE  <<table'[i].beatenBy, defender'>> \in tainted'
    BY DEF FakesTainted
  <2>1. i \in 1 .. n /\ i \in Beaten(table)
    BY <1>4, <1>5 DEF FakeBeat
  <2>2. defender' = defender
    BY <2>1
  <2>3. FakeBeat(i)
    BY <1>1, <2>1 DEF FakeBeat
  <2> QED BY <1>1, <1>6, <2>1, <2>2, <2>3 DEF FakesTainted, BookInv, BookRight
<1>9. TwiceKnown'
  <2> SUFFICES ASSUME NEW i \in Beaten(table'),
                      <<table'[i].card, table'[i].by>> \in tainted',
                      <<table'[i].beatenBy, defender'>> \in tainted'
               PROVE  table'[i].card \in twice'
    BY DEF TwiceKnown
  <2>1. i \in 1 .. n /\ i \in Beaten(table) /\ defender' = defender /\ table'[i] = table[i]
    BY <1>1, <1>4, <1>5 DEF Beaten
  <2>2. <<table[i].card, table[i].by>> \in tainted /\ <<table[i].beatenBy, defender>> \in tainted
    BY <1>6, <2>1 DEF Plays
  <2> QED BY <2>1, <2>2 DEF TwiceKnown, BookInv, BookRight, bookVars
<1>10. NothingToNote'
  BY DEF NothingToNote, BookInv, BookRight, bookVars
<1>11. CheatHistory'
  <2>1. ASSUME NEW e \in DOMAIN book'
        PROVE  \E i \in DOMAIN table' : table'[i].card = e /\ \E t \in plays(i) \cap tainted' : t[2] = book'[e]
    <3>1. CASE e \in DOMAIN book
      <4>1. book'[e] = book[e]
        BY <1>2, <3>1 DEF Noted, bookVars
      <4>2. PICK i \in 1 .. n : table[i].card = e /\ \E t \in Plays(i) \cap tainted : t[2] = book[e]
        BY <1>1, <3>1 DEF BookInv, BookRight, CheatHistory
      <4> QED BY <1>1, <1>4, <1>6, <4>1, <4>2
    <3>2. CASE e \notin DOMAIN book
      <4>1. e = c /\ book'[e] = p /\ tainted' = Lying(tainted \cup {<<c, p>>})
        BY <2>1, <3>2 DEF Noted, bookVars
      <4>2. <<c, p>> \in tainted'
        BY <1>3, <4>1 DEF Lying
      <4>3. n + 1 \in DOMAIN table' /\ table'[n + 1].card = e
        BY <1>1, <4>1 DEF NewEntry
      <4>4. <<c, p>> \in plays(n + 1) \cap tainted' /\ <<c, p>>[2] = p
        BY <1>4, <4>2
      <4> QED BY <4>1, <4>2, <4>3, <4>4
    <3> QED BY <3>1, <3>2
  <2>2. ASSUME NEW i \in DOMAIN table', plays(i) \cap tainted' # {}
        PROVE  table'[i].card \in DOMAIN book' \cup twice'
    <3>1. CASE i \in 1 .. n
      <4>1. table[i].card \in DOMAIN book \cup twice
        BY <1>1, <1>4, <1>6, <2>2, <3>1 DEF BookInv, BookRight, CheatHistory
      <4> QED BY <1>1, <3>1, <4>1 DEF Noted, bookVars
    <3>2. CASE i = n + 1
      <4>1. table'[i].card = c /\ <<c, p>> \in tainted'
        <5>1. plays(n + 1) \cap tainted' # {} /\ table'[n + 1].card = c
          BY <1>1, <1>4, <2>2, <3>2 DEF NewEntry
        <5> QED BY <1>4, <3>2, <5>1
      <4>2. ~(UNCHANGED bookVars)
        BY <1>2, <4>1 DEF bookVars
      <4> QED BY <4>1, <4>2 DEF Noted
    <3> QED BY <1>5, <3>1, <3>2
  <2> QED BY <2>1, <2>2 DEF CheatHistory, Plays, plays
<1> QED BY <1>7, <1>8, <1>9, <1>10, <1>11 DEF BookRight

LEMMA TaggedCard == ASSUME NEW x, NEW y PROVE <<x, y>>[1] = x /\ <<x, y>>[2] = y
OBVIOUS

(* A beat, legal or not. *)
LEMMA BeatBooks ==
  ASSUME BookInv, NEW i \in Unbeaten(table), NEW c \in hands[defender],
         table' = [table EXCEPT ![i].beatenBy = c],
         UNCHANGED <<trumpSuit, defender>>,
         ~CheatingEnabled => ~isBeatIllegal(i, c), CardBeaten(i, c)
  PROVE  BookRight'
<1> DEFINE plays(j) == {<<table'[j].card, table'[j].by>>} \cup
                       (IF j \in Beaten(table') THEN {<<table'[j].beatenBy, defender'>>} ELSE {})
           e0 == table[i].card
<1>0. /\ table \in Seq(Entry) /\ i \in DOMAIN table /\ defender \in Seats /\ LaidOnce(table)
      /\ defender' = defender /\ trumpSuit' = trumpSuit /\ table[i].beatenBy = NoCard
  BY DEF BookInv, TypeOK, Unbeaten, CardsConserved, Conserved
<1>1. /\ DOMAIN table' = DOMAIN table
      /\ \A j \in DOMAIN table : table'[j].card = table[j].card
      /\ \A j \in DOMAIN table : j # i => table'[j].beatenBy = table[j].beatenBy
      /\ table'[i].beatenBy = c
  <2> DEFINE t1 == [table EXCEPT ![i].beatenBy = c]
  <2>1. /\ DOMAIN t1 = DOMAIN table
        /\ \A j \in DOMAIN table : t1[j].card = table[j].card
        /\ \A j \in DOMAIN table : j # i => t1[j].beatenBy = table[j].beatenBy
        /\ t1[i].beatenBy = c
    BY <1>0, EntryCovered
  <2>2. table' = t1
    OBVIOUS
  <2> HIDE DEF t1
  <2> QED BY <2>1, <2>2
<1>1a. \A j \in DOMAIN table : table'[j].by = table[j].by
  BY <1>0, CoveredBy
<1>2. /\ c \in Deck /\ c # NoCard /\ c \notin TableCards(table) /\ \A q : <<c, q>> \notin tainted
      /\ c \notin DOMAIN book
  BY <1>0, CardIsNew, DeckAssumption
<1>3. TableCards(table') = TableCards(table) \cup {c}
  BY <1>0, <1>2, CardCovers
<1>4. /\ \A j \in DOMAIN table : j # i =>
           /\ plays(j) = Plays(j) /\ (j \in Beaten(table') <=> j \in Beaten(table))
      /\ i \notin Beaten(table) /\ i \in Beaten(table')
      /\ plays(i) = {<<e0, table[i].by>>, <<c, defender>>} /\ Plays(i) = {<<e0, table[i].by>>}
  <2>1. \A j \in DOMAIN table : j # i => (j \in Beaten(table') <=> j \in Beaten(table))
    BY <1>1 DEF Beaten
  <2>2. i \notin Beaten(table) /\ i \in Beaten(table')
    BY <1>0, <1>1, <1>2 DEF Beaten
  <2>3. \A j \in DOMAIN table : j # i => plays(j) = Plays(j)
    BY <1>0, <1>1, <1>1a, <2>1 DEF Plays
  <2>4. plays(i) = {<<e0, table[i].by>>, <<c, defender>>} /\ Plays(i) = {<<e0, table[i].by>>}
    BY <1>0, <1>1, <1>1a, <2>2 DEF Plays
  <2> QED BY <2>1, <2>2, <2>3, <2>4
<1> HIDE DEF plays
<1>5. /\ \A j \in DOMAIN table : Plays(j) \cap tainted' = Plays(j) \cap tainted
      /\ tainted \subseteq tainted'
      /\ isBeatIllegal(i, c) => tainted' = tainted \cup {<<c, defender>>}
  <2>1. CASE ~isBeatIllegal(i, c)
    BY <2>1 DEF CardBeaten, bookVars
  <2>2. CASE isBeatIllegal(i, c)
    <3>1. tainted' = tainted \cup {<<c, defender>>}
      <4>1. tainted' = Lying(tainted \cup {<<c, defender>>})
        BY <2>2 DEF CardBeaten
      <4> QED BY <1>3, <4>1, TaggedCard DEF Lying, BookInv, BookRight, TaintLies
    <3>2. ASSUME NEW j \in DOMAIN table PROVE <<c, defender>> \notin Plays(j)
      BY <1>2, CardsOnTable DEF Plays
    <3> QED BY <3>1, <3>2
  <2> QED BY <2>1, <2>2
<1>6. /\ twice \subseteq twice' /\ DOMAIN book \subseteq DOMAIN book'
      /\ \A e \in DOMAIN book : e # e0 => book'[e] = book[e]
      /\ DOMAIN book' \subseteq DOMAIN book \cup {e0}
  BY DEF CardBeaten, Noted, bookVars
<1>7. TaintLies'
  <2> SUFFICES ASSUME NEW x \in tainted' PROVE x[1] \in TableCards(table')
    BY DEF TaintLies
  <2>1. x \in tainted \/ x = <<c, defender>>
    BY <1>5 DEF CardBeaten, bookVars
  <2> QED BY ZenonT(30), <1>3, <2>1, TaggedCard DEF TaintLies, BookInv, BookRight
<1>8. FakesTainted'
  <2> SUFFICES ASSUME NEW j \in DOMAIN table, FakeBeat(j)'
               PROVE  <<table'[j].beatenBy, defender>> \in tainted'
    BY <1>0, <1>1 DEF FakesTainted
  <2>1. CASE j = i
    <3>1. ~beats(c, e0, trumpSuit)
      BY <1>0, <1>1, <2>1 DEF FakeBeat
    <3> QED BY <1>1, <1>5, <2>1, <3>1 DEF isBeatIllegal
  <2>2. CASE j # i
    <3>1. FakeBeat(j)
      BY <1>0, <1>1, <1>4, <2>2 DEF FakeBeat
    <3> QED BY <1>1, <1>5, <2>2, <3>1 DEF FakesTainted, BookInv, BookRight
  <2> QED BY <2>1, <2>2
<1>9. TwiceKnown'
  <2> SUFFICES ASSUME NEW j \in Beaten(table'),
                      <<table'[j].card, table'[j].by>> \in tainted',
                      <<table'[j].beatenBy, defender>> \in tainted'
               PROVE  table'[j].card \in twice'
    BY <1>0 DEF TwiceKnown
  <2>0. j \in DOMAIN table
    BY <1>1 DEF Beaten
  <2>1. CASE j = i
    <3>1. isBeatIllegal(i, c)
      BY <1>1, <1>2, <2>1 DEF CardBeaten, bookVars
    <3>2. <<e0, table[i].by>> \in tainted
      <4>1. <<e0, table[i].by>> \in tainted'
        BY <1>1, <1>1a, <2>0, <2>1
      <4> QED BY <1>4, <1>5, <2>0, <2>1, <4>1
    <3> QED BY <1>1, <2>0, <2>1, <3>1, <3>2 DEF CardBeaten
  <2>2. CASE j # i
    <3>1. j \in Beaten(table)
      BY <1>4, <2>0, <2>2
    <3>2. <<table[j].card, table[j].by>> \in tainted /\ <<table[j].beatenBy, defender>> \in tainted
      <4>1. <<table[j].card, table[j].by>> \in tainted' /\ <<table[j].beatenBy, defender>> \in tainted'
        BY <1>1, <1>1a, <2>0, <2>2
      <4>2. <<table[j].card, table[j].by>> \in Plays(j) /\ <<table[j].beatenBy, defender>> \in Plays(j)
        BY <3>1 DEF Plays
      <4> QED BY <1>5, <2>0, <4>1, <4>2
    <3> QED BY <1>1, <1>6, <2>0, <3>1, <3>2 DEF TwiceKnown, BookInv, BookRight
  <2> QED BY <2>1, <2>2
<1>10. NothingToNote'
  BY DEF NothingToNote, BookInv, BookRight, bookVars, CardBeaten
<1>11. CheatHistory'
  <2>1. ASSUME NEW e \in DOMAIN book'
        PROVE  \E j \in DOMAIN table : table'[j].card = e /\ \E t \in plays(j) \cap tainted' : t[2] = book'[e]
    <3>1. CASE isBeatIllegal(i, c) /\ e = e0
      <4>1. book'[e] = defender
        BY <3>1 DEF CardBeaten, Noted
      <4>2. <<c, defender>> \in plays(i) \cap tainted'
        BY <1>4, <1>5, <3>1
      <4> QED BY <1>0, <1>1, <3>1, <4>1, <4>2, TaggedCard
    <3>2. CASE e \in DOMAIN book /\ book'[e] = book[e]
      <4>1. PICK j \in DOMAIN table : table[j].card = e /\ \E t \in Plays(j) \cap tainted : t[2] = book[e]
        BY <3>2 DEF BookInv, BookRight, CheatHistory
      <4>2. Plays(j) \subseteq plays(j)
        BY <1>4
      <4> QED BY <1>1, <1>5, <3>2, <4>1, <4>2
    <3> QED BY <1>6, <2>1, <3>1, <3>2 DEF CardBeaten, bookVars
  <2>2. ASSUME NEW j \in DOMAIN table, plays(j) \cap tainted' # {}
        PROVE  table'[j].card \in DOMAIN book' \cup twice'
    <3>1. CASE Plays(j) \cap tainted # {}
      <4>1. table[j].card \in DOMAIN book \cup twice
        BY <3>1 DEF BookInv, BookRight, CheatHistory
      <4> QED BY <1>1, <1>6, <4>1
    <3>2. CASE Plays(j) \cap tainted = {}
      <4>1. j = i
        BY <1>4, <1>5, <2>2, <3>2
      <4>2. <<c, defender>> \in tainted'
        BY <1>4, <1>5, <2>2, <3>2, <4>1
      <4>3. isBeatIllegal(i, c)
        BY <1>2, <4>2 DEF CardBeaten, bookVars
      <4>4. e0 \in DOMAIN book'
        BY <4>3 DEF CardBeaten, Noted
      <4> QED BY <1>1, <4>1, <4>4
    <3> QED BY <3>1, <3>2
  <2> QED BY <1>1, <2>1, <2>2 DEF CheatHistory, Plays, plays
<1> QED BY <1>7, <1>8, <1>9, <1>10, <1>11 DEF BookRight

(* A beat that is called out. *)
LEMMA CalledBeat ==
  ASSUME BookInv, CheatingEnabled, NEW i \in DOMAIN table, FakeBeat(i),
         table' = [table EXCEPT ![i].beatenBy = NoCard],
         UNCHANGED <<trumpSuit, defender>>, CheatNoticed(i)
  PROVE  BookRight'
<1> DEFINE plays(j) == {<<table'[j].card, table'[j].by>>} \cup
                       (IF j \in Beaten(table') THEN {<<table'[j].beatenBy, defender'>>} ELSE {})
           e0 == table[i].card
           b0 == table[i].beatenBy
<1>0. /\ table \in Seq(Entry) /\ i \in Beaten(table) /\ defender \in Seats /\ LaidOnce(table)
      /\ defender' = defender /\ trumpSuit' = trumpSuit /\ b0 # NoCard
  BY DEF BookInv, TypeOK, FakeBeat, Beaten, CardsConserved, Conserved
<1>1. /\ DOMAIN table' = DOMAIN table
      /\ \A j \in DOMAIN table : table'[j].card = table[j].card
      /\ \A j \in DOMAIN table : j # i => table'[j].beatenBy = table[j].beatenBy
      /\ table'[i].beatenBy = NoCard
  <2> DEFINE t1 == [table EXCEPT ![i].beatenBy = NoCard]
  <2>1. /\ DOMAIN t1 = DOMAIN table
        /\ \A j \in DOMAIN table : t1[j].card = table[j].card
        /\ \A j \in DOMAIN table : j # i => t1[j].beatenBy = table[j].beatenBy
        /\ t1[i].beatenBy = NoCard
    BY <1>0, EntryCovered
  <2>2. table' = t1
    OBVIOUS
  <2> HIDE DEF t1
  <2> QED BY <2>1, <2>2
<1>1a. \A j \in DOMAIN table : table'[j].by = table[j].by
  BY <1>0, CoveredBy
<1>2. TableCards(table') = TableCards(table) \ {b0}
  BY <1>0, CardUncovers
<1>2a. Entries(table') = Entries(table)
  BY <1>1 DEF Entries
<1>3. \A j \in DOMAIN table : j # i =>
        table[j].card # e0 /\ table[j].card # b0 /\ (j \in Beaten(table) => table[j].beatenBy # b0)
  BY <1>0 DEF LaidOnce, Beaten
<1>4. /\ \A j \in DOMAIN table : j # i =>
           /\ plays(j) = Plays(j) /\ (j \in Beaten(table') <=> j \in Beaten(table))
      /\ i \notin Beaten(table')
      /\ plays(i) = {<<e0, table[i].by>>}
  <2>1. \A j \in DOMAIN table : j # i => (j \in Beaten(table') <=> j \in Beaten(table))
    BY <1>1 DEF Beaten
  <2>2. i \notin Beaten(table')
    BY <1>1 DEF Beaten
  <2>3. \A j \in DOMAIN table : j # i => plays(j) = Plays(j)
    BY <1>0, <1>1, <1>1a, <2>1 DEF Plays
  <2>4. plays(i) = {<<e0, table[i].by>>}
    BY <1>0, <1>1, <1>1a, <2>2
  <2> QED BY <2>1, <2>2, <2>3, <2>4
<1> HIDE DEF plays
<1>5. /\ tainted' \subseteq tainted
      /\ \A x \in tainted : x[1] # b0 => x \in tainted'
  BY <1>2 DEF CheatNoticed, Lying, BookInv, BookRight, TaintLies
<1>6. \A j \in DOMAIN table : j # i => Plays(j) \cap tainted' = Plays(j) \cap tainted
  <2> SUFFICES ASSUME NEW j \in DOMAIN table, j # i, NEW x \in Plays(j) PROVE x[1] # b0
    BY <1>5
  <2> QED BY <1>3, TaggedCard DEF Plays
<1>7. TaintLies'
  BY DEF TaintLies, CheatNoticed, Lying
<1>8. FakesTainted'
  <2> SUFFICES ASSUME NEW j \in DOMAIN table, FakeBeat(j)'
               PROVE  <<table'[j].beatenBy, defender>> \in tainted'
    BY <1>0, <1>1 DEF FakesTainted
  <2>1. j # i /\ j \in Beaten(table)
    BY <1>4 DEF FakeBeat
  <2>2. FakeBeat(j)
    BY <1>0, <1>1, <2>1 DEF FakeBeat
  <2>3. <<table[j].beatenBy, defender>> \in tainted /\ <<table[j].beatenBy, defender>> \in Plays(j)
    BY <2>1, <2>2 DEF FakesTainted, BookInv, BookRight, Plays
  <2> QED BY <1>1, <1>6, <2>1, <2>3
<1>9. TwiceKnown'
  <2> SUFFICES ASSUME NEW j \in Beaten(table'),
                      <<table'[j].card, table'[j].by>> \in tainted',
                      <<table'[j].beatenBy, defender>> \in tainted'
               PROVE  table'[j].card \in twice'
    BY <1>0 DEF TwiceKnown
  <2>1. j \in DOMAIN table /\ j # i
    BY <1>1, <1>4 DEF Beaten
  <2>2. j \in Beaten(table)
    BY <1>4, <2>1
  <2>3. <<table[j].card, table[j].by>> \in tainted /\ <<table[j].beatenBy, defender>> \in tainted
    BY <1>1, <1>1a, <1>5, <2>1
  <2>4. table[j].card \in twice /\ table[j].card \in Entries(table')
    BY <1>2a, <2>1, <2>2, <2>3 DEF TwiceKnown, BookInv, BookRight, Entries
  <2> QED BY <1>1, <2>1, <2>4 DEF CheatNoticed
<1>10. NothingToNote'
  BY DEF NothingToNote
<1>11. CheatHistory'
  <2>1. ASSUME NEW e \in DOMAIN book'
        PROVE  \E j \in DOMAIN table : table'[j].card = e /\ \E t \in plays(j) \cap tainted' : t[2] = book'[e]
    <3>1. e \in DOMAIN book /\ e # e0 /\ book'[e] = book[e]
      BY <2>1 DEF CheatNoticed
    <3>2. PICK j \in DOMAIN table : table[j].card = e /\ \E t \in Plays(j) \cap tainted : t[2] = book[e]
      BY <3>1 DEF BookInv, BookRight, CheatHistory
    <3>3. j # i
      BY <3>1, <3>2
    <3> QED BY <1>1, <1>4, <1>6, <3>1, <3>2, <3>3
  <2>2. ASSUME NEW j \in DOMAIN table, plays(j) \cap tainted' # {}
        PROVE  table'[j].card \in DOMAIN book' \cup twice'
    <3>1. table[j].card \in Entries(table')
      BY <1>2a DEF Entries
    <3>2. CASE j # i
      <4>1. table[j].card \in DOMAIN book \cup twice
        BY <1>4, <1>6, <2>2, <3>2 DEF BookInv, BookRight, CheatHistory
      <4> QED BY <1>1, <1>3, <3>1, <3>2, <4>1 DEF CheatNoticed
    <3>3. CASE j = i
      <4>1. <<e0, table[i].by>> \in tainted
        BY <1>4, <1>5, <2>2, <3>3
      <4>2. <<b0, defender>> \in tainted
        BY DEF FakesTainted, BookInv, BookRight
      <4>3. e0 \in twice
        BY <1>0, <4>1, <4>2 DEF TwiceKnown, BookInv, BookRight
      <4>4. e0 \in twice'
        <5>1. e0 \in Entries(table')
          BY <3>1, <3>3
        <5> QED BY <4>3, <5>1 DEF CheatNoticed
      <4> QED BY <1>1, <3>3, <4>4
    <3> QED BY <3>2, <3>3
  <2> QED BY <1>1, <2>1, <2>2 DEF CheatHistory, Plays, plays
<1> QED BY <1>7, <1>8, <1>9, <1>10, <1>11 DEF BookRight

(* A throw that is called out: its entry leaves the table. *)
LEMMA CalledThrow ==
  ASSUME BookInv, CheatingEnabled, NEW i \in Unbeaten(table),
         table' = RemoveAt(table, i),
         UNCHANGED <<trumpSuit, defender>>, CheatNoticed(i)
  PROVE  BookRight'
<1> DEFINE plays(j) == {<<table'[j].card, table'[j].by>>} \cup
                       (IF j \in Beaten(table') THEN {<<table'[j].beatenBy, defender'>>} ELSE {})
           e0 == table[i].card
           n == Len(table)
           from(j) == IF j < i THEN j ELSE j + 1
           to(j) == IF j < i THEN j ELSE j - 1
<1>0. /\ table \in Seq(Entry) /\ i \in DOMAIN table /\ i \notin Beaten(table) /\ LaidOnce(table)
      /\ defender' = defender /\ trumpSuit' = trumpSuit /\ DOMAIN table = 1 .. n
  BY DEF BookInv, TypeOK, Unbeaten, Beaten, CardsConserved, Conserved
<1>1. /\ n \in Nat /\ i \in 1 .. n
      /\ DOMAIN table' = 1 .. n - 1
      /\ \A j \in 1 .. n - 1 : table'[j] = table[from(j)]
  BY <1>0, EntryRemoved
<1>1a. /\ \A j \in DOMAIN table' : from(j) \in DOMAIN table /\ from(j) # i
       /\ \A j \in DOMAIN table : j # i => to(j) \in DOMAIN table' /\ from(to(j)) = j
  BY <1>0, <1>1
<1> HIDE DEF n, from, to
<1>1b. \A j \in DOMAIN table' : table'[j] = table[from(j)]
  BY <1>1
<1>2. TableCards(table') = TableCards(table) \ {e0}
  BY <1>0, CardLifts DEF Unbeaten, Beaten
<1>3. \A j \in DOMAIN table : j # i =>
        table[j].card # e0 /\ (j \in Beaten(table) => table[j].beatenBy # e0)
  BY <1>0 DEF LaidOnce, Beaten
<1>4. \A j \in DOMAIN table' :
        plays(j) = Plays(from(j)) /\ (j \in Beaten(table') <=> from(j) \in Beaten(table))
  <2>1. \A j \in DOMAIN table' : j \in Beaten(table') <=> from(j) \in Beaten(table)
    BY <1>1a, <1>1b DEF Beaten
  <2> QED BY <1>0, <1>1b, <2>1 DEF Plays
<1> HIDE DEF plays
<1>5. /\ tainted' \subseteq tainted
      /\ \A x \in tainted : x[1] # e0 => x \in tainted'
  BY <1>2 DEF CheatNoticed, Lying, BookInv, BookRight, TaintLies
<1>6. \A j \in DOMAIN table : j # i => Plays(j) \cap tainted' = Plays(j) \cap tainted
  <2> SUFFICES ASSUME NEW j \in DOMAIN table, j # i, NEW x \in Plays(j) PROVE x[1] # e0
    BY <1>5
  <2> QED BY <1>3, TaggedCard DEF Plays
<1>7. TaintLies'
  BY DEF TaintLies, CheatNoticed, Lying
<1>8. FakesTainted'
  <2> SUFFICES ASSUME NEW j \in DOMAIN table', FakeBeat(j)'
               PROVE  <<table'[j].beatenBy, defender>> \in tainted'
    BY <1>0 DEF FakesTainted
  <2>1. from(j) \in DOMAIN table /\ from(j) # i /\ from(j) \in Beaten(table)
    BY <1>1a, <1>4 DEF FakeBeat
  <2>2. FakeBeat(from(j))
    BY <1>0, <1>1b, <2>1 DEF FakeBeat
  <2>3. <<table[from(j)].beatenBy, defender>> \in tainted \cap Plays(from(j))
    BY <2>1, <2>2 DEF FakesTainted, BookInv, BookRight, Plays
  <2> QED BY <1>1b, <1>6, <2>1, <2>3
<1>9. TwiceKnown'
  <2> SUFFICES ASSUME NEW j \in Beaten(table'),
                      <<table'[j].card, table'[j].by>> \in tainted',
                      <<table'[j].beatenBy, defender>> \in tainted'
               PROVE  table'[j].card \in twice'
    BY <1>0 DEF TwiceKnown
  <2>1. j \in DOMAIN table'
    BY DEF Beaten
  <2>2. from(j) \in Beaten(table) /\ table'[j] = table[from(j)]
    BY <1>1b, <1>4, <2>1
  <2>3. <<table[from(j)].card, table[from(j)].by>> \in tainted
        /\ <<table[from(j)].beatenBy, defender>> \in tainted
    BY <1>5, <2>2
  <2>4. table'[j].card \in twice /\ table'[j].card \in Entries(table')
    BY <2>1, <2>2, <2>3 DEF TwiceKnown, BookInv, BookRight, Entries
  <2> QED BY <2>4 DEF CheatNoticed
<1>10. NothingToNote'
  BY DEF NothingToNote
<1>11. CheatHistory'
  <2>1. ASSUME NEW e \in DOMAIN book'
        PROVE  \E j \in DOMAIN table' : table'[j].card = e /\ \E t \in plays(j) \cap tainted' : t[2] = book'[e]
    <3>1. e \in DOMAIN book /\ e # e0 /\ book'[e] = book[e]
      BY <2>1 DEF CheatNoticed
    <3>2. PICK k \in DOMAIN table : table[k].card = e /\ \E t \in Plays(k) \cap tainted : t[2] = book[e]
      BY <3>1 DEF BookInv, BookRight, CheatHistory
    <3>3. PICK j \in DOMAIN table' : from(j) = k
      BY <1>1a, <3>1, <3>2
    <3>4. k # i
      BY <3>1, <3>2
    <3>5. plays(j) \cap tainted' = Plays(k) \cap tainted
      BY <1>4, <1>6, <3>3, <3>4
    <3> QED BY <1>1b, <3>1, <3>2, <3>3, <3>5
  <2>2. ASSUME NEW j \in DOMAIN table', plays(j) \cap tainted' # {}
        PROVE  table'[j].card \in DOMAIN book' \cup twice'
    <3>1. /\ table'[j].card \in Entries(table') /\ from(j) \in DOMAIN table /\ from(j) # i
          /\ table'[j] = table[from(j)]
      BY <1>1a, <1>1b DEF Entries
    <3>2. Plays(from(j)) \cap tainted # {}
      BY <1>4, <1>6, <2>2, <3>1
    <3>3. table[from(j)].card \in DOMAIN book \cup twice /\ table[from(j)].card # e0
      BY <1>3, <3>1, <3>2 DEF BookInv, BookRight, CheatHistory
    <3> QED BY <3>1, <3>3 DEF CheatNoticed
  <2> QED BY <2>1, <2>2 DEF CheatHistory, Plays, plays
<1> QED BY <1>7, <1>8, <1>9, <1>10, <1>11 DEF BookRight

(* No card moves and none is called out. *)
LEMMA BookKept ==
  ASSUME BookRight, UNCHANGED <<table, trumpSuit, defender>>, UNCHANGED bookVars
  PROVE  BookRight'
<1>1. /\ table' = table /\ trumpSuit' = trumpSuit /\ defender' = defender
      /\ book' = book /\ tainted' = tainted /\ twice' = twice
  BY DEF bookVars
<1>2. \A i : Plays(i)' = Plays(i)
  BY <1>1 DEF Plays
<1> QED BY <1>1, <1>2 DEF BookRight, CheatHistory, TaintLies, FakesTainted, TwiceKnown,
                          NothingToNote, FakeBeat, Plays

(* A bout that ends without cheating had no book to clear. *)
LEMMA NothingCleared ==
  ASSUME BookRight, ~CheatingEnabled, table' = <<>>, UNCHANGED bookVars
  PROVE  BookRight'
BY ClearedBook DEF BookRight, NothingToNote, bookVars

LEMMA NextBooks ==
  ASSUME BookInv, [BookNext]_<<vars, bookVars>>
  PROVE  BookRight'
<1>1. ASSUME NEW p \in Seats, NEW c \in hands[p], Attack(p, c), CardAttacked(p, c)
      PROVE  BookRight'
  <2>1. ~CheatingEnabled => UNCHANGED bookVars
    BY <1>1 DEF CardAttacked, Attack, isAttackIllegal
  <2>2. CASE table' = <<>> /\ ~CheatingEnabled
    BY <2>1, <2>2, NothingCleared DEF BookInv
  <2>3. CASE table' = Append(table, NewEntry(p, c)) /\ UNCHANGED roleVars
    BY <1>1, <2>1, <2>3, ThrowBooks DEF CardAttacked, Attack, roleVars
  <2> QED BY <1>1, <2>2, <2>3 DEF Attack, closeBoutTaken
<1>2. ASSUME NEW i \in DOMAIN table, NEW c \in hands[defender], Beat(i, c), CardBeaten(i, c)
      PROVE  BookRight'
  <2>1. ~CheatingEnabled => ~isBeatIllegal(i, c)
    BY <1>2 DEF Beat, isBeatIllegal
  <2>2. CASE table' = <<>> /\ ~CheatingEnabled
    BY <1>2, <2>1, <2>2, NothingCleared DEF BookInv, CardBeaten
  <2>3. CASE table' = [table EXCEPT ![i].beatenBy = c] /\ UNCHANGED roleVars
    BY <1>2, <2>1, <2>3, BeatBooks DEF Beat, roleVars
  <2> QED BY <1>2, <2>2, <2>3 DEF Beat, closeBoutBeaten
<1>3. ASSUME NEW c \in hands[defender], Translate(c), UNCHANGED bookVars PROVE BookRight'
  BY <1>3, ThrowBooks DEF Translate, canTranslate, BookInv, TypeOK
<1>4. CASE Take /\ UNCHANGED bookVars
  <2>1. CASE table' = <<>> /\ ~CheatingEnabled
    BY <1>4, <2>1, NothingCleared DEF BookInv
  <2>2. CASE UNCHANGED <<cardVars, roleVars>>
    BY <1>4, <2>2, BookKept DEF Take, cardVars, roleVars, BookInv
  <2> QED BY <1>4, <2>1, <2>2 DEF Take, closeBoutTaken
<1>5. ASSUME NEW p \in Seats, Pass(p), IF table' = <<>> THEN BoutEnded ELSE UNCHANGED bookVars
      PROVE  BookRight'
  <2>1. CASE table' = <<>>
    BY <1>5, <2>1, ClearedBook DEF BoutEnded
  <2>2. CASE table' # <<>>
    BY <1>5, <2>2, BookKept DEF Pass, cardVars, roleVars, BookInv, closeBoutBeaten, closeBoutTaken
  <2> QED BY <2>1, <2>2
<1>6. ASSUME NEW p \in Seats, NEW i \in DOMAIN table, NoticeBeat(p, i), CheatNoticed(i)
      PROVE  BookRight'
  BY <1>6, CalledBeat DEF NoticeBeat, CardReturned, canNotice, roleVars
<1>7. ASSUME NEW p \in Seats, NEW i \in DOMAIN table, NoticeAttack(p, i), CheatNoticed(i)
      PROVE  BookRight'
  BY <1>7, CalledThrow DEF NoticeAttack, FakeThrow, CardReturned, canNotice, roleVars
<1>8. CASE UNCHANGED <<vars, bookVars>>
  BY <1>8, BookKept DEF vars, BookInv
<1> QED BY <1>1, <1>2, <1>3, <1>4, <1>5, <1>6, <1>7, <1>8 DEF BookNext, GameOver

LEMMA InitBooks == BookInit => BookRight
<1> SUFFICES ASSUME BookInit PROVE BookRight
  OBVIOUS
<1>1. table = <<>> /\ book = NoEntries /\ tainted = {} /\ twice = {}
  BY DEF BookInit, Init
<1>2. DOMAIN book = {} /\ DOMAIN table = {} /\ Beaten(table) = {}
  BY <1>1, EmptyBook DEF Beaten
<1> QED BY <1>1, <1>2 DEF BookRight, CheatHistory, TaintLies, FakesTainted, TwiceKnown, NothingToNote

(* Laid over the engine, the book watches the game and never changes it. *)
LEMMA BookWatches == BookSpec => Spec
<1>1. BookInit => Init
  BY DEF BookInit
<1>2. [BookNext]_<<vars, bookVars>> => [Next]_vars
  BY DEF BookNext, Next
<1> QED BY <1>1, <1>2, PTL DEF BookSpec, Spec

(* In every game, whatever is thrown, beaten, called out and rolled back: a    *)
(* player the collector would count as an escaped cheat did cheat on that very *)
(* entry, and nobody's cheat on the table is missing from the book.            *)
THEOREM BookTells == BookSpec => []CheatHistory
<1>1. BookSpec => [](TypeOK /\ CardsConserved)
  BY BookWatches, TypeCorrect, Conservation, PTL
<1>2. BookInit => BookRight
  BY InitBooks
<1>3. TypeOK /\ CardsConserved /\ BookRight /\ [BookNext]_<<vars, bookVars>> => BookRight'
  BY NextBooks DEF BookInv
<1>4. BookRight => CheatHistory
  BY DEF BookRight
<1> QED BY <1>1, <1>2, <1>3, <1>4, PTL DEF BookSpec

-----------------------------------------------------------------------------
(***************************************************************************)
(* The page and the engine.                                                *)
(***************************************************************************)

(* What the page relies on: the phase fits the table, and who is finished holds no card. *)
PageInv == TypeOK /\ PhaseFits /\ RolesInPlay

LEMMA CardKinds ==
  ASSUME NEW c \in Deck
  PROVE  \/ /\ isStandard(c) /\ ~isJoker(c) /\ c.suit \in Suits /\ c.rank \in Nat
         \/ isJoker(c) /\ ~isStandard(c) /\ c.color \in Colours
<1>1. CASE c \in StandardCard
  BY <1>1 DEF StandardCard, isStandard, isJoker
<1>2. CASE c \in JokerCard
  BY <1>2 DEF JokerCard, isStandard, isJoker
<1> QED BY <1>1, <1>2, DeckAssumption

(* Both sides judge a beat alike. *)
LEMMA SameBeats ==
  ASSUME NEW d \in Deck, NEW a \in Deck
  PROVE  \A trump : canBeatCard(d, a, trump) <=> beats(d, a, trump)
BY CardKinds DEF canBeatCard, beats

LEMMA SameRanks ==
  ASSUME NEW c \in Deck, NEW d \in Deck
  PROVE  SameRank(c, d) <=> RankKey(c) = RankKey(d) /\ isStandard(c)
BY CardKinds DEF SameRank, RankKey

LEMMA TableInDeck ==
  ASSUME TypeOK
  PROVE  /\ TableCards(table) \subseteq Deck
         /\ \A i \in DOMAIN table : table[i].card \in Deck /\ (i \in Beaten(table) \/ i \in Unbeaten(table))
         /\ table = <<>> \/ Beaten(table) # {} \/ Unbeaten(table) # {}
         /\ \A i \in Unbeaten(table) : i \in DOMAIN table /\ i \notin Beaten(table) /\ table[i].beatenBy = NoCard
<1>0. /\ table \in Seq(Entry) /\ \A i \in DOMAIN table : table[i] \in Entry
  BY DEF TypeOK
<1>1. \A i \in DOMAIN table : table[i].card \in Deck /\ table[i].beatenBy \in Deck \cup {NoCard}
  BY <1>0 DEF Entry
<1>2. table # <<>> => DOMAIN table # {}
  <2> SUFFICES ASSUME table # <<>> PROVE 1 \in DOMAIN table
    OBVIOUS
  <2>1. Len(table) \in Nat /\ DOMAIN table = 1 .. Len(table) /\ Len(table) # 0
    BY <1>0
  <2> QED BY <2>1
<1> QED BY <1>1, <1>2 DEF TableCards, Beaten, Unbeaten

(* A standard card may be thrown by the client's rule when it may by the engine's. *)
LEMMA SameThrows ==
  ASSUME TypeOK, NEW c \in Deck, table # <<>>
  PROVE  /\ matchesAnyRankOnTable(c) => canAttackWith(c, table) \/ isJoker(c)
         /\ canAttackWith(c, table) => matchesAnyRankOnTable(c)
<1>1. TableCards(table) \subseteq Deck
  BY TableInDeck
<1>2. \A d \in TableCards(table) : SameRank(c, d) <=> RankKey(c) = RankKey(d) /\ isStandard(c)
  BY <1>1, SameRanks
<1> QED BY <1>2, CardKinds DEF matchesAnyRankOnTable, canAttackWith, collectTableRanks

(* The lock the client shows is the one that holds a thrower back. *)
LEMMA SameLock ==
  ASSUME TypeOK, NEW p \in Seats, status # "game_over", baseCanThrow(p)
  PROVE  canThrow(p) <=> ~isExclusiveThrowInLocked(redactForPlayer(p))
<1>1. hands[attacker] = {} <=> ~(Cardinality(hands[attacker]) > 0)
  <2> DEFINE h == hands[attacker]
  <2>1. h \in SUBSET Deck
    BY DEF TypeOK
  <2> HIDE DEF h
  <2>2. IsFiniteSet(h) /\ Cardinality(h) \in Nat
    BY <2>1, HandsFinite
  <2>3. Cardinality(h) = 0 <=> h = {}
    BY <2>2, FS_EmptySet
  <2> QED BY <2>2, <2>3 DEF h
<1> QED BY <1>1 DEF TypeOK, canThrow, baseCanThrow, isExclusiveThrowInLocked, redactForPlayer

-----------------------------------------------------------------------------
(* Is a card command accepted, is it offered?  Kind by kind. *)
LEMMA CardOffer ==
  ASSUME TypeOK, NEW p \in Seats, NEW c \in hands[p], NEW type, NEW i,
         [type |-> type, player |-> p, card |-> c, entry |-> i] \in onDragEnd(redactForPlayer(p), c)
  PROVE  [type |-> type, player |-> p, card |-> c, entry |-> i] \in Offered(redactForPlayer(p))
BY DEF Offered, redactForPlayer

LEMMA AttackOffered ==
  ASSUME PageInv, NEW p \in Seats, NEW c \in hands[p],
         Accepts([type |-> "attack", player |-> p, card |-> c, entry |-> 0]),
         canAttackWith(c, table) \/ ~isJoker(c)
  PROVE  [type |-> "attack", player |-> p, card |-> c, entry |-> 0] \in Offered(redactForPlayer(p))
<1> DEFINE v == redactForPlayer(p)
           cmd == [type |-> "attack", player |-> p, card |-> c, entry |-> 0]
<1>0. c \in Deck
  BY DEF PageInv, TypeOK
<1>1. /\ canThrow(p) /\ status # "game_over"
      /\ IF table = <<>> THEN p = attacker ELSE CheatingEnabled \/ matchesAnyRankOnTable(c)
  BY DEF Accepts
<1>2. /\ v.me = p /\ v.status = status /\ v.table = table
      /\ v.currentDefenderId = defender /\ v.currentAttackerId = attacker
  BY DEF redactForPlayer
<1>3. CheatingEnabled \/ canAttackWith(c, v.table)
  BY <1>0, <1>1, <1>2, SameThrows DEF PageInv, canAttackWith
<1>4. ~isExclusiveThrowInLocked(v)
  BY <1>1, SameLock DEF PageInv, canThrow
<1>5. p # defender /\ (AttackerScope = "all" \/ p = attacker)
  BY <1>1, SettingsAssumption DEF canThrow, baseCanThrow
<1>6. canDropOnCenter(v)
  BY <1>1, <1>2, <1>5 DEF canDropOnCenter, PageInv, PhaseFits, TypeOK, Phases
<1> HIDE DEF v
<1>7. cmd \in onDragEnd(v, c)
  BY <1>2, <1>3, <1>4, <1>5, <1>6 DEF onDragEnd
<1> QED BY <1>7, CardOffer DEF v, PageInv

LEMMA BeatOffered ==
  ASSUME PageInv, NEW p \in Seats, NEW c \in hands[p], NEW i \in DOMAIN table,
         Accepts([type |-> "beat", player |-> p, card |-> c, entry |-> i])
  PROVE  [type |-> "beat", player |-> p, card |-> c, entry |-> i] \in Offered(redactForPlayer(p))
<1> DEFINE v == redactForPlayer(p)
           cmd == [type |-> "beat", player |-> p, card |-> c, entry |-> i]
<1>0. c \in Deck /\ table[i].card \in Deck
  BY TableInDeck DEF PageInv, TypeOK
<1>1. /\ p = defender /\ status = "bout_defense" /\ i \in Unbeaten(table)
      /\ CheatingEnabled \/ beats(c, table[i].card, trumpSuit)
  BY DEF Accepts
<1>2. /\ v.me = p /\ v.status = status /\ v.table = table /\ v.trumpSuit = trumpSuit
      /\ v.currentDefenderId = defender
  BY DEF redactForPlayer
<1> HIDE DEF v
<1>3. cmd \in onDragEnd(v, c)
  BY <1>0, <1>1, <1>2, SameBeats DEF onDragEnd, droppableAttackIds
<1> QED BY <1>3, CardOffer DEF v, PageInv

LEMMA TranslateOffered ==
  ASSUME PageInv, NEW p \in Seats, NEW c \in hands[p],
         Accepts([type |-> "translate", player |-> p, card |-> c, entry |-> 0])
  PROVE  [type |-> "translate", player |-> p, card |-> c, entry |-> 0] \in Offered(redactForPlayer(p))
<1> DEFINE v == redactForPlayer(p)
           cmd == [type |-> "translate", player |-> p, card |-> c, entry |-> 0]
<1>0. c \in Deck
  BY DEF PageInv, TypeOK
<1>1. p = defender /\ status \notin {"game_over", "bout_take_pending"} /\ canTranslate(c)
  BY DEF Accepts
<1>2. /\ v.me = p /\ v.status = status /\ v.table = table
      /\ v.currentDefenderId = defender
  BY DEF redactForPlayer
<1>3. status = "bout_defense"
  BY <1>1, TableInDeck DEF canTranslate, PageInv, PhaseFits, TypeOK, Phases
<1>4. canTranslateWith(c, v.table)
  BY <1>0, <1>1, <1>2, TableInDeck, SameRanks DEF canTranslate, canTranslateWith, PageInv
<1> HIDE DEF v
<1>5. cmd \in onDragEnd(v, c)
  BY <1>1, <1>2, <1>3, <1>4 DEF onDragEnd, canDropOnCenter
<1> QED BY <1>5, CardOffer DEF v, PageInv

LEMMA ButtonOffered ==
  ASSUME PageInv, NEW p \in Seats
  PROVE  /\ Accepts([type |-> "take", player |-> p, card |-> NoCard, entry |-> 0])
            /\ Unbeaten(table) # {} =>
            [type |-> "take", player |-> p, card |-> NoCard, entry |-> 0] \in Offered(redactForPlayer(p))
         /\ Accepts([type |-> "pass", player |-> p, card |-> NoCard, entry |-> 0]) =>
            [type |-> "pass", player |-> p, card |-> NoCard, entry |-> 0] \in Offered(redactForPlayer(p))
<1> DEFINE v == redactForPlayer(p)
           take == [type |-> "take", player |-> p, card |-> NoCard, entry |-> 0]
           pass == [type |-> "pass", player |-> p, card |-> NoCard, entry |-> 0]
<1>1. /\ v.me = p /\ v.status = status /\ v.table = table /\ ~v.isSpectator
      /\ v.currentDefenderId = defender /\ v.currentAttackerId = attacker
      /\ v.isFinished[p] = Finished(p) /\ v.isPassed[p] = (p \in passed)
  BY DEF redactForPlayer
<1> HIDE DEF v
<1>2. ASSUME Accepts(take), Unbeaten(table) # {} PROVE take \in Offered(v)
  <2>1. p = defender /\ status \in {"bout_defense", "bout_settle"}
    BY <1>2 DEF Accepts
  <2>2. showTake(v)
    BY <1>1, <1>2, <2>1 DEF showTake, PageInv, PhaseFits
  <2>3. take \in (IF showTake(v) THEN {[type |-> "take", player |-> v.me, card |-> NoCard, entry |-> 0]} ELSE {})
    BY <1>1, <2>2
  <2> QED BY <1>1, <2>3, Zenon DEF Offered
<1>3. ASSUME Accepts(pass) PROVE pass \in Offered(v)
  <2>1. status \in {"bout_settle", "bout_take_pending"} /\ baseCanThrow(p) /\ p \notin passed
    BY <1>3 DEF Accepts
  <2>2. playerCanPass(v)
    BY <1>1, <2>1 DEF playerCanPass, baseCanThrow
  <2>3. pass \in (IF playerCanPass(v) THEN {[type |-> "pass", player |-> v.me, card |-> NoCard, entry |-> 0]} ELSE {})
    BY <1>1, <2>2
  <2> QED BY <1>1, <2>3, Zenon DEF Offered
<1> QED BY <1>2, <1>3 DEF v

LEMMA FlagOffered ==
  ASSUME PageInv, NEW p \in Seats, NEW i \in DOMAIN table,
         Accepts([type |-> "notice_cheat", player |-> p, card |-> NoCard, entry |-> i])
  PROVE  [type |-> "notice_cheat", player |-> p, card |-> NoCard, entry |-> i] \in Offered(redactForPlayer(p))
<1> DEFINE v == redactForPlayer(p)
           cmd == [type |-> "notice_cheat", player |-> p, card |-> NoCard, entry |-> i]
<1>1. /\ v.me = p /\ v.table = table /\ ~v.isSpectator /\ v.currentDefenderId = defender
  BY DEF redactForPlayer
<1> HIDE DEF v
<1>2. \/ FakeBeat(i) /\ canNotice(p, defender, TRUE)
      \/ FakeThrow(i) /\ canNotice(p, table[i].by, FALSE)
  BY DEF Accepts
<1>3. canPlayerNoticeEntry(v, i)
  BY <1>1, <1>2, TableInDeck, SettingsAssumption
     DEF canPlayerNoticeEntry, canNotice, FakeBeat, FakeThrow, Beaten, PageInv
<1>4. cmd \in Offered(v)
  <2>1. i \in {j \in DOMAIN v.table : canPlayerNoticeEntry(v, j)}
    BY <1>1, <1>3
  <2>2. cmd \in {[type |-> "notice_cheat", player |-> v.me, card |-> NoCard, entry |-> j] :
                  j \in {j \in DOMAIN v.table : canPlayerNoticeEntry(v, j)}}
    BY <1>1, <2>1
  <2> QED BY <1>1, <2>2, Zenon DEF Offered
<1> QED BY <1>4 DEF v

LEMMA PageOffers == PageInv => MovesOffered
<1> SUFFICES ASSUME PageInv, NEW p \in Seats, NEW cmd \in Commands(p), Accepts(cmd)
             PROVE  \/ cmd \in Offered(redactForPlayer(p))
                    \/ cmd.type = "take" /\ Unbeaten(table) = {}
                    \/ cmd.type = "attack" /\ isJoker(cmd.card) /\ ~canAttackWith(cmd.card, table)
  BY DEF MovesOffered
<1>1. ASSUME NEW c \in hands[p], cmd = [type |-> "attack", player |-> p, card |-> c, entry |-> 0]
      PROVE  cmd \in Offered(redactForPlayer(p)) \/ (isJoker(cmd.card) /\ ~canAttackWith(cmd.card, table) /\ cmd.type = "attack")
  BY <1>1, AttackOffered
<1>2. ASSUME NEW c \in hands[p], cmd = [type |-> "translate", player |-> p, card |-> c, entry |-> 0]
      PROVE  cmd \in Offered(redactForPlayer(p))
  BY <1>2, TranslateOffered
<1>3. ASSUME NEW c \in hands[p], NEW i \in DOMAIN table,
             cmd = [type |-> "beat", player |-> p, card |-> c, entry |-> i]
      PROVE  cmd \in Offered(redactForPlayer(p))
  BY <1>3, BeatOffered
<1>4. ASSUME cmd = [type |-> "take", player |-> p, card |-> NoCard, entry |-> 0]
      PROVE  cmd \in Offered(redactForPlayer(p)) \/ (Unbeaten(table) = {} /\ cmd.type = "take")
  BY <1>4, ButtonOffered
<1>5. ASSUME cmd = [type |-> "pass", player |-> p, card |-> NoCard, entry |-> 0]
      PROVE  cmd \in Offered(redactForPlayer(p))
  BY <1>5, ButtonOffered
<1>6. ASSUME NEW i \in DOMAIN table,
             cmd = [type |-> "notice_cheat", player |-> p, card |-> NoCard, entry |-> i]
      PROVE  cmd \in Offered(redactForPlayer(p))
  BY <1>6, FlagOffered
<1> QED BY <1>1, <1>2, <1>3, <1>4, <1>5, <1>6 DEF Commands


-----------------------------------------------------------------------------
(* The other way: what is offered without cheating, kind by kind. *)
LEMMA OfferedKinds ==
  ASSUME NEW p \in Seats, NEW cmd \in Offered(redactForPlayer(p))
  PROVE  \/ \E c \in hands[p] : cmd \in onDragEnd(redactForPlayer(p), c)
         \/ /\ showTake(redactForPlayer(p))
            /\ cmd = [type |-> "take", player |-> p, card |-> NoCard, entry |-> 0]
         \/ /\ playerCanPass(redactForPlayer(p))
            /\ cmd = [type |-> "pass", player |-> p, card |-> NoCard, entry |-> 0]
         \/ \E i \in DOMAIN table : canPlayerNoticeEntry(redactForPlayer(p), i)
<1> DEFINE v == redactForPlayer(p)
<1>1. v.me = p /\ v.table = table /\ ~v.isSpectator /\ v.hand = hands[p]
  BY DEF redactForPlayer
<1> HIDE DEF v
<1>2. \/ cmd \in UNION {onDragEnd(v, c) : c \in v.hand}
      \/ cmd \in (IF showTake(v) THEN {[type |-> "take", player |-> v.me, card |-> NoCard, entry |-> 0]} ELSE {})
      \/ cmd \in (IF playerCanPass(v) THEN {[type |-> "pass", player |-> v.me, card |-> NoCard, entry |-> 0]} ELSE {})
      \/ cmd \in {[type |-> "notice_cheat", player |-> v.me, card |-> NoCard, entry |-> i] :
                     i \in {i \in DOMAIN v.table : canPlayerNoticeEntry(v, i)}}
  <2>1. cmd \in Offered(v)
    BY DEF v
  <2> QED BY <1>1, <2>1, Zenon DEF Offered
<1>3. CASE cmd \in UNION {onDragEnd(v, c) : c \in v.hand}
  BY <1>1, <1>3 DEF v
<1>4. CASE cmd \in (IF showTake(v) THEN {[type |-> "take", player |-> v.me, card |-> NoCard, entry |-> 0]} ELSE {})
  BY <1>1, <1>4 DEF v
<1>5. CASE cmd \in (IF playerCanPass(v) THEN {[type |-> "pass", player |-> v.me, card |-> NoCard, entry |-> 0]} ELSE {})
  BY <1>1, <1>5 DEF v
<1>6. CASE cmd \in {[type |-> "notice_cheat", player |-> v.me, card |-> NoCard, entry |-> i] :
                     i \in {i \in DOMAIN v.table : canPlayerNoticeEntry(v, i)}}
  BY <1>1, <1>6 DEF v
<1> QED BY <1>2, <1>3, <1>4, <1>5, <1>6

LEMMA RoomIsNat == TypeOK => attacksRemaining(table) \in Nat
<1> SUFFICES ASSUME TypeOK PROVE attacksRemaining(table) \in Nat
  OBVIOUS
<1> DEFINE caps == {limit(firstDefenseHappened, initialDefenderHandSize), initialDefenderHandSize}
<1>1. Len(table) \in Nat /\ initialDefenderHandSize \in Nat
  BY DEF TypeOK
<1>2. caps \in SUBSET Nat /\ caps # {}
  BY <1>1, SettingsAssumption DEF limit
<1>3. Min(caps) \in Nat
  BY <1>2, MinOfNaturals
<1> HIDE DEF caps
<1>4. attacksRemaining(table) = (IF Min(caps) > Len(table) THEN Min(caps) - Len(table) ELSE 0)
  BY DEF attacksRemaining, caps
<1> QED BY <1>1, <1>3, <1>4

LEMMA DropAccepted ==
  ASSUME PageInv, ResultHonest, ~CheatingEnabled, NEW p \in Seats, NEW c \in hands[p],
         NEW cmd \in onDragEnd(redactForPlayer(p), c)
  PROVE  \/ Accepts(cmd)
         \/ cmd.type = "attack" /\ attacksRemaining(table) = 0
         \/ cmd.type = "translate" /\ \/ isJoker(cmd.card)
                                      \/ Len(table) + 1 > Cardinality(hands[nextActivePlayerIndex(place, defender)])
                                      \/ Len(table) + 1 > limit(firstDefenseHappened, initialDefenderHandSize)
<1> DEFINE v == redactForPlayer(p)
<1>0. c \in Deck /\ ~Finished(p)
  BY DEF PageInv, TypeOK, ResultHonest, PlacesInOrder, Finished, Out
<1>1. /\ v.me = p /\ v.status = status /\ v.table = table /\ v.trumpSuit = trumpSuit
      /\ v.currentDefenderId = defender /\ v.currentAttackerId = attacker
  BY DEF redactForPlayer
<1> HIDE DEF v
<1>2. \/ \E i \in droppableAttackIds(v) :
            /\ cmd = [type |-> "beat", player |-> p, card |-> c, entry |-> i]
            /\ canBeatCard(c, table[i].card, trumpSuit)
      \/ /\ cmd = [type |-> "translate", player |-> p, card |-> c, entry |-> 0]
         /\ p = defender /\ status = "bout_defense" /\ canTranslateWith(c, table)
      \/ /\ cmd = [type |-> "attack", player |-> p, card |-> c, entry |-> 0]
         /\ canDropOnCenter(v) /\ ~(p = defender /\ status = "bout_defense")
         /\ ~isExclusiveThrowInLocked(v) /\ canAttackWith(c, table)
  BY <1>1, Zenon DEF onDragEnd, v
<1>3. ASSUME NEW i \in droppableAttackIds(v),
             cmd = [type |-> "beat", player |-> p, card |-> c, entry |-> i],
             canBeatCard(c, table[i].card, trumpSuit)
      PROVE  Accepts(cmd)
  <2>1. p = defender /\ status = "bout_defense" /\ i \in Unbeaten(table)
    BY <1>1, <1>3 DEF droppableAttackIds
  <2>2. beats(c, table[i].card, trumpSuit)
    BY <1>0, <1>3, <2>1, TableInDeck, SameBeats DEF PageInv
  <2> QED BY <1>3, <2>1, <2>2 DEF Accepts
<1>4. ASSUME cmd = [type |-> "translate", player |-> p, card |-> c, entry |-> 0],
             p = defender, status = "bout_defense", canTranslateWith(c, table), ~isJoker(c),
             ~(Len(table) + 1 > Cardinality(hands[nextActivePlayerIndex(place, defender)])),
             ~(Len(table) + 1 > limit(firstDefenseHappened, initialDefenderHandSize))
      PROVE  Accepts(cmd)
  <2>1. Len(table) \in Nat /\ limit(firstDefenseHappened, initialDefenderHandSize) \in Nat
    BY SettingsAssumption DEF PageInv, TypeOK, limit
  <2>2. nextActivePlayerIndex(place, defender) \in Seats
    BY NextActiveType DEF PageInv, TypeOK
  <2>3. Cardinality(hands[nextActivePlayerIndex(place, defender)]) \in Nat
    BY <2>2, HandsFinite DEF PageInv, TypeOK
  <2>4. isStandard(c) /\ \A i \in DOMAIN table : SameRank(table[i].card, c)
    BY <1>0, <1>4, CardKinds, TableInDeck, SameRanks DEF canTranslateWith, PageInv, SameRank
  <2>5. table # <<>> /\ Beaten(table) = {}
    BY <1>4 DEF canTranslateWith, Beaten
  <2>6. canTranslate(c)
    BY <1>4, <2>1, <2>3, <2>4, <2>5 DEF canTranslate
  <2> QED BY <1>4, <2>1, <2>6 DEF Accepts
<1>5. ASSUME cmd = [type |-> "attack", player |-> p, card |-> c, entry |-> 0],
             canDropOnCenter(v), ~(p = defender /\ status = "bout_defense"),
             ~isExclusiveThrowInLocked(v), canAttackWith(c, table), attacksRemaining(table) # 0
      PROVE  Accepts(cmd)
  <2>1. /\ p # defender /\ status \in {"bout_attack", "bout_defense", "bout_settle", "bout_take_pending"}
        /\ AttackerScope = "attacker_only" => p = attacker
        /\ status = "bout_attack" => p = attacker
    BY <1>1, <1>5, SettingsAssumption DEF canDropOnCenter
  <2>2. canThrow(p)
    BY <1>0, <1>5, <2>1, SameLock DEF baseCanThrow, PageInv, v
  <2>3. attacksRemaining(table) > 0
    BY <1>5, RoomIsNat DEF PageInv
  <2>4. table = <<>> => p = attacker
    BY <2>1 DEF PageInv, PhaseFits
  <2>5. table # <<>> => matchesAnyRankOnTable(c)
    BY <1>0, <1>5, SameThrows DEF PageInv
  <2> QED BY <1>5, <2>1, <2>2, <2>3, <2>4, <2>5 DEF Accepts
<1> QED BY <1>2, <1>3, <1>4, <1>5

LEMMA PageAccepts == PageInv /\ ResultHonest => MovesAccepted
<1> SUFFICES ASSUME PageInv, ResultHonest, ~CheatingEnabled,
                    NEW p \in Seats, NEW cmd \in Offered(redactForPlayer(p))
             PROVE  \/ Accepts(cmd)
                    \/ cmd.type = "attack" /\ attacksRemaining(table) = 0
                    \/ cmd.type = "translate" /\ \/ isJoker(cmd.card)
                                                 \/ Len(table) + 1 > limit(firstDefenseHappened, initialDefenderHandSize)
                                                 \/ Len(table) + 1 > Cardinality(hands[nextActivePlayerIndex(place, defender)])
  BY DEF MovesAccepted
<1> DEFINE v == redactForPlayer(p)
<1>1. /\ v.me = p /\ v.status = status /\ v.table = table
      /\ v.currentDefenderId = defender /\ v.currentAttackerId = attacker
      /\ v.isFinished[p] = Finished(p) /\ v.isPassed[p] = (p \in passed)
  BY DEF redactForPlayer
<1> HIDE DEF v
<1>2. CASE \E c \in hands[p] : cmd \in onDragEnd(v, c)
  BY <1>2, DropAccepted DEF v
<1>3. CASE showTake(v) /\ cmd = [type |-> "take", player |-> p, card |-> NoCard, entry |-> 0]
  <2>1. p = defender /\ status = "bout_defense" /\ table # <<>>
    BY <1>1, <1>3 DEF showTake, PageInv, PhaseFits
  <2> QED BY <1>3, <2>1 DEF Accepts
<1>4. CASE playerCanPass(v) /\ cmd = [type |-> "pass", player |-> p, card |-> NoCard, entry |-> 0]
  BY <1>1, <1>4 DEF playerCanPass, Accepts, baseCanThrow
<1>5. CASE \E i \in DOMAIN table : canPlayerNoticeEntry(v, i)
  BY <1>5 DEF canPlayerNoticeEntry
<1> QED BY <1>2, <1>3, <1>4, <1>5, OfferedKinds DEF v

(* The page and the engine agree in every state of every game: the phases the *)
(* buttons are read from fit the table, and the client's card rules are the   *)
(* engine's (legality.ts, GamePage.tsx).  No move is kept from a player, but  *)
(* for the two exceptions MovesOffered names.                                 *)
THEOREM PageKeepsNothingBack == Spec => []MovesOffered
<1>1. Init => RolesInPlay /\ PhaseFits
  BY InitRefines
<1>2. TypeOK /\ RolesInPlay /\ PhaseFits /\ TypeOK' /\ [Next]_vars => RolesInPlay' /\ PhaseFits'
  BY NextRefines DEF RefInv, Kept
<1>3. TypeOK /\ RolesInPlay /\ PhaseFits => MovesOffered
  BY PageOffers DEF PageInv
<1> QED BY <1>1, <1>2, <1>3, TypeCorrect, PTL DEF Spec

(* And without cheating no move is offered that the engine would refuse, but   *)
(* for what the client leaves to the server: for this a player who is out must *)
(* hold no card, or the page would let them play it.                           *)
THEOREM PageOffersNothingForbidden == Spec => []MovesAccepted
<1>1. Init => RolesInPlay /\ PhaseFits
  BY InitRefines
<1>2. TypeOK /\ RolesInPlay /\ PhaseFits /\ TypeOK' /\ [Next]_vars => RolesInPlay' /\ PhaseFits'
  BY NextRefines DEF RefInv, Kept
<1>3. TypeOK /\ RolesInPlay /\ PhaseFits /\ ResultHonest => MovesAccepted
  BY PageAccepts DEF PageInv
<1> QED BY <1>1, <1>2, <1>3, TypeCorrect, ResultRight, PTL DEF Spec
=============================================================================
