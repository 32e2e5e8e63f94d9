---------------------------- MODULE ScreenProofs -----------------------------
(***************************************************************************)
(* What the web client shows, for every set of players, calls and bounds:  *)
(* each part proved from an invariant of its own.                          *)
(***************************************************************************)
EXTENDS Effects, Desk, Lounge, Shell, FiniteSetTheorems, TLAPS

(***************************************************************************)
(* Bubbles, phrases and flying cards                                       *)
(***************************************************************************)
PhrasesType ==
  /\ preset \in {"none", "off", "on"} /\ own \in [Speakers -> Nat] /\ paced \subseteq Speakers
  /\ speech \in [Speeches -> Speech \cup {Nil}] /\ crowded \subseteq Speakers
  /\ bubble \in [Speakers -> [Bubbles -> Nat]] /\ timer \subseteq Speakers \X Bubbles \X Nat
  /\ spoken \in Nat /\ moved \subseteq Nat
TablesType ==
  /\ tables \in Seq(Snapshot) /\ tables # <<>> /\ drawn \in 0..Len(tables) /\ flown \in Seq(Play)
  /\ older \in BOOLEAN

(* A create that has counted still has room, and is the only one of its player;
   unless two of the player's counted before either wrote. *)
Creates(r) == speech[r] # Nil /\ speech[r].what = "create"
RoomKept ==
  \A r \in Speeches : Creates(r) /\ speech[r].who \notin crowded =>
    /\ own[speech[r].who] < Cap
    /\ \A q \in Speeches : Creates(q) /\ speech[q].who = speech[r].who => q = r

(* Two tuples are the same play if they agree on its kind and number. *)
PlaysOn(k) == Plays(tables[k])
SamePlay(p, q) == p[1] = q[1] /\ p[4] = q[4]

(* The plays on a snapshot have numbers that are used up, its beats are the
   defender's. *)
TableFits(k) ==
  \A p \in PlaysOn(k) : p[4] < tables[k].next /\ (p[1] = "beat" => p[3] = tables[k].defender)

(* Numbers are used up in order, a play is the same on every snapshot, and what left
   the table does not come back: a beat made again is another play. *)
TablesFit ==
  /\ \A k \in 1..Len(tables) : TableFits(k)
  /\ \A k, m \in 1..Len(tables) : k <= m => tables[k].next <= tables[m].next
  /\ \A k, m \in 1..Len(tables) : \A p \in PlaysOn(k), q \in PlaysOn(m) : SamePlay(p, q) => p = q
  /\ \A k, m, n \in 1..Len(tables) : k <= m /\ m <= n => PlaysOn(k) \cap PlaysOn(n) \subseteq PlaysOn(m)

(* What flew lay on a snapshot that was drawn, and so did what was old. *)
FlightsFit ==
  /\ drawn = 0 => flown = <<>> /\ ~older
  /\ drawn # 0 => seen = Tokens(tables[drawn])
  /\ ~older =>
       /\ \A i \in 1..Len(flown) : flown[i] \notin old /\ \E k \in 1..drawn : flown[i] \in PlaysOn(k)
       /\ \A i, j \in 1..Len(flown) : SamePlay(flown[i], flown[j]) => i = j
       /\ \A p \in old : \E k \in 1..drawn : p \in PlaysOn(k)

PhrasesInv == PhrasesType /\ BubbleFades /\ CapKept /\ RoomKept
FlightsInv == TablesType /\ TablesFit /\ FlightsFit /\ NoneAppears

LEMMA FloatsKeeps ==
  ASSUME PhrasesInv, NEW u \in Speakers, NEW kind \in Bubbles, Floats(u, kind), moved' = moved
  PROVE  /\ bubble' \in [Speakers -> [Bubbles -> Nat]] /\ timer' \subseteq Speakers \X Bubbles \X Nat /\ spoken' \in Nat
         /\ BubbleFades'
<1> USE DEF PhrasesInv, PhrasesType
<1> DEFINE n == spoken + 1
<1>1. n \in Nat /\ spoken' = n
  BY DEF Floats
<1>2. bubble' = [bubble EXCEPT ![u][kind] = n] /\ timer' = {t \in timer : ~(t[1] = u /\ t[2] = kind)} \cup {<<u, kind, n>>}
  BY DEF Floats
<1> HIDE DEF n
<1>3. bubble' \in [Speakers -> [Bubbles -> Nat]]
  BY <1>1, <1>2
<1>4. timer' \subseteq Speakers \X Bubbles \X Nat
  BY <1>1, <1>2
<1>5. ASSUME NEW v \in Speakers, NEW k \in Bubbles, bubble'[v][k] > 0
      PROVE  bubble'[v][k] \in moved \/ <<v, k, bubble'[v][k]>> \in timer'
  <2>1. CASE v = u /\ k = kind
    BY <1>2, <2>1
  <2>2. CASE ~(v = u /\ k = kind)
    <3>1. bubble'[v][k] = bubble[v][k]
      BY <1>2, <2>2
    <3>2. bubble[v][k] \in moved \/ <<v, k, bubble[v][k]>> \in timer
      BY <1>5, <3>1 DEF BubbleFades
    <3> QED BY <1>2, <2>2, <3>1, <3>2
  <2> QED BY <2>1, <2>2
<1> QED BY <1>1, <1>3, <1>4, <1>5 DEF BubbleFades

(* A bubble's own timer takes it away, another's leaves it; a page that goes to
   another game leaves the bubbles and remembers their numbers. *)
LEMMA BubblesKeep ==
  ASSUME PhrasesInv, (\E t \in timer : BubbleEnds(t)) \/ \E s \in OtherTables : GoesToGame(s)
  PROVE  PhrasesInv'
<1> USE DEF PhrasesInv, PhrasesType, phraseVars
<1>1. ASSUME NEW t \in timer, BubbleEnds(t) PROVE PhrasesInv'
  <2>1. PICK u \in Speakers, kind \in Bubbles, n \in Nat : t = <<u, kind, n>>
    OBVIOUS
  <2>2. /\ timer' = timer \ {<<u, kind, n>>} /\ UNCHANGED <<preset, own, paced, speech, crowded, spoken, moved>>
        /\ bubble' = IF bubble[u][kind] = n THEN [bubble EXCEPT ![u][kind] = 0] ELSE bubble
    BY <1>1, <2>1 DEF BubbleEnds
  <2>3. bubble' \in [Speakers -> [Bubbles -> Nat]]
    BY <2>2
  <2>4. ASSUME NEW v \in Speakers, NEW k \in Bubbles, bubble'[v][k] > 0
        PROVE  bubble'[v][k] \in moved \/ <<v, k, bubble'[v][k]>> \in timer'
    <3>1. CASE v = u /\ k = kind /\ bubble[u][kind] = n
      <4>1. bubble'[v][k] = 0
        BY <2>2, <3>1
      <4> QED BY <2>4, <4>1
    <3>2. CASE ~(v = u /\ k = kind /\ bubble[u][kind] = n)
      <4>1. bubble'[v][k] = bubble[v][k]
        BY <2>2, <3>2
      <4>2. bubble[v][k] \in moved \/ <<v, k, bubble[v][k]>> \in timer
        BY <2>4, <4>1 DEF BubbleFades
      <4> QED BY <2>2, <3>2, <4>1, <4>2
    <3> QED BY <3>1, <3>2
  <2>5. BubbleFades'
    BY <2>2, <2>4 DEF BubbleFades
  <2> QED BY <2>2, <2>3, <2>5 DEF CapKept, RoomKept, Creates
<1>2. CASE \E s \in OtherTables : GoesToGame(s)
  <2>1. /\ timer' = {} /\ moved' = moved \cup {t[3] : t \in timer}
        /\ UNCHANGED <<preset, own, paced, speech, crowded, spoken, bubble>>
    BY <1>2 DEF GoesToGame
  <2>2. moved' \subseteq Nat
    BY <2>1
  <2>3. ASSUME NEW v \in Speakers, NEW k \in Bubbles, bubble[v][k] > 0 PROVE bubble[v][k] \in moved'
    <3>1. CASE bubble[v][k] \in moved
      BY <2>1, <3>1
    <3>2. CASE <<v, k, bubble[v][k]>> \in timer
      <4>1. <<v, k, bubble[v][k]>>[3] = bubble[v][k]
        OBVIOUS
      <4> QED BY <2>1, <3>2, <4>1
    <3> QED BY <2>3, <3>1, <3>2 DEF BubbleFades
  <2>4. BubbleFades'
    BY <2>1, <2>3 DEF BubbleFades
  <2> QED BY <2>1, <2>2, <2>4 DEF CapKept, RoomKept, Creates
<1> QED BY <1>1, <1>2

LEMMA SpeechShape ==
  ASSUME EffectsAssumption, PhrasesType, NEW r \in Speeches
  PROVE  /\ speech[r] # Nil => speech[r].who \in Speakers /\ speech[r].what \in {"create", "say"}
         /\ \A u \in Speakers, w \in {"create", "say"} :
              /\ [who |-> u, what |-> w] \in Speech /\ [who |-> u, what |-> w] # Nil
              /\ [who |-> u, what |-> w].who = u /\ [who |-> u, what |-> w].what = w
BY DEF EffectsAssumption, PhrasesType, Speech

(* The phrases: what counts, writes, says and removes. *)
LEMMA CreateKeeps ==
  ASSUME EffectsAssumption, PhrasesInv, NEW r \in Speeches, NEW u \in Speakers, CreateCounts(r, u)
  PROVE  PhrasesInv'
<1> USE DEF PhrasesInv
<1> DEFINE call == [who |-> u, what |-> "create"]
<1>1. /\ speech[r] = Nil /\ own[u] < Cap /\ speech' = [speech EXCEPT ![r] = call]
      /\ crowded' = IF \E q \in Speeches : Creates(q) /\ speech[q].who = u THEN crowded \cup {u} ELSE crowded
      /\ UNCHANGED <<preset, own, paced, bubble, timer, spoken, moved>>
  BY DEF CreateCounts, Speaks, bubbleVars, Creates
<1>2. call \in Speech /\ call # Nil /\ call.who = u /\ call.what = "create"
  BY SpeechShape
<1> HIDE DEF call
<1>3. speech \in [Speeches -> Speech \cup {Nil}] /\ crowded \subseteq crowded' /\ crowded' \subseteq Speakers
  BY <1>1 DEF PhrasesType
<1>4. PhrasesType'
  BY <1>1, <1>2, <1>3 DEF PhrasesType
<1>5. BubbleFades' /\ CapKept'
  BY <1>1, <1>3 DEF BubbleFades, CapKept
<1>6. \A q \in Speeches : speech'[q] = IF q = r THEN call ELSE speech[q]
  BY <1>1, <1>3
<1>7. RoomKept'
  <2> SUFFICES ASSUME NEW q \in Speeches, Creates(q)', speech'[q].who \notin crowded'
               PROVE  /\ own[speech'[q].who] < Cap
                      /\ \A p \in Speeches : Creates(p)' /\ speech'[p].who = speech'[q].who => p = q
    BY <1>1 DEF RoomKept
  <2>1. CASE q = r
    <3>1. speech'[q].who = u
      BY <1>2, <1>6, <2>1
    <3>2. ~\E p \in Speeches : Creates(p) /\ speech[p].who = u
      BY <1>1, <3>1
    <3> QED BY <1>1, <1>6, <2>1, <3>1, <3>2 DEF Creates
  <2>2. CASE q # r
    <3>1. Creates(q) /\ speech'[q] = speech[q] /\ speech[q].who \notin crowded
      BY <1>3, <1>6, <2>2 DEF Creates
    <3>2. speech[q].who # u
      <4> SUFFICES ASSUME speech[q].who = u PROVE FALSE
        OBVIOUS
      <4>1. crowded' = crowded \cup {u}
        BY <1>1, <3>1
      <4> QED BY <3>1, <4>1
    <3> QED BY <1>2, <1>6, <3>1, <3>2 DEF RoomKept, Creates
  <2> QED BY <2>1, <2>2
<1> QED BY <1>4, <1>5, <1>7

LEMMA CallEnds ==
  ASSUME EffectsAssumption, PhrasesInv, NEW r \in Speeches, speech[r] # Nil, Ended(r), crowded' = crowded,
         own' \in [Speakers -> Nat], \A u \in Speakers : u # speech[r].who => own'[u] <= own[u],
         Creates(r) \/ own' = own
  PROVE  speech' \in [Speeches -> Speech \cup {Nil}] /\ RoomKept'
<1> USE DEF PhrasesInv, PhrasesType
<1>1. speech' \in [Speeches -> Speech \cup {Nil}] /\ \A q \in Speeches : speech'[q] = IF q = r THEN Nil ELSE speech[q]
  BY DEF Ended
<1>2. RoomKept'
  <2> SUFFICES ASSUME NEW q \in Speeches, Creates(q)', speech'[q].who \notin crowded
               PROVE  /\ own'[speech'[q].who] < Cap
                      /\ \A p \in Speeches : Creates(p)' /\ speech'[p].who = speech'[q].who => p = q
    BY DEF RoomKept
  <2>1. q # r /\ Creates(q) /\ speech'[q] = speech[q]
    BY <1>1 DEF Creates
  <2>2. own[speech[q].who] < Cap /\ \A p \in Speeches : Creates(p) /\ speech[p].who = speech[q].who => p = q
    BY <2>1 DEF RoomKept
  <2>3. speech[q].who \in Speakers
    BY <2>1, SpeechShape DEF Creates
  <2>4. own'[speech[q].who] <= own[speech[q].who]
    BY <2>1, <2>2, <2>3
  <2>5. own'[speech[q].who] < Cap
    BY <2>2, <2>3, <2>4 DEF EffectsAssumption
  <2> QED BY <1>1, <2>1, <2>2, <2>5 DEF Creates
<1> QED BY <1>1, <1>2

LEMMA PhrasesStep ==
  ASSUME EffectsAssumption, PhrasesInv, [EffectsNext]_effectVars
  PROVE  PhrasesInv'
<1> USE DEF PhrasesInv
<1>1. ASSUME UNCHANGED <<own, speech, crowded, bubble, timer, spoken, moved>>, preset' \in {"none", "off", "on"},
             paced' \subseteq Speakers
      PROVE  PhrasesInv'
  BY <1>1 DEF PhrasesType, BubbleFades, CapKept, RoomKept, Creates
<1>2. CASE PresetChanges
  BY <1>1, <1>2 DEF PresetChanges, PhrasesType, bubbleVars
<1>3. CASE (\E t \in timer : BubbleEnds(t)) \/ \E s \in OtherTables : GoesToGame(s)
  BY <1>3, BubblesKeep
<1>4. ASSUME NEW u \in Speakers, PhraseRemoved(u) PROVE PhrasesInv'
  <2>1. own[u] > 0 /\ own' = [own EXCEPT ![u] = own[u] - 1]
        /\ UNCHANGED <<preset, paced, speech, crowded, bubble, timer, spoken, moved>>
    BY <1>4 DEF PhraseRemoved, bubbleVars
  <2>2. own' \in [Speakers -> Nat] /\ \A v \in Speakers : own'[v] <= own[v] /\ own[v] \in Nat
    BY <2>1 DEF PhrasesType
  <2>3. PhrasesType' /\ BubbleFades'
    BY <2>1, <2>2 DEF PhrasesType, BubbleFades
  <2>4. CapKept'
    BY <2>1, <2>2 DEF CapKept, EffectsAssumption
  <2>5. RoomKept'
    <3>1. ASSUME NEW r \in Speeches, Creates(r), own[speech[r].who] < Cap PROVE own'[speech[r].who] < Cap
      <4>1. speech[r].who \in Speakers
        BY <3>1, SpeechShape DEF Creates
      <4> QED BY <2>2, <3>1, <4>1 DEF EffectsAssumption
    <3> QED BY <2>1, <3>1 DEF RoomKept, Creates
  <2> QED BY <2>3, <2>4, <2>5
<1>5. ASSUME NEW u \in Speakers, recordReaction(u) PROVE PhrasesInv'
  <2>1. Floats(u, "emoji") /\ "emoji" \in Bubbles /\ paced' = paced \cup {u} /\ UNCHANGED <<preset, own, speech, crowded, moved>>
    BY <1>5 DEF recordReaction, Bubbles
  <2>2. BubbleFades' /\ PhrasesType'
    BY <2>1, FloatsKeeps DEF PhrasesType
  <2> QED BY <2>1, <2>2 DEF CapKept, RoomKept, Creates
<1>6. ASSUME NEW u \in Speakers, WindowEnds(u) PROVE PhrasesInv'
  BY <1>1, <1>6 DEF WindowEnds, PhrasesType, bubbleVars
<1>7. ASSUME NEW u \in Speakers, NEW r \in Speeches, CreateCounts(r, u) PROVE PhrasesInv'
  BY <1>7, CreateKeeps
<1>8. ASSUME NEW u \in Speakers, NEW r \in Speeches, TextResolves(r, u) PROVE PhrasesInv'
  <2> DEFINE call == [who |-> u, what |-> "say"]
  <2>1. speech[r] = Nil /\ speech' = [speech EXCEPT ![r] = call]
        /\ UNCHANGED <<preset, own, paced, crowded, bubble, timer, spoken, moved>>
    BY <1>8 DEF TextResolves, Speaks, bubbleVars
  <2>2. call \in Speech /\ call.what = "say"
    BY SpeechShape
  <2> HIDE DEF call
  <2>3. PhrasesType' /\ \A q \in Speeches : speech'[q] = IF q = r THEN call ELSE speech[q]
    BY <2>1, <2>2 DEF PhrasesType
  <2>4. RoomKept'
    BY <2>1, <2>2, <2>3 DEF RoomKept, Creates
  <2> QED BY <2>1, <2>3, <2>4 DEF BubbleFades, CapKept
<1>9. ASSUME NEW r \in Speeches, CreateWrites(r) PROVE PhrasesInv'
  <2>1. /\ Creates(r) /\ own' = [own EXCEPT ![speech[r].who] = own[speech[r].who] + 1] /\ Ended(r)
        /\ UNCHANGED <<preset, paced, crowded, bubble, timer, spoken, moved>>
    BY <1>9 DEF CreateWrites, Creates, bubbleVars
  <2>2. speech[r] # Nil /\ speech[r].who \in Speakers
    BY <2>1, SpeechShape DEF Creates
  <2>3. /\ own' \in [Speakers -> Nat] /\ own \in [Speakers -> Nat]
        /\ \A u \in Speakers : own'[u] = IF u = speech[r].who THEN own[u] + 1 ELSE own[u]
    BY <2>1, <2>2 DEF PhrasesType
  <2>4. \A u \in Speakers : u # speech[r].who => own'[u] <= own[u]
    BY <2>3
  <2>5. speech' \in [Speeches -> Speech \cup {Nil}] /\ RoomKept'
    BY <2>1, <2>2, <2>3, <2>4, CallEnds
  <2>6. CapKept'
    <3> SUFFICES ASSUME NEW u \in Speakers, u \notin crowded PROVE own'[u] <= Cap
      BY <2>1 DEF CapKept
    <3>1. CASE u = speech[r].who
      <4>1. own[u] < Cap
        BY <2>1, <3>1 DEF RoomKept
      <4> QED BY <2>3, <3>1, <4>1 DEF EffectsAssumption
    <3>2. CASE u # speech[r].who
      BY <2>3, <3>2 DEF CapKept
    <3> QED BY <3>1, <3>2
  <2> QED BY <2>1, <2>3, <2>5, <2>6 DEF PhrasesType, BubbleFades
<1>10. ASSUME NEW r \in Speeches, recordTextReaction(r) PROVE PhrasesInv'
  <2>1. /\ speech[r] # Nil /\ Ended(r) /\ UNCHANGED <<preset, own, crowded, moved>>
        /\ \/ UNCHANGED <<paced, bubble, timer, spoken>>
           \/ paced' = paced \cup {speech[r].who} /\ Floats(speech[r].who, "text")
    BY <1>10 DEF recordTextReaction
  <2>2. speech[r].who \in Speakers /\ "text" \in Bubbles
    BY <2>1, SpeechShape DEF Bubbles
  <2>3. own' \in [Speakers -> Nat] /\ \A u \in Speakers : own'[u] <= own[u]
    BY <2>1 DEF PhrasesType
  <2>4. speech' \in [Speeches -> Speech \cup {Nil}] /\ RoomKept'
    BY <2>1, <2>3, CallEnds
  <2>5. CASE UNCHANGED <<paced, bubble, timer, spoken>>
    BY <2>1, <2>4, <2>5 DEF PhrasesType, BubbleFades, CapKept
  <2>6. CASE paced' = paced \cup {speech[r].who} /\ Floats(speech[r].who, "text")
    <3>1. /\ bubble' \in [Speakers -> [Bubbles -> Nat]] /\ timer' \subseteq Speakers \X Bubbles \X Nat /\ spoken' \in Nat
          /\ BubbleFades'
      BY <2>1, <2>2, <2>6, FloatsKeeps
    <3> QED BY <2>1, <2>2, <2>4, <2>6, <3>1 DEF PhrasesType, CapKept
  <2> QED BY <2>1, <2>5, <2>6
<1>11. ASSUME UNCHANGED <<phraseVars, bubbleVars>> PROVE PhrasesInv'
  BY <1>1, <1>11 DEF phraseVars, bubbleVars, PhrasesType
<1>12. ASSUME NEW s \in Seats, CardThrown(s) \/ CardPassedOn(s) \/ TableCleared(s) PROVE PhrasesInv'
  BY <1>11, <1>12 DEF CardThrown, CardPassedOn, TableCleared
<1>13. ASSUME NEW i \in 1..Len(OnTable.cards), CardBeaten(i) \/ BeatTakenBack(i) \/ CardTakenBack(i) PROVE PhrasesInv'
  BY <1>11, <1>13 DEF CardBeaten, BeatTakenBack, CardTakenBack
<1>14. ASSUME NEW i \in 1..Len(tables), TableDrawn(i) PROVE PhrasesInv'
  BY <1>11, <1>14 DEF TableDrawn
<1>15. CASE UNCHANGED effectVars
  BY <1>11, <1>15 DEF effectVars
<1> QED BY <1>2, <1>3, <1>4, <1>5, <1>6, <1>7, <1>8, <1>9, <1>10, <1>12, <1>13, <1>14, <1>15 DEF EffectsNext

(* The plays of a snapshot: finitely many, one or two of each card. *)
LEMMA PlaysShape ==
  ASSUME EffectsAssumption, NEW s \in Snapshot
  PROVE  /\ IsFiniteSet(Plays(s)) /\ Plays(s) \subseteq Play
         /\ \A p \in Plays(s) : /\ p = <<p[1], p[2], p[3], p[4]>> /\ p[4] \in Nat
                                /\ p[1] \in {"attack", "beat"} /\ (p[1] = "attack" => p[4] = p[2])
         /\ \A p : p \in Plays(s) <=>
              \E i \in 1..Len(s.cards) :
                LET c == s.cards[i]
                IN  \/ p = <<"attack", c.id, c.by, c.id>>
                    \/ c.beater # Nil /\ p = <<"beat", c.id, c.beater, c.turn>>
         /\ s.cards \in Seq(Laid) /\ s.defender \in Seats /\ s.next \in Nat
<1> DEFINE L == 1..Len(s.cards)
           a == [i \in L |-> <<"attack", s.cards[i].id, s.cards[i].by, s.cards[i].id>>]
           b == [i \in L |-> <<"beat", s.cards[i].id, s.cards[i].beater, s.cards[i].turn>>]
           A == {a[i] : i \in L}
           B == {b[i] : i \in L}
<1>1. /\ s.cards \in Seq(Laid) /\ s.defender \in Seats /\ s.next \in Nat
      /\ ToSet(s.cards) = {s.cards[i] : i \in L}
  <2>1. s.cards \in Seq(Laid) /\ s.defender \in Seats /\ s.next \in Nat
    BY DEF Snapshot
  <2> QED BY <2>1 DEF ToSet
<1>2. \A i \in L : /\ s.cards[i].id \in Nat /\ s.cards[i].by \in Seats /\ s.cards[i].turn \in Nat
                   /\ s.cards[i].beater \in Seats \cup {Nil}
  <2> TAKE i \in L
  <2>1. s.cards[i] \in Laid
    BY <1>1
  <2> QED BY <2>1 DEF Laid
<1>3. IsFiniteSet(L)
  <2>1. Len(s.cards) \in Nat
    BY <1>1
  <2> QED BY <2>1, FS_Interval
<1>4. IsFiniteSet(A) /\ IsFiniteSet(B)
  <2>1. a \in Surjection(L, A) /\ b \in Surjection(L, B)
    BY DEF Surjection
  <2> HIDE DEF L, a, b, A, B
  <2> QED BY <1>3, <2>1, FS_Surjection
<1>5. \A p : p \in Plays(s) <=> \E i \in L : p = a[i] \/ (s.cards[i].beater # Nil /\ p = b[i])
  BY <1>1 DEF Plays
<1>6. IsFiniteSet(Plays(s))
  <2>1. Plays(s) \subseteq A \cup B
    BY <1>5
  <2> HIDE DEF A, B
  <2> QED BY <1>4, <2>1, FS_Union, FS_Subset
<1>7. ASSUME NEW p \in Plays(s)
      PROVE  /\ p \in Play /\ p = <<p[1], p[2], p[3], p[4]>> /\ p[4] \in Nat
             /\ p[1] \in {"attack", "beat"} /\ (p[1] = "attack" => p[4] = p[2])
  <2>1. PICK i \in L : p = a[i] \/ (s.cards[i].beater # Nil /\ p = b[i])
    BY <1>5
  <2>2. CASE p = a[i]
    BY <1>2, <2>1, <2>2 DEF Play
  <2>3. CASE s.cards[i].beater # Nil /\ p = b[i]
    BY <1>2, <2>1, <2>3 DEF Play
  <2> QED BY <2>1, <2>2, <2>3
<1>8. \A p : p \in Plays(s) <=>
        \E i \in L : \/ p = <<"attack", s.cards[i].id, s.cards[i].by, s.cards[i].id>>
                     \/ s.cards[i].beater # Nil /\ p = <<"beat", s.cards[i].id, s.cards[i].beater, s.cards[i].turn>>
  BY <1>5
<1> QED BY <1>1, <1>6, <1>7, <1>8

LEMMA PlayedOn ==
  ASSUME EffectsAssumption, NEW s \in Snapshot, NEW p \in Plays(s)
  PROVE  \E i \in 1..Len(s.cards) :
           \/ p = <<"attack", s.cards[i].id, s.cards[i].by, s.cards[i].id>>
           \/ s.cards[i].beater # Nil /\ p = <<"beat", s.cards[i].id, s.cards[i].beater, s.cards[i].turn>>
BY PlaysShape

(* A table fits if its plays have numbers that are used up, its beats are the
   defender's, and a play is there once. *)
Fits(s) ==
  /\ \A p \in Plays(s) : p[4] < s.next /\ (p[1] = "beat" => p[3] = s.defender)
  /\ \A p, q \in Plays(s) : SamePlay(p, q) => p = q

(* A snapshot that comes after another: its plays are plays of the other or have
   numbers that were not used. *)
Continues(T, S) ==
  /\ T.next <= S.next /\ Fits(S)
  /\ \A p \in Plays(S) : p \in Plays(T) \/ T.next <= p[4]

LEMMA SnapshotServed ==
  ASSUME EffectsAssumption, TablesType, TablesFit, NEW S \in Snapshot, Serves(S), Continues(OnTable, S)
  PROVE  /\ tables' \in Seq(Snapshot) /\ tables' # <<>> /\ Len(tables') = Len(tables) + 1
         /\ \A k \in 1..Len(tables) : tables'[k] = tables[k]
         /\ TablesFit'
<1>0. PICK n \in Nat : n = Len(tables)
  BY DEF TablesType
<1>1. /\ tables' \in Seq(Snapshot) /\ tables' # <<>> /\ Len(tables') = n + 1 /\ tables'[n + 1] = S
      /\ \A k \in 1..n : tables'[k] = tables[k] /\ tables[k] \in Snapshot
  BY <1>0 DEF Serves, TablesType
<1>2. n \in 1..n /\ OnTable = tables[n]
  BY <1>0 DEF OnTable, TablesType
<1>3. 1..(n + 1) = 1..n \cup {n + 1}
  BY <1>0
<1>4. /\ \A k \in 1..n : PlaysOn(k)' = PlaysOn(k)
      /\ PlaysOn(n + 1)' = Plays(S)
  BY <1>1 DEF PlaysOn, Plays
<1>5. /\ \A k \in 1..n : TableFits(k) /\ tables[k].next <= tables[n].next
      /\ \A k, m \in 1..n : \A p \in PlaysOn(k), q \in PlaysOn(m) : SamePlay(p, q) => p = q
      /\ \A k, m \in 1..n : k <= m => PlaysOn(k) \cap PlaysOn(n) \subseteq PlaysOn(m)
  BY <1>0, <1>2 DEF TablesFit
<1>6. /\ \A k \in 1..n : tables[k].next \in Nat /\ \A p \in PlaysOn(k) : p[4] \in Nat
      /\ S.next \in Nat /\ \A p \in Plays(S) : p[4] \in Nat
  BY <1>1, PlaysShape DEF PlaysOn
<1>7. ASSUME NEW k \in 1..n, NEW p \in PlaysOn(k), NEW q \in Plays(S), p[4] = q[4] PROVE q \in PlaysOn(n)
  <2>1. p[4] < tables[n].next
    BY <1>2, <1>5, <1>6 DEF TableFits
  <2>2. ~(tables[n].next <= q[4])
    BY <1>2, <1>6, <1>7, <2>1
  <2> QED BY <1>2, <2>2 DEF Continues, PlaysOn
<1>8. ASSUME NEW k \in 1..(n + 1) PROVE TableFits(k)'
  <2>1. CASE k \in 1..n
    BY <1>1, <1>4, <1>5, <2>1 DEF TableFits
  <2>2. CASE k = n + 1
    BY <1>1, <1>4, <2>2 DEF Continues, Fits, TableFits
  <2> QED BY <1>3, <2>1, <2>2
<1>9. ASSUME NEW k \in 1..(n + 1), NEW m \in 1..(n + 1), k <= m PROVE tables'[k].next <= tables'[m].next
  <2>1. CASE m \in 1..n
    BY <1>0, <1>1, <1>9, <2>1 DEF TablesFit
  <2>2. CASE k \in 1..n /\ m = n + 1
    <3>1. tables[k].next <= tables[n].next /\ tables[n].next <= S.next
      BY <1>2, <1>5, <2>2 DEF Continues
    <3> QED BY <1>1, <1>2, <1>6, <2>2, <3>1
  <2>3. CASE k = n + 1 /\ m = n + 1
    BY <1>1, <1>6, <2>3
  <2> QED BY <1>3, <1>9, <2>1, <2>2, <2>3
<1>10. ASSUME NEW k \in 1..(n + 1), NEW m \in 1..(n + 1), NEW p \in PlaysOn(k)', NEW q \in PlaysOn(m)', SamePlay(p, q)
       PROVE  p = q
  <2>1. CASE k \in 1..n /\ m \in 1..n
    BY <1>4, <1>5, <1>10, <2>1
  <2>2. CASE k \in 1..n /\ m = n + 1
    <3>1. q \in PlaysOn(n) /\ p \in PlaysOn(k)
      BY <1>4, <1>7, <1>10, <2>2 DEF SamePlay
    <3> QED BY <1>2, <1>5, <1>10, <2>2, <3>1
  <2>3. CASE k = n + 1 /\ m \in 1..n
    <3>1. p \in PlaysOn(n) /\ q \in PlaysOn(m)
      BY <1>4, <1>7, <1>10, <2>3 DEF SamePlay
    <3> QED BY <1>2, <1>5, <1>10, <2>3, <3>1
  <2>4. CASE k = n + 1 /\ m = n + 1
    BY <1>4, <1>10, <2>4 DEF Continues, Fits
  <2> QED BY <1>3, <2>1, <2>2, <2>3, <2>4
<1>11. ASSUME NEW k \in 1..(n + 1), NEW m \in 1..(n + 1), NEW l \in 1..(n + 1), k <= m, m <= l,
              NEW p \in PlaysOn(k)', p \in PlaysOn(l)'
       PROVE  p \in PlaysOn(m)'
  <2>1. CASE l \in 1..n
    <3>1. k \in 1..n /\ m \in 1..n
      BY <1>11, <2>1
    <3>2. PlaysOn(k) \cap PlaysOn(l) \subseteq PlaysOn(m)
      BY <1>0, <1>11, <2>1, <3>1 DEF TablesFit
    <3> QED BY <1>4, <1>11, <2>1, <3>1, <3>2
  <2>2. CASE m = l
    BY <1>11, <2>2
  <2>3. CASE l = n + 1 /\ m \in 1..n
    <3>1. k \in 1..n
      BY <1>11, <2>3
    <3>2. p \in PlaysOn(n) /\ p \in PlaysOn(k)
      BY <1>4, <1>7, <1>11, <2>3, <3>1
    <3> QED BY <1>4, <1>5, <1>11, <2>3, <3>1, <3>2
  <2>4. CASE l = n + 1 /\ m = n + 1
    BY <2>2, <2>4
  <2> QED BY <1>3, <2>1, <2>3, <2>4
<1>12. TablesFit'
  BY <1>1, <1>8, <1>9, <1>10, <1>11 DEF TablesFit
<1> QED BY <1>0, <1>1, <1>12

(* A table with one more play, or with fewer. *)
LEMMA OnePlayMore ==
  ASSUME EffectsAssumption, NEW T \in Snapshot, NEW S \in Snapshot, Fits(T), NEW p \in Play,
         Plays(S) \subseteq Plays(T) \cup {p}, p[4] = T.next, S.next = T.next + 1, p[1] = "beat" => p[3] = S.defender,
         S.defender = T.defender \/ \A q \in Plays(S) : q[1] = "attack"
  PROVE  Continues(T, S)
<1>1. T.next \in Nat /\ \A q \in Plays(T) : q[4] \in Nat
  BY PlaysShape
<1>2. T.next <= S.next /\ T.next <= p[4] /\ p[4] < S.next
  BY <1>1
<1>3. ASSUME NEW q \in Plays(S) PROVE q[4] < S.next /\ (q[1] = "beat" => q[3] = S.defender)
  <2>1. CASE q \in Plays(T)
    <3>1. q[4] < S.next
      BY <1>1, <2>1 DEF Fits
    <3>2. q[1] = "beat" => q[3] = S.defender
      BY <1>3, <2>1 DEF Fits
    <3> QED BY <3>1, <3>2
  <2>2. CASE q = p
    BY <1>2, <2>2
  <2> QED BY <2>1, <2>2
<1>4. ASSUME NEW q \in Plays(T) PROVE q[4] # p[4]
  BY <1>1 DEF Fits
<1>5. \A q, r \in Plays(S) : SamePlay(q, r) => q = r
  BY <1>4 DEF Fits, SamePlay
<1> QED BY <1>2, <1>3, <1>5 DEF Continues, Fits

LEMMA NoPlayMore ==
  ASSUME EffectsAssumption, NEW T \in Snapshot, NEW S \in Snapshot, Fits(T), Plays(S) \subseteq Plays(T), S.next = T.next,
         S.defender = T.defender \/ Plays(S) = {}
  PROVE  Continues(T, S)
<1>1. T.next \in Nat
  BY PlaysShape
<1> QED BY <1>1 DEF Continues, Fits

(* A card laid on the table is one play more. *)
LEMMA CardLaid ==
  ASSUME EffectsAssumption, NEW T \in Snapshot, Fits(T), NEW by \in Seats, NEW to \in Seats,
         to = T.defender \/ \A i \in 1..Len(T.cards) : T.cards[i].beater = Nil
  PROVE  LET S == [cards |-> Append(T.cards, Lays(T.next, by)), defender |-> to, next |-> T.next + 1]
         IN  S \in Snapshot /\ Continues(T, S)
<1> DEFINE c == Lays(T.next, by)
           S == [cards |-> Append(T.cards, c), defender |-> to, next |-> T.next + 1]
           p == <<"attack", T.next, by, T.next>>
<1>1. T.cards \in Seq(Laid) /\ T.next \in Nat
  BY PlaysShape
<1>2. c \in Laid /\ c.id = T.next /\ c.by = by /\ c.beater = Nil
  BY <1>1 DEF Laid, Lays
<1> HIDE DEF c
<1>3. S \in Snapshot /\ S.cards = Append(T.cards, c) /\ S.defender = to /\ S.next = T.next + 1
  BY <1>1, <1>2 DEF Snapshot
<1> HIDE DEF S
<1>4. /\ Len(S.cards) = Len(T.cards) + 1 /\ S.cards[Len(T.cards) + 1] = c
      /\ \A i \in 1..Len(T.cards) : S.cards[i] = T.cards[i]
      /\ \A i \in 1..Len(S.cards) : i \in 1..Len(T.cards) \/ i = Len(T.cards) + 1
  BY <1>1, <1>2, <1>3
<1>5. ASSUME NEW q \in Plays(S)
      PROVE  q = p \/ (q \in Plays(T) /\ (to = T.defender \/ q[1] = "attack"))
  <2>1. PICK i \in 1..Len(S.cards) : \/ q = <<"attack", S.cards[i].id, S.cards[i].by, S.cards[i].id>>
                                     \/ S.cards[i].beater # Nil /\ q = <<"beat", S.cards[i].id, S.cards[i].beater, S.cards[i].turn>>
    BY <1>3, PlayedOn
  <2>2. CASE i = Len(T.cards) + 1
    BY <1>2, <1>4, <2>1, <2>2
  <2>3. CASE i \in 1..Len(T.cards)
    <3>1. S.cards[i] = T.cards[i]
      BY <1>4, <2>3
    <3>2. q \in Plays(T)
      BY <2>1, <2>3, <3>1, PlaysShape
    <3>3. to = T.defender \/ q[1] = "attack"
      BY <2>1, <2>3, <3>1
    <3> QED BY <3>2, <3>3
  <2> QED BY <1>4, <2>2, <2>3
<1>6. p \in Play /\ p[4] = T.next /\ p[1] = "attack"
  BY <1>1 DEF Play
<1> HIDE DEF p
<1>7. Continues(T, S)
  BY <1>3, <1>5, <1>6, OnePlayMore
<1> QED BY <1>3, <1>7 DEF S, c

(* A card beaten on the table is one play more. *)
LEMMA CardBeats ==
  ASSUME EffectsAssumption, NEW T \in Snapshot, Fits(T), NEW i \in 1..Len(T.cards)
  PROVE  LET S == [cards |-> [T.cards EXCEPT ![i].beater = T.defender, ![i].turn = T.next],
                   defender |-> T.defender, next |-> T.next + 1]
         IN  S \in Snapshot /\ Continues(T, S)
<1> DEFINE b == [T.cards[i] EXCEPT !.beater = T.defender, !.turn = T.next]
           q == [T.cards EXCEPT ![i] = b]
           S == [cards |-> q, defender |-> T.defender, next |-> T.next + 1]
           p == <<"beat", T.cards[i].id, T.defender, T.next>>
<1>1. T.cards \in Seq(Laid) /\ T.next \in Nat /\ T.defender \in Seats /\ T.cards[i] \in Laid
  BY PlaysShape
<1>2. b \in Laid /\ b.id = T.cards[i].id /\ b.by = T.cards[i].by /\ b.beater = T.defender /\ b.turn = T.next
  BY <1>1 DEF Laid
<1>3. [T.cards EXCEPT ![i].beater = T.defender, ![i].turn = T.next] = q
  BY <1>1 DEF Laid
<1> HIDE DEF b
<1>4. q \in Seq(Laid) /\ Len(q) = Len(T.cards) /\ \A j \in 1..Len(T.cards) : q[j] = IF j = i THEN b ELSE T.cards[j]
  BY <1>1, <1>2
<1> HIDE DEF q
<1>5. S \in Snapshot /\ S.cards = q /\ S.defender = T.defender /\ S.next = T.next + 1
  BY <1>1, <1>4 DEF Snapshot
<1> HIDE DEF S
<1>6. ASSUME NEW r \in Plays(S) PROVE r = p \/ r \in Plays(T)
  <2>1. PICK j \in 1..Len(T.cards) : \/ r = <<"attack", q[j].id, q[j].by, q[j].id>>
                                     \/ q[j].beater # Nil /\ r = <<"beat", q[j].id, q[j].beater, q[j].turn>>
    BY <1>4, <1>5, PlayedOn
  <2>2. CASE j # i
    <3>1. q[j] = T.cards[j]
      BY <1>4, <2>2
    <3> QED BY <2>1, <3>1, PlaysShape
  <2>3. CASE j = i
    <3>1. q[j] = b
      BY <1>4, <2>3
    <3>2. r = p \/ r = <<"attack", T.cards[i].id, T.cards[i].by, T.cards[i].id>>
      BY <1>2, <2>1, <3>1
    <3> QED BY <3>2, PlaysShape
  <2> QED BY <2>2, <2>3
<1>7. p \in Play /\ p[4] = T.next /\ p[3] = T.defender
  BY <1>1 DEF Play, Laid
<1> HIDE DEF p
<1>8. Continues(T, S)
  BY <1>5, <1>6, <1>7, OnePlayMore
<1> QED BY <1>3, <1>5, <1>8 DEF S

(* A beat taken back leaves the plays but one, so does a card taken back. *)
LEMMA TakenBack ==
  ASSUME EffectsAssumption, NEW T \in Snapshot, Fits(T), NEW i \in 1..Len(T.cards)
  PROVE  /\ [T EXCEPT !.cards[i].beater = Nil] \in Snapshot /\ Continues(T, [T EXCEPT !.cards[i].beater = Nil])
         /\ [T EXCEPT !.cards = RemoveAt(@, i)] \in Snapshot /\ Continues(T, [T EXCEPT !.cards = RemoveAt(@, i)])
<1>1. T.cards \in Seq(Laid) /\ T.next \in Nat /\ T.defender \in Seats /\ T.cards[i] \in Laid
  BY PlaysShape
<1>2. [T EXCEPT !.cards[i].beater = Nil] \in Snapshot /\ Continues(T, [T EXCEPT !.cards[i].beater = Nil])
  <2> DEFINE b == [T.cards[i] EXCEPT !.beater = Nil]
             q == [T.cards EXCEPT ![i] = b]
             S == [T EXCEPT !.cards = q]
  <2>1. b \in Laid /\ b.id = T.cards[i].id /\ b.by = T.cards[i].by /\ b.beater = Nil
    BY <1>1 DEF Laid
  <2>2. [T EXCEPT !.cards[i].beater = Nil] = S
    BY <1>1 DEF Snapshot
  <2> HIDE DEF b
  <2>3. q \in Seq(Laid) /\ Len(q) = Len(T.cards) /\ \A j \in 1..Len(T.cards) : q[j] = IF j = i THEN b ELSE T.cards[j]
    BY <1>1, <2>1
  <2> HIDE DEF q
  <2>4. S \in Snapshot /\ S.cards = q /\ S.defender = T.defender /\ S.next = T.next
    BY <1>1, <2>3 DEF Snapshot
  <2> HIDE DEF S
  <2>5. ASSUME NEW r \in Plays(S) PROVE r \in Plays(T)
    <3>1. PICK j \in 1..Len(T.cards) : \/ r = <<"attack", q[j].id, q[j].by, q[j].id>>
                                       \/ q[j].beater # Nil /\ r = <<"beat", q[j].id, q[j].beater, q[j].turn>>
      BY <2>3, <2>4, PlayedOn
    <3>2. CASE j # i
      <4>1. q[j] = T.cards[j]
        BY <2>3, <3>2
      <4> QED BY <3>1, <4>1, PlaysShape
    <3>3. CASE j = i
      <4>1. r = <<"attack", T.cards[i].id, T.cards[i].by, T.cards[i].id>>
        BY <2>1, <2>3, <3>1, <3>3
      <4> QED BY <4>1, PlaysShape
    <3> QED BY <3>2, <3>3
  <2>6. Continues(T, S)
    BY <2>4, <2>5, NoPlayMore
  <2> QED BY <2>2, <2>4, <2>6
<1>3. [T EXCEPT !.cards = RemoveAt(@, i)] \in Snapshot /\ Continues(T, [T EXCEPT !.cards = RemoveAt(@, i)])
  <2> DEFINE q == RemoveAt(T.cards, i)
             S == [T EXCEPT !.cards = q]
  <2>1. q = SubSeq(T.cards, 1, i - 1) \o SubSeq(T.cards, i + 1, Len(T.cards))
    BY DEF RemoveAt
  <2>2. PICK n \in Nat : n = Len(T.cards)
    BY <1>1
  <2> DEFINE v == SubSeq(T.cards, 1, i - 1)
             w == SubSeq(T.cards, i + 1, n)
  <2>3. v \in Seq(Laid) /\ Len(v) = i - 1 /\ \A j \in 1..(i - 1) : v[j] = T.cards[j]
    BY <1>1, <2>2
  <2>4. w \in Seq(Laid) /\ Len(w) = n - i /\ \A j \in 1..(n - i) : w[j] = T.cards[i + j]
    BY <1>1, <2>2
  <2> HIDE DEF v, w
  <2>5. /\ v \o w \in Seq(Laid) /\ Len(v \o w) = n - 1
        /\ \A j \in 1..(n - 1) : (v \o w)[j] = IF j <= i - 1 THEN T.cards[j] ELSE T.cards[j + 1]
    <3>1. v \o w \in Seq(Laid) /\ Len(v \o w) = Len(v) + Len(w)
      <4>1. v \in Seq(Laid) /\ w \in Seq(Laid)
        BY <2>3, <2>4
      <4> QED BY <4>1
    <3>2. Len(v \o w) = n - 1
      BY <2>2, <2>3, <2>4, <3>1
    <3>3. \A j \in 1..Len(v) : (v \o w)[j] = v[j]
      <4>1. v \in Seq(Laid) /\ w \in Seq(Laid)
        BY <2>3, <2>4
      <4> QED BY <4>1
    <3>4. \A j \in 1..Len(w) : (v \o w)[Len(v) + j] = w[j]
      <4>1. v \in Seq(Laid) /\ w \in Seq(Laid)
        BY <2>3, <2>4
      <4> QED BY <4>1
    <3>5. ASSUME NEW j \in 1..(n - 1) PROVE (v \o w)[j] = IF j <= i - 1 THEN T.cards[j] ELSE T.cards[j + 1]
      <4>1. CASE j <= i - 1
        BY <2>2, <2>3, <3>3, <4>1
      <4>2. CASE ~(j <= i - 1)
        <5>1. j - (i - 1) \in 1..(n - i) /\ Len(v) + (j - (i - 1)) = j /\ i + (j - (i - 1)) = j + 1
          BY <2>2, <2>3, <4>2
        <5> QED BY <2>4, <3>4, <4>2, <5>1
      <4> QED BY <4>1, <4>2
    <3> QED BY <3>1, <3>2, <3>5
  <2>6. q = v \o w
    BY <2>1, <2>2 DEF v, w
  <2> HIDE DEF q
  <2>7. q \in Seq(Laid) /\ \A j \in 1..Len(q) : \E k \in 1..n : q[j] = T.cards[k]
    <3>1. Len(q) = n - 1
      BY <2>5, <2>6
    <3>2. ASSUME NEW j \in 1..(n - 1) PROVE \E k \in 1..n : q[j] = T.cards[k]
      <4>1. j \in 1..n /\ j + 1 \in 1..n
        BY <2>2
      <4> QED BY <2>5, <2>6, <4>1
    <3> QED BY <2>5, <2>6, <3>1, <3>2
  <2>8. S \in Snapshot /\ S.cards = q /\ S.defender = T.defender /\ S.next = T.next
    BY <1>1, <2>7 DEF Snapshot
  <2>9. [T EXCEPT !.cards = RemoveAt(@, i)] = S
    BY <1>1 DEF Snapshot, q
  <2> HIDE DEF S
  <2>10. ASSUME NEW r \in Plays(S) PROVE r \in Plays(T)
    <3>1. PICK j \in 1..Len(q) : \/ r = <<"attack", q[j].id, q[j].by, q[j].id>>
                                 \/ q[j].beater # Nil /\ r = <<"beat", q[j].id, q[j].beater, q[j].turn>>
      <4>1. \E j \in 1..Len(S.cards) :
              LET c == S.cards[j]
              IN  \/ r = <<"attack", c.id, c.by, c.id>>
                  \/ c.beater # Nil /\ r = <<"beat", c.id, c.beater, c.turn>>
        BY <2>8, <2>10, PlaysShape
      <4> QED BY <2>8, <4>1
    <3>2. PICK k \in 1..n : q[j] = T.cards[k]
      BY <2>7
    <3> QED BY <2>2, <3>1, <3>2, PlaysShape
  <2>11. Continues(T, S)
    BY <2>8, <2>10, NoPlayMore
  <2> QED BY <2>8, <2>9, <2>11
<1> QED BY <1>2, <1>3

(* The engine's six ways to change the table. *)
LEMMA EngineServes ==
  ASSUME EffectsAssumption, TablesType, TablesFit,
         \/ \E s \in Seats : CardThrown(s) \/ CardPassedOn(s) \/ TableCleared(s)
         \/ \E i \in 1..Len(OnTable.cards) : CardBeaten(i) \/ BeatTakenBack(i) \/ CardTakenBack(i)
  PROVE  \E S \in Snapshot : Serves(S) /\ Continues(OnTable, S) /\ UNCHANGED shownVars
<1>0. PICK T \in Snapshot : T = OnTable
  BY DEF TablesType, OnTable
<1>1. Fits(T)
  BY <1>0 DEF TablesFit, TableFits, TablesType, OnTable, PlaysOn, Fits
<1>2. T.cards \in Seq(Laid) /\ T.defender \in Seats /\ T.next \in Nat
  BY PlaysShape
<1>3. ASSUME NEW s \in Seats, CardThrown(s)
      PROVE  \E S \in Snapshot : Serves(S) /\ Continues(OnTable, S) /\ UNCHANGED shownVars
  <2> DEFINE S == [cards |-> Append(T.cards, Lays(T.next, s)), defender |-> T.defender, next |-> T.next + 1]
  <2>1. Serves(S) /\ UNCHANGED shownVars
    BY <1>0, <1>3 DEF CardThrown
  <2>2. S \in Snapshot /\ Continues(T, S)
    BY <1>1, <1>2, CardLaid
  <2> HIDE DEF S
  <2> QED BY <1>0, <2>1, <2>2
<1>4. ASSUME NEW s \in Seats, CardPassedOn(s)
      PROVE  \E S \in Snapshot : Serves(S) /\ Continues(OnTable, S) /\ UNCHANGED shownVars
  <2> DEFINE S == [cards |-> Append(T.cards, Lays(T.next, T.defender)), defender |-> s, next |-> T.next + 1]
  <2>1. Serves(S) /\ UNCHANGED shownVars /\ \A i \in 1..Len(T.cards) : T.cards[i].beater = Nil
    BY <1>0, <1>4 DEF CardPassedOn
  <2>2. S \in Snapshot /\ Continues(T, S)
    BY <1>1, <1>2, <2>1, CardLaid
  <2> HIDE DEF S
  <2> QED BY <1>0, <2>1, <2>2
<1>5. ASSUME NEW s \in Seats, TableCleared(s)
      PROVE  \E S \in Snapshot : Serves(S) /\ Continues(OnTable, S) /\ UNCHANGED shownVars
  <2> DEFINE S == [cards |-> <<>>, defender |-> s, next |-> T.next]
  <2>1. Serves(S) /\ UNCHANGED shownVars
    BY <1>0, <1>5 DEF TableCleared
  <2>2. S \in Snapshot /\ S.next = T.next /\ S.cards = <<>>
    BY <1>2 DEF Snapshot
  <2> HIDE DEF S
  <2>3. Plays(S) = {}
    BY <2>2 DEF Plays, ToSet
  <2>4. Continues(T, S)
    BY <1>1, <2>2, <2>3, NoPlayMore
  <2> QED BY <1>0, <2>1, <2>2, <2>4
<1>6. ASSUME NEW i \in 1..Len(OnTable.cards), CardBeaten(i)
      PROVE  \E S \in Snapshot : Serves(S) /\ Continues(OnTable, S) /\ UNCHANGED shownVars
  <2> DEFINE S == [cards |-> [T.cards EXCEPT ![i].beater = T.defender, ![i].turn = T.next],
                   defender |-> T.defender, next |-> T.next + 1]
  <2>1. Serves(S) /\ UNCHANGED shownVars
    BY <1>0, <1>6 DEF CardBeaten
  <2>2. S \in Snapshot /\ Continues(T, S)
    BY <1>0, <1>1, CardBeats
  <2> HIDE DEF S
  <2> QED BY <1>0, <2>1, <2>2
<1>7. ASSUME NEW i \in 1..Len(OnTable.cards), BeatTakenBack(i)
      PROVE  \E S \in Snapshot : Serves(S) /\ Continues(OnTable, S) /\ UNCHANGED shownVars
  <2> DEFINE S == [T EXCEPT !.cards[i].beater = Nil]
  <2>1. Serves(S) /\ UNCHANGED shownVars
    BY <1>0, <1>7 DEF BeatTakenBack
  <2>2. S \in Snapshot /\ Continues(T, S)
    BY <1>0, <1>1, TakenBack
  <2> HIDE DEF S
  <2> QED BY <1>0, <2>1, <2>2
<1>8. ASSUME NEW i \in 1..Len(OnTable.cards), CardTakenBack(i)
      PROVE  \E S \in Snapshot : Serves(S) /\ Continues(OnTable, S) /\ UNCHANGED shownVars
  <2> DEFINE S == [T EXCEPT !.cards = RemoveAt(@, i)]
  <2>1. Serves(S) /\ UNCHANGED shownVars
    BY <1>0, <1>8 DEF CardTakenBack
  <2>2. S \in Snapshot /\ Continues(T, S)
    BY <1>0, <1>1, TakenBack
  <2> HIDE DEF S
  <2> QED BY <1>0, <2>1, <2>2
<1> QED BY <1>3, <1>4, <1>5, <1>6, <1>7, <1>8

(* A finite set in line: every element once. *)
LEMMA InLineOnce ==
  ASSUME NEW S, IsFiniteSet(S)
  PROVE  /\ SetToSeq(S) \in Seq(S)
         /\ \A x \in S : \E i \in 1..Len(SetToSeq(S)) : SetToSeq(S)[i] = x
         /\ \A i, j \in 1..Len(SetToSeq(S)) : SetToSeq(S)[i] = SetToSeq(S)[j] => i = j
<1> DEFINE n == Cardinality(S)
           f == SetToSeq(S)
<1>1. n \in Nat
  BY FS_CardinalityType
<1>2. \E g \in [1..n -> S] : IsInjective(g)
  <2>1. IsFiniteSet(1..n) /\ Cardinality(1..n) = n
    BY <1>1, FS_Interval
  <2>2. PICK g : g \in Bijection(1..n, S)
    BY <2>1, FS_SameCardinalityBij DEF ExistsBijection
  <2> QED BY <2>2 DEF Bijection, Injection
<1>3. f \in [1..n -> S] /\ IsInjective(f)
  BY <1>2 DEF SetToSeq
<1> HIDE DEF f
<1>4. f \in Injection(1..n, S) /\ Cardinality(1..n) = n
  BY <1>1, <1>3, FS_Interval DEF Injection
<1>5. f \in Surjection(1..n, S)
  BY <1>4, FS_Injection
<1>6. f \in Seq(S) /\ Len(f) = n
  BY <1>1, <1>3
<1>7. \A i, j \in 1..Len(f) : f[i] = f[j] => i = j
  BY <1>3, <1>6 DEF IsInjective
<1>8. \A x \in S : \E i \in 1..Len(f) : f[i] = x
  BY <1>5, <1>6 DEF Surjection
<1> QED BY <1>6, <1>7, <1>8 DEF f

(* What is new on a table that fits: the plays whose tokens are not known. *)
LEMMA NewThrows ==
  ASSUME EffectsAssumption, NEW s \in Snapshot, Fits(s), NEW had
  PROVE  LET D == diffNewThrows(s, had)
         IN  /\ IsFiniteSet(D) /\ D \subseteq Play
             /\ D = {p \in Plays(s) : Token(p) \notin had}
<1> DEFINE N == {p \in Plays(s) : Token(p) \notin had}
           thrown(p) == <<p[1], p[2], IF p[1] = "beat" THEN s.defender ELSE p[3], p[4]>>
<1>1. ASSUME NEW p \in Plays(s) PROVE thrown(p) = p
  <2>1. p = <<p[1], p[2], p[3], p[4]>>
    BY PlaysShape
  <2>2. p[1] = "beat" => p[3] = s.defender
    BY DEF Fits
  <2> QED BY <2>1, <2>2
<1>2. diffNewThrows(s, had) = {thrown(p) : p \in N}
  BY DEF diffNewThrows
<1>3. diffNewThrows(s, had) = N
  <2> HIDE DEF thrown
  <2> QED BY <1>1, <1>2
<1>4. N \subseteq Plays(s) /\ IsFiniteSet(Plays(s)) /\ Plays(s) \subseteq Play
  BY PlaysShape
<1>5. IsFiniteSet(N) /\ N \subseteq Play
  <2> HIDE DEF N
  <2> QED BY <1>4, FS_Subset
<1> QED BY <1>3, <1>5

(* A step of the engine leaves what was drawn. *)
LEMMA EngineKeeps ==
  ASSUME EffectsAssumption, FlightsInv, NEW S \in Snapshot, Serves(S), Continues(OnTable, S), UNCHANGED shownVars
  PROVE  FlightsInv'
<1> USE DEF FlightsInv, shownVars
<1>1. /\ tables' \in Seq(Snapshot) /\ tables' # <<>> /\ Len(tables') = Len(tables) + 1
      /\ \A k \in 1..Len(tables) : tables'[k] = tables[k]
      /\ TablesFit'
  BY SnapshotServed
<1>2. PICK n \in Nat : n = Len(tables) /\ drawn \in 0..n
  BY DEF TablesType
<1>3. TablesType'
  BY <1>1, <1>2 DEF TablesType
<1>4. \A k \in 1..drawn : tables'[k] = tables[k]
  BY <1>1, <1>2
<1>5. drawn # 0 => tables'[drawn] = tables[drawn]
  BY <1>2, <1>4
<1>6. FlightsFit'
  BY <1>4, <1>5 DEF FlightsFit, PlaysOn, Tokens, Plays
<1>7. NoneAppears'
  BY <1>5 DEF NoneAppears, Plays
<1> QED BY <1>1, <1>3, <1>6, <1>7

(* One line of flights after the other. *)
LEMMA LineAfterLine ==
  ASSUME NEW v \in Seq(Play), NEW w \in Seq(Play)
  PROVE  /\ v \o w \in Seq(Play) /\ Len(v \o w) = Len(v) + Len(w)
         /\ \A i \in 1..Len(v) : (v \o w)[i] = v[i] /\ i \in 1..Len(v \o w)
         /\ \A i \in 1..Len(w) : (v \o w)[Len(v) + i] = w[i] /\ Len(v) + i \in 1..Len(v \o w)
         /\ \A i \in 1..Len(v \o w) : i \in 1..Len(v) \/ \E j \in 1..Len(w) : i = Len(v) + j
<1>1. v \o w \in Seq(Play) /\ Len(v \o w) = Len(v) + Len(w) /\ Len(v) \in Nat /\ Len(w) \in Nat
  OBVIOUS
<1>2. \A i \in 1..Len(v) : (v \o w)[i] = v[i]
  OBVIOUS
<1>3. \A i \in 1..Len(w) : (v \o w)[Len(v) + i] = w[i]
  OBVIOUS
<1>4. ASSUME NEW i \in 1..(Len(v) + Len(w)), i \notin 1..Len(v) PROVE \E j \in 1..Len(w) : i = Len(v) + j
  <2>1. i - Len(v) \in 1..Len(w) /\ i = Len(v) + (i - Len(v))
    BY <1>1, <1>4
  <2> QED BY <2>1
<1>5. \A i \in 1..Len(v) : i \in 1..Len(v \o w)
  BY <1>1
<1>6. \A i \in 1..Len(w) : Len(v) + i \in 1..Len(v \o w)
  BY <1>1
<1>7. \A i \in 1..Len(v \o w) : i \in 1..Len(v) \/ \E j \in 1..Len(w) : i = Len(v) + j
  <2> SUFFICES ASSUME NEW i \in 1..Len(v \o w), i \notin 1..Len(v) PROVE \E j \in 1..Len(w) : i = Len(v) + j
    OBVIOUS
  <2>1. i \in 1..(Len(v) + Len(w))
    BY <1>1
  <2> QED BY <1>4, <2>1
<1> QED BY <1>1, <1>2, <1>3, <1>5, <1>6, <1>7, Zenon

LEMMA TablesStand ==
  ASSUME TablesFit, UNCHANGED tables
  PROVE  TablesFit'
<1>1. \A k : PlaysOn(k)' = PlaysOn(k)
  BY DEF PlaysOn, Plays
<1>2. \A k : TableFits(k)' = TableFits(k)
  BY <1>1 DEF TableFits
<1>3. \A k \in 1..Len(tables) : TableFits(k)'
  BY <1>2 DEF TablesFit
<1>4. \A k, m \in 1..Len(tables) : \A p \in PlaysOn(k)', q \in PlaysOn(m)' : SamePlay(p, q) => p = q
  BY <1>1 DEF TablesFit
<1>5. \A k, m, n \in 1..Len(tables) : k <= m /\ m <= n => PlaysOn(k)' \cap PlaysOn(n)' \subseteq PlaysOn(m)'
  BY <1>1 DEF TablesFit
<1>6. \A k, m \in 1..Len(tables) : k <= m => tables[k].next <= tables[m].next
  BY DEF TablesFit
<1> QED BY <1>3, <1>4, <1>5, <1>6 DEF TablesFit, SamePlay

LEMMA FirstDrawn ==
  ASSUME EffectsAssumption, FlightsInv, drawn = 0, NEW i \in 1..Len(tables), TableDrawn(i)
  PROVE  FlightsInv'
<1> USE DEF FlightsInv
<1>1. /\ flown = <<>> /\ ~older
      /\ flown' = flown \o SetToSeq({}) /\ seen' = Tokens(tables[i]) /\ old' = Plays(tables[i])
      /\ older' = (older \/ i < drawn) /\ drawn' = i /\ tables' = tables
  BY DEF TableDrawn, FlightsFit
<1>2. SetToSeq({}) = <<>>
  <2>1. IsFiniteSet({})
    BY FS_EmptySet
  <2>2. SetToSeq({}) \in Seq({})
    BY <2>1, InLineOnce
  <2> QED BY <2>2
<1>3. flown' = <<>> /\ ~older' /\ older' \in BOOLEAN /\ i # 0
  <2>1. <<>> \o <<>> = <<>>
    OBVIOUS
  <2>2. flown' = <<>>
    BY <1>1, <1>2, <2>1
  <2>3. ~(i < drawn) /\ i # 0
    BY <1>1
  <2> QED BY <1>1, <2>2, <2>3
<1>4. TablesType' /\ TablesFit'
  <2>1. <<>> \in Seq(Play) /\ i \in 0..Len(tables)
    OBVIOUS
  <2>2. TablesType'
    BY <1>1, <1>3, <2>1 DEF TablesType
  <2> QED BY <1>1, <2>2, TablesStand
<1>5. FlightsFit'
  <2>1. i \in 1..i /\ Len(<<>>) = 0 /\ 1..0 = {}
    OBVIOUS
  <2> QED BY <1>1, <1>3, <2>1 DEF FlightsFit, PlaysOn, Tokens, Plays
<1>6. NoneAppears'
  BY <1>1 DEF NoneAppears, Plays
<1> QED BY <1>4, <1>5, <1>6

(* A later snapshot is drawn: what is new flies, once, and everything has flown or
   was found there, or is a beat made again. *)
LEMMA LaterDrawn ==
  ASSUME EffectsAssumption, FlightsInv, drawn # 0, NEW i \in 1..Len(tables), TableDrawn(i)
  PROVE  FlightsInv'
<1> USE DEF FlightsInv
<1> DEFINE D == diffNewThrows(tables[i], seen)
           W == SetToSeq(D)
<1>1. /\ flown' = flown \o W /\ seen' = Tokens(tables[i]) /\ old' = old
      /\ skipped' = skipped \cup BeatenAgain(tables[drawn], tables[i])
      /\ older' = (older \/ i < drawn) /\ drawn' = i /\ tables' = tables
      /\ i > drawn \/ i < drawn
      /\ drawn \in 1..Len(tables) /\ seen = Tokens(tables[drawn])
      /\ tables[i] \in Snapshot /\ tables[drawn] \in Snapshot
  BY DEF TableDrawn, FlightsFit, TablesType
<1>2. /\ IsFiniteSet(D) /\ D \subseteq Play
      /\ D = {p \in PlaysOn(i) : Token(p) \notin seen}
  <2>1. Fits(tables[i])
    BY DEF TablesFit, TableFits, PlaysOn, Fits
  <2> QED BY <1>1, <2>1, NewThrows DEF PlaysOn
<1> HIDE DEF D
<1>3. /\ W \in Seq(D) /\ \A x \in D : \E j \in 1..Len(W) : W[j] = x
      /\ \A j, k \in 1..Len(W) : W[j] = W[k] => j = k
  BY <1>2, InLineOnce
<1> HIDE DEF W
<1>4. W \in Seq(Play) /\ \A j \in 1..Len(W) : W[j] \in D
  BY <1>2, <1>3
<1> DEFINE F == flown \o W
<1>5. /\ F \in Seq(Play) /\ Len(F) = Len(flown) + Len(W)
      /\ \A k \in 1..Len(flown) : F[k] = flown[k] /\ k \in 1..Len(F)
      /\ \A k \in 1..Len(W) : F[Len(flown) + k] = W[k] /\ Len(flown) + k \in 1..Len(F)
      /\ \A k \in 1..Len(F) : k \in 1..Len(flown) \/ \E j \in 1..Len(W) : k = Len(flown) + j
  BY <1>4, LineAfterLine DEF TablesType
<1>6. flown' = F
  BY <1>1
<1> HIDE DEF F
<1>7. TablesType' /\ TablesFit'
  <2>1. i \in 0..Len(tables) /\ older' \in BOOLEAN
    BY <1>1
  <2>2. TablesType'
    BY <1>1, <1>5, <1>6, <2>1 DEF TablesType
  <2> QED BY <1>1, <2>2, TablesStand
<1>8. ASSUME ~older'
      PROVE  /\ ~older /\ i > drawn
             /\ \A k \in 1..Len(flown) : flown[k] \notin old /\ \E m \in 1..drawn : flown[k] \in PlaysOn(m)
             /\ \A j, k \in 1..Len(flown) : SamePlay(flown[j], flown[k]) => j = k
             /\ \A p \in old : \E k \in 1..drawn : p \in PlaysOn(k)
  BY <1>1, <1>8 DEF FlightsFit
<1>9. ASSUME ~older', NEW m \in 1..drawn, NEW p \in PlaysOn(m), p \in PlaysOn(i)
      PROVE  p \in PlaysOn(drawn) /\ Token(p) \in seen
  <2>1. m \in 1..Len(tables) /\ m <= drawn /\ drawn <= i
    BY <1>1, <1>8, <1>9 DEF TablesType
  <2>2. p \in PlaysOn(drawn)
    BY <1>1, <1>9, <2>1 DEF TablesFit
  <2> QED BY <1>1, <2>2 DEF Tokens, PlaysOn
<1>10. ASSUME ~older', NEW j \in 1..Len(W)
       PROVE  W[j] \notin old /\ \A k \in 1..Len(flown) : ~SamePlay(flown[k], W[j])
  <2>1. W[j] \in PlaysOn(i) /\ Token(W[j]) \notin seen
    BY <1>2, <1>4
  <2>2. W[j] \notin old
    BY <1>8, <1>9, <1>10, <2>1
  <2>3. ASSUME NEW k \in 1..Len(flown), SamePlay(flown[k], W[j]) PROVE FALSE
    <3>1. PICK m \in 1..drawn : flown[k] \in PlaysOn(m)
      BY <1>8, <1>10
    <3>2. m \in 1..Len(tables)
      BY <1>1
    <3>3. flown[k] = W[j]
      BY <2>1, <2>3, <3>1, <3>2 DEF TablesFit
    <3> QED BY <1>9, <1>10, <2>1, <3>1, <3>3
  <2> QED BY <2>2, <2>3
<1>11. ASSUME ~older', NEW k \in 1..Len(F) PROVE F[k] \notin old /\ \E m \in 1..i : F[k] \in PlaysOn(m)
  <2>1. CASE k \in 1..Len(flown)
    <3>1. F[k] = flown[k]
      BY <1>5, <2>1
    <3>2. PICK m \in 1..drawn : flown[k] \in PlaysOn(m)
      BY <1>8, <1>11, <2>1
    <3>3. m \in 1..i
      BY <1>1, <1>8, <1>11
    <3> QED BY <1>8, <1>11, <2>1, <3>1, <3>2, <3>3
  <2>2. ASSUME NEW j \in 1..Len(W), k = Len(flown) + j PROVE F[k] \notin old /\ \E m \in 1..i : F[k] \in PlaysOn(m)
    <3>1. F[k] = W[j] /\ W[j] \in PlaysOn(i) /\ i \in 1..i
      BY <1>2, <1>4, <1>5, <2>2
    <3> QED BY <1>10, <1>11, <3>1
  <2> QED BY <1>5, <2>1, <2>2
<1>12. ASSUME ~older', NEW j \in 1..Len(F), NEW k \in 1..Len(F), SamePlay(F[j], F[k]) PROVE j = k
  <2>1. CASE j \in 1..Len(flown) /\ k \in 1..Len(flown)
    BY <1>5, <1>8, <1>12, <2>1
  <2>2. ASSUME NEW m \in 1..Len(W), NEW n \in 1..Len(W), j = Len(flown) + m, k = Len(flown) + n PROVE j = k
    <3>1. SamePlay(W[m], W[n]) /\ W[m] \in PlaysOn(i) /\ W[n] \in PlaysOn(i)
      BY <1>2, <1>4, <1>5, <1>12, <2>2
    <3>2. W[m] = W[n]
      BY <3>1 DEF TablesFit
    <3> QED BY <1>3, <2>2, <3>2
  <2>3. ASSUME NEW m \in 1..Len(W), j = Len(flown) + m, k \in 1..Len(flown) PROVE FALSE
    <3>1. SamePlay(flown[k], W[m])
      BY <1>5, <1>12, <2>3 DEF SamePlay
    <3> QED BY <1>10, <1>12, <2>3, <3>1
  <2>4. ASSUME NEW m \in 1..Len(W), k = Len(flown) + m, j \in 1..Len(flown) PROVE FALSE
    <3>1. SamePlay(flown[j], W[m])
      BY <1>5, <1>12, <2>4 DEF SamePlay
    <3> QED BY <1>10, <1>12, <2>4, <3>1
  <2> QED BY <1>5, <2>1, <2>2, <2>3, <2>4
<1>13. ASSUME ~older', NEW p \in old PROVE \E m \in 1..i : p \in PlaysOn(m)
  <2>1. PICK m \in 1..drawn : p \in PlaysOn(m)
    BY <1>8, <1>13
  <2>2. m \in 1..i
    BY <1>1, <1>8, <1>13
  <2> QED BY <2>1, <2>2
<1>14. FlightsFit'
  <2>1. \A k : PlaysOn(k)' = PlaysOn(k)
    BY <1>1 DEF PlaysOn, Plays
  <2>2. drawn' # 0 /\ seen' = Tokens(tables[drawn])'
    BY <1>1 DEF Tokens, Plays
  <2> QED BY <1>1, <1>6, <1>11, <1>12, <1>13, <2>1, <2>2 DEF FlightsFit, SamePlay
<1>15. NoneAppears'
  <2> SUFFICES ASSUME ~older', NEW p \in PlaysOn(i) PROVE p \in old \cup ToSet(F) \cup skipped'
    BY <1>1, <1>6 DEF NoneAppears, PlaysOn, Plays
  <2>1. ToSet(F) = {F[k] : k \in 1..Len(F)} /\ ToSet(flown) = {flown[k] : k \in 1..Len(flown)}
    <3>1. DOMAIN F = 1..Len(F) /\ DOMAIN flown = 1..Len(flown)
      BY <1>5 DEF TablesType
    <3> QED BY <3>1 DEF ToSet
  <2>2. CASE Token(p) \in seen
    <3>1. PICK q \in PlaysOn(drawn) : Token(q) = Token(p)
      BY <1>1, <2>2 DEF Tokens, PlaysOn
    <3>2. p[1] = q[1] /\ p[2] = q[2]
      BY <3>1 DEF Token
    <3>3. CASE q[4] = p[4]
      <4>1. p = q
        BY <1>1, <3>2, <3>3 DEF TablesFit, SamePlay
      <4>2. p \in old \cup ToSet(flown) \cup skipped
        BY <1>1, <1>8, <4>1 DEF NoneAppears, PlaysOn
      <4>3. ToSet(flown) \subseteq ToSet(F)
        BY <1>5, <2>1
      <4> QED BY <1>1, <4>2, <4>3
    <3>4. CASE q[4] # p[4]
      <4>1. p[1] = "beat"
        <5>1. p \in Plays(tables[i]) /\ q \in Plays(tables[drawn])
          BY DEF PlaysOn
        <5>2. p[1] \in {"attack", "beat"} /\ (p[1] = "attack" => p[4] = p[2])
          BY <1>1, <5>1, PlaysShape
        <5>3. q[1] = "attack" => q[4] = q[2]
          BY <1>1, <5>1, PlaysShape
        <5> QED BY <3>2, <3>4, <5>2, <5>3
      <4>2. p \in BeatenAgain(tables[drawn], tables[i])
        BY <3>1, <3>4, <4>1 DEF BeatenAgain, PlaysOn
      <4> QED BY <1>1, <4>2
    <3> QED BY <3>3, <3>4
  <2>3. CASE Token(p) \notin seen
    <3>1. p \in D
      BY <1>2, <2>3
    <3>2. PICK j \in 1..Len(W) : W[j] = p
      BY <1>3, <3>1
    <3>3. p \in ToSet(F)
      BY <1>5, <2>1, <3>2
    <3> QED BY <3>3
  <2> QED BY <2>2, <2>3
<1> QED BY <1>7, <1>14, <1>15

(* Another game's table fits. *)
LEMMA OtherTableFits ==
  ASSUME EffectsAssumption, NEW s \in OtherTables
  PROVE  s \in Snapshot /\ Fits(s)
<1>1. CASE \E d \in Seats : s = [cards |-> <<>>, defender |-> d, next |-> 1]
  <2>1. s \in Snapshot /\ s.cards = <<>>
    BY <1>1 DEF Snapshot
  <2>2. Plays(s) = {}
    BY <2>1 DEF Plays, ToSet
  <2> QED BY <2>1, <2>2 DEF Fits
<1>2. CASE \E p \in Seats \X Seats : s = [cards |-> <<Lays(1, p[1])>>, defender |-> p[2], next |-> 2]
  <2>1. PICK u \in Seats, d \in Seats : s = [cards |-> <<Lays(1, u)>>, defender |-> d, next |-> 2]
    BY <1>2
  <2> DEFINE c == Lays(1, u)
  <2>2. c \in Laid /\ c.id = 1 /\ c.by = u /\ c.beater = Nil
    BY DEF Laid, Lays
  <2>3. s.cards = <<c>> /\ s.defender = d /\ s.next = 2
    BY <2>1
  <2> HIDE DEF c
  <2>4. s \in Snapshot /\ Len(s.cards) = 1 /\ s.cards[1] = c
    BY <2>1, <2>2, <2>3 DEF Snapshot, c
  <2>5. ASSUME NEW p \in Plays(s) PROVE p = <<"attack", 1, u, 1>>
    <3>1. PICK i \in 1..1 : \/ p = <<"attack", s.cards[i].id, s.cards[i].by, s.cards[i].id>>
                            \/ s.cards[i].beater # Nil /\ p = <<"beat", s.cards[i].id, s.cards[i].beater, s.cards[i].turn>>
      BY <2>4, PlaysShape
    <3> QED BY <2>2, <2>4, <3>1
  <2>6. Fits(s)
    BY <2>3, <2>5 DEF Fits
  <2> QED BY <2>4, <2>6
<1> QED BY <1>1, <1>2 DEF OtherTables

(* The page that goes to another game starts its flights anew. *)
LEMMA GameLeft ==
  ASSUME EffectsAssumption, FlightsInv, NEW s \in OtherTables, GoesToGame(s)
  PROVE  FlightsInv'
<1> USE DEF FlightsInv
<1> DEFINE D == diffNewThrows(s, seen)
           W == SetToSeq(D)
<1>1. s \in Snapshot /\ Fits(s)
  BY OtherTableFits
<1>2. /\ tables' = <<s>> /\ drawn' = 1 /\ flown' = W /\ seen' = Tokens(s) /\ ~older' /\ older' \in BOOLEAN
      /\ old' = {p \in Plays(s) : Token(p) \in seen}
  BY DEF GoesToGame
<1>3. IsFiniteSet(D) /\ D \subseteq Play /\ D = {p \in Plays(s) : Token(p) \notin seen}
  BY <1>1, NewThrows
<1> HIDE DEF D
<1>4. /\ W \in Seq(D) /\ \A x \in D : \E j \in 1..Len(W) : W[j] = x
      /\ \A j, k \in 1..Len(W) : W[j] = W[k] => j = k
  BY <1>3, InLineOnce
<1> HIDE DEF W
<1>5. W \in Seq(Play) /\ \A j \in 1..Len(W) : W[j] \in D
  BY <1>3, <1>4
<1>6. tables' \in Seq(Snapshot) /\ tables' # <<>> /\ Len(tables') = 1 /\ tables'[1] = s /\ \A k \in 1..1 : k = 1
  BY <1>1, <1>2
<1>7. TablesType'
  BY <1>2, <1>5, <1>6 DEF TablesType
<1>8. PlaysOn(1)' = Plays(s) /\ Tokens(tables[1])' = Tokens(s)
  BY <1>6 DEF PlaysOn, Plays, Tokens
<1>9. TablesFit'
  <2>1. TableFits(1)'
    BY <1>1, <1>6, <1>8 DEF TableFits, Fits
  <2>2. s.next <= s.next
    BY <1>1, PlaysShape
  <2> QED BY <1>1, <1>6, <1>8, <2>1, <2>2 DEF TablesFit, Fits
<1>10. FlightsFit'
  <2>1. \A j \in 1..Len(W) : W[j] \in Plays(s) /\ W[j] \notin old'
    BY <1>2, <1>3, <1>5
  <2>2. \A j, k \in 1..Len(W) : SamePlay(W[j], W[k]) => j = k
    BY <1>1, <1>4, <2>1 DEF Fits
  <2>3. 1 \in 1..1
    OBVIOUS
  <2> QED BY <1>2, <1>8, <2>1, <2>2, <2>3 DEF FlightsFit, SamePlay
<1>11. NoneAppears'
  <2>1. ToSet(W) = {W[j] : j \in 1..Len(W)}
    BY <1>5 DEF ToSet
  <2>2. ASSUME NEW p \in Plays(s) PROVE p \in old' \cup ToSet(W)
    BY <1>2, <1>3, <1>4, <2>1
  <2> QED BY <1>2, <1>6, <2>2 DEF NoneAppears, Plays
<1> QED BY <1>7, <1>9, <1>10, <1>11

LEMMA FlightsStep ==
  ASSUME EffectsAssumption, FlightsInv, [EffectsNext]_effectVars
  PROVE  FlightsInv'
<1>1. ASSUME UNCHANGED tableVars PROVE FlightsInv'
  <2>1. UNCHANGED <<tables, drawn, seen, flown, older, old, skipped>>
    BY <1>1 DEF tableVars
  <2>2. TablesType' /\ TablesFit'
    BY <2>1, TablesStand DEF FlightsInv, TablesType
  <2>3. FlightsFit' /\ NoneAppears'
    BY <2>1 DEF FlightsInv, FlightsFit, PlaysOn, Plays, Tokens, SamePlay, NoneAppears
  <2> QED BY <2>2, <2>3 DEF FlightsInv
<1>2. CASE PresetChanges
  BY <1>1, <1>2 DEF PresetChanges
<1>3. ASSUME NEW u \in Speakers, PhraseRemoved(u) \/ recordReaction(u) \/ WindowEnds(u) PROVE FlightsInv'
  BY <1>1, <1>3 DEF PhraseRemoved, recordReaction, WindowEnds
<1>4. ASSUME NEW u \in Speakers, NEW r \in Speeches, CreateCounts(r, u) \/ TextResolves(r, u) PROVE FlightsInv'
  BY <1>1, <1>4 DEF CreateCounts, TextResolves
<1>5. ASSUME NEW r \in Speeches, CreateWrites(r) \/ recordTextReaction(r) PROVE FlightsInv'
  BY <1>1, <1>5 DEF CreateWrites, recordTextReaction
<1>6. ASSUME NEW t \in timer, BubbleEnds(t) PROVE FlightsInv'
  BY <1>1, <1>6 DEF BubbleEnds
<1>7. CASE \/ \E s \in Seats : CardThrown(s) \/ CardPassedOn(s) \/ TableCleared(s)
           \/ \E i \in 1..Len(OnTable.cards) : CardBeaten(i) \/ BeatTakenBack(i) \/ CardTakenBack(i)
  <2>1. PICK S \in Snapshot : Serves(S) /\ Continues(OnTable, S) /\ UNCHANGED shownVars
    BY <1>7, EngineServes DEF FlightsInv
  <2> QED BY <2>1, EngineKeeps
<1>8. ASSUME NEW i \in 1..Len(tables), TableDrawn(i) PROVE FlightsInv'
  BY <1>8, FirstDrawn, LaterDrawn
<1>9. ASSUME NEW s \in OtherTables, GoesToGame(s) PROVE FlightsInv'
  BY <1>9, GameLeft
<1>10. CASE UNCHANGED effectVars
  BY <1>1, <1>10 DEF effectVars
<1> QED BY <1>2, <1>3, <1>4, <1>5, <1>6, <1>7, <1>8, <1>9, <1>10 DEF EffectsNext

LEMMA EffectsStart ==
  ASSUME EffectsAssumption, EffectsInit
  PROVE  PhrasesInv /\ FlightsInv
<1> USE DEF EffectsInit
<1>1. \A u \in Speakers, kind \in Bubbles : bubble[u][kind] = 0
  OBVIOUS
<1>2. bubble \in [Speakers -> [Bubbles -> Nat]] /\ own \in [Speakers -> Nat] /\ \A u \in Speakers : own[u] = 0
  OBVIOUS
<1>3. PhrasesType /\ BubbleFades /\ RoomKept
  BY <1>1, <1>2 DEF PhrasesType, BubbleFades, RoomKept, Creates
<1>4. CapKept
  BY <1>2 DEF CapKept, EffectsAssumption
<1>5. PICK s \in Seats : tables = <<[cards |-> <<>>, defender |-> s, next |-> 1]>>
  OBVIOUS
<1> DEFINE S == [cards |-> <<>>, defender |-> s, next |-> 1]
<1>6. S \in Snapshot /\ S.cards = <<>> /\ S.next = 1 /\ ToSet(<<>>) = {} /\ Len(<<>>) = 0
  BY DEF Snapshot, ToSet
<1>7. tables = <<S>>
  BY <1>5
<1> HIDE DEF S
<1>8. tables \in Seq(Snapshot) /\ tables # <<>> /\ Len(tables) = 1 /\ \A k \in 1..Len(tables) : k = 1 /\ tables[k] = S
  BY <1>6, <1>7
<1>9. TablesType
  <2>1. 0 \in 0..Len(tables) /\ <<>> \in Seq(Play) /\ FALSE \in BOOLEAN
    BY <1>8
  <2> QED BY <1>8, <2>1 DEF TablesType
<1>10. TablesFit
  <2>1. Plays(S) = {}
    BY <1>6 DEF Plays
  <2>2. \A k \in 1..Len(tables) : PlaysOn(k) = {} /\ tables[k].next = 1
    BY <1>6, <1>8, <2>1 DEF PlaysOn
  <2> QED BY <2>2 DEF TablesFit, TableFits
<1>11. FlightsFit /\ NoneAppears
  <2>1. Len(<<>>) = 0 /\ 1..0 = {}
    OBVIOUS
  <2> QED BY <2>1 DEF FlightsFit, NoneAppears
<1> QED BY <1>3, <1>4, <1>9, <1>10, <1>11 DEF PhrasesInv, FlightsInv

(* A play that has flown is the same play on every snapshot. *)
LEMMA FliesFromWhom ==
  ASSUME FlightsInv
  PROVE  FliesOnce
<1> USE DEF FlightsInv
<1> SUFFICES ASSUME ~older PROVE FliesOnce
  BY DEF FliesOnce
<1>1. /\ \A i \in 1..Len(flown) : flown[i] \notin old /\ \E k \in 1..drawn : flown[i] \in PlaysOn(k)
      /\ \A i, j \in 1..Len(flown) : SamePlay(flown[i], flown[j]) => i = j
      /\ 1..drawn \subseteq 1..Len(tables)
  BY DEF FlightsFit, TablesType
<1>2. ASSUME NEW i \in 1..Len(flown), NEW k \in 1..Len(tables), NEW p \in PlaysOn(k),
             p[1] = flown[i][1], p[4] = flown[i][4]
      PROVE  p[3] = flown[i][3]
  <2>1. PICK m \in 1..Len(tables) : flown[i] \in PlaysOn(m)
    BY <1>1
  <2>2. p = flown[i]
    BY <1>2, <2>1 DEF TablesFit, SamePlay
  <2> QED BY <2>2
<1> QED BY <1>1, <1>2 DEF FliesOnce, SamePlay, PlaysOn

(* Bubbles go when their timers say so, a player's own phrases stay within their
   number, and a card laid or beaten flies once, from the seat it was played from, also
   after a cheat was rolled back; but for what the history variables excuse
   (useGameReactions, user-text-reactions.service.ts, useCardThrowAnimation.ts). *)
THEOREM EffectsHold == EffectsSpec => []EffectsAgree
<1> USE EffectsAssumption
<1>1. EffectsInit => PhrasesInv /\ FlightsInv
  BY EffectsStart
<1>2. PhrasesInv /\ FlightsInv /\ [EffectsNext]_effectVars => (PhrasesInv /\ FlightsInv)'
  BY PhrasesStep, FlightsStep
<1>3. PhrasesInv /\ FlightsInv => EffectsAgree
  BY FliesFromWhom DEF EffectsAgree, PhrasesInv, FlightsInv
<1> QED BY <1>1, <1>2, <1>3, PTL DEF EffectsSpec

(***************************************************************************)
(* The lists of the administrator's and the players' pages                 *)
(***************************************************************************)
(* A list of the subject: the parameters of the rating are all there. *)
Complete(sheet) == subject = "rating" => \A e \in Entries : sheet[e] # NoEntry
ListOf(sheet) == sheet \in Sheet /\ Complete(sheet)

(* Which mutations a list has. *)
Suits(m) ==
  /\ subject = "mine" => m.kind # "update"
  /\ subject = "cards" => m.kind # "create"
  /\ subject = "rating" => m.kind = "update" /\ m.fields # NoEntry

FormType ==
  /\ form \in Filled \cup {NoEntry} /\ typed \in [Entries -> Nat \cup {NoEntry}]
  /\ where \in {"desk", "table", "away"} /\ tangled \subseteq Copies
  /\ bound \in [writes : Nat, visits : Nat, strokes : Nat]
CopiesType ==
  /\ subject \in Subjects /\ ListOf(listRows)
  /\ copies \in [Copies -> [data : Sheet \cup {NoEntry}, fresh : BOOLEAN]]
  /\ fetches \in [Copies -> [step : {"idle", "sent", "read"}, data : Sheet \cup {NoEntry}]]
  /\ \A c \in Copies : /\ copies[c].data # NoEntry => ListOf(copies[c].data)
                       /\ copies[c].data = NoEntry => ~copies[c].fresh
                       /\ fetches[c].step = "read" => ListOf(fetches[c].data)
                       /\ fetches[c].step = "idle" => fetches[c] = Idle
ChangeFits(m) ==
  /\ Suits(m)
  /\ m.step # "sent" => ListOf(m.seen)
  /\ m.step # "sent" /\ m.ok /\ m.kind = "delete" /\ subject = "phrases" => m.seen[m.entry] = NoEntry
ChangesType == changes \in Seq(Change) /\ \A n \in DOMAIN changes : ChangeFits(changes[n])
DeskType == FormType /\ CopiesType /\ ChangesType

(* Nothing is typed before the form is filled. *)
FormFits == form = NoEntry => \A e \in Entries : typed[e] = NoEntry

(* A save of the page that is open carries what was typed before it, and what the
   server answers is what the save carries. *)
SavesFit ==
  subject = "rating" => \A n \in DOMAIN changes :
    /\ UnderWay(n) => \A e \in Entries \ hasty : typed[e] # NoEntry => changes[n].fields[e] = typed[e]
    /\ changes[n].step # "sent" /\ changes[n].ok => \A e \in Entries : changes[n].seen[e].v = changes[n].fields[e]

(* A copy some page of the subject shows; a row that a mutation has changed whose
   answer is yet to come; a copy that holds what the server has, but for those rows. *)
Used(c) == subject \in {"phrases", "cards"} \/ c = "desk"
Touched(e) ==
  \E n \in DOMAIN changes :
    changes[n].step = "done" /\ changes[n].ok /\ (changes[n].entry = e \/ subject = "rating")
UpToDate(c, data) == \A e \in Entries : data[e] = Visible(c, listRows)[e] \/ Touched(e)

(* A copy that no fetch and no mutation tangled: if it is not being fetched and is
   not to be, it is up to date, as is what a fetch has read; and what a page shows is
   being fetched or is not to be. *)
CopiesFit ==
  \A c \in Copies : Used(c) =>
    /\ Mounted(c, where) /\ fetches[c] = Idle => copies[c].fresh
    /\ c \notin tangled =>
         /\ fetches[c] = Idle /\ copies[c].fresh => UpToDate(c, copies[c].data)
         /\ fetches[c].step = "read" => UpToDate(c, fetches[c].data)

DeskInv == DeskType /\ FormKept /\ FormFits /\ SavesFit /\ CopiesFit

(* What is read of a list is a list, row by row; what fills the form is filled in. *)
LEMMA VisibleShape ==
  ASSUME DeskAssumption, NEW c \in Copies, NEW all, ListOf(all)
  PROVE  /\ ListOf(Visible(c, all)) /\ all \in Sheet
         /\ \A e \in Entries :
              Visible(c, all)[e] = IF subject = "phrases" /\ c = "table" /\ (all[e] = NoEntry \/ ~all[e].on) THEN NoEntry ELSE all[e]
BY DEF ListOf, Complete, Sheet, Visible

LEMMA FilledIn ==
  ASSUME DeskAssumption, NEW sheet, ListOf(sheet), subject = "rating"
  PROVE  [e \in Entries |-> sheet[e].v] \in Filled /\ [e \in Entries |-> sheet[e].v] # NoEntry
<1>1. \A e \in Entries : sheet[e] \in Entry
  BY DEF ListOf, Complete, Sheet
<1>2. [e \in Entries |-> sheet[e].v] \in Filled
  BY <1>1 DEF Entry, Filled
<1> QED BY <1>2 DEF DeskAssumption

LEMMA DeskShape ==
  ASSUME DeskType
  PROVE  /\ \A c \in Copies : /\ copies[c] \in [data : Sheet \cup {NoEntry}, fresh : BOOLEAN]
                              /\ fetches[c] \in [step : {"idle", "sent", "read"}, data : Sheet \cup {NoEntry}]
         /\ \A n \in DOMAIN changes : n \in 1..Len(changes) /\ changes[n] \in Change
         /\ DOMAIN changes = 1..Len(changes) /\ Len(changes) \in Nat
BY DEF DeskType, CopiesType, ChangesType

(* A step that leaves the rows, the copies and the fetches, and of the mutations all
   but what they touch. *)
LEMMA CopiesStay ==
  ASSUME CopiesFit, UNCHANGED <<subject, listRows, copies, fetches, where, tangled>>,
         \A e \in Entries : Touched(e)' <=> Touched(e)
  PROVE  CopiesFit'
<1>1. ASSUME NEW c \in Copies PROVE (Used(c)' <=> Used(c)) /\ (Mounted(c, where)' <=> Mounted(c, where))
  BY DEF Used, Mounted
<1>2. ASSUME NEW c \in Copies, NEW data PROVE UpToDate(c, data)' <=> UpToDate(c, data)
  BY DEF UpToDate, Visible
<1>3. ASSUME NEW c \in Copies
      PROVE  /\ UpToDate(c, copies[c].data)' <=> UpToDate(c, copies[c].data)
             /\ UpToDate(c, fetches[c].data)' <=> UpToDate(c, fetches[c].data)
  <2>1. copies'[c].data = copies[c].data /\ fetches'[c].data = fetches[c].data
    OBVIOUS
  <2> QED BY <2>1 DEF UpToDate, Visible
<1> QED BY <1>1, <1>3 DEF CopiesFit

LEMMA LeftAlone ==
  ASSUME NEW m \in Change
  PROVE  LET r == [m EXCEPT !.here = FALSE]
         IN  /\ r \in Change /\ r.kind = m.kind /\ r.entry = m.entry /\ r.fields = m.fields
             /\ r.step = m.step /\ r.ok = m.ok /\ r.seen = m.seen
BY DEF Change

(* Mutations of which nothing has changed that a row or a copy would tell. *)
LEMMA ChangesStay ==
  ASSUME ChangesType, UNCHANGED subject, changes' \in Seq(Change), DOMAIN changes' = DOMAIN changes,
         \A n \in DOMAIN changes : /\ changes'[n].kind = changes[n].kind /\ changes'[n].entry = changes[n].entry
                                   /\ changes'[n].fields = changes[n].fields /\ changes'[n].step = changes[n].step
                                   /\ changes'[n].ok = changes[n].ok /\ changes'[n].seen = changes[n].seen
  PROVE  ChangesType' /\ \A e \in Entries : Touched(e)' <=> Touched(e)
<1>1. ASSUME NEW n \in DOMAIN changes PROVE ChangeFits(changes[n])'
  <2>1. ChangeFits(changes[n])
    BY DEF ChangesType
  <2> QED BY <2>1 DEF ChangeFits, Suits, ListOf, Complete
<1>2. ASSUME NEW e \in Entries PROVE Touched(e)' <=> Touched(e)
  BY DEF Touched
<1> QED BY <1>1, <1>2 DEF ChangesType

LEMMA VisitsKeep ==
  ASSUME DeskAssumption, DeskInv, NEW p \in {"desk", "table", "away"}, Visits(p)
  PROVE  DeskInv'
<1> USE DEF DeskInv
<1>1. /\ UNCHANGED <<subject, listRows, copies>> /\ where' = p
      /\ bound' = [bound EXCEPT !.visits = bound.visits - 1] /\ bound.visits > 0
      /\ changes' = [n \in DOMAIN changes |-> [changes[n] EXCEPT !.here = FALSE]]
      /\ form' = IF subject = "rating" /\ p = "desk" /\ copies.desk.data # NoEntry
                 THEN [e \in Entries |-> copies.desk.data[e].v] ELSE NoEntry
      /\ typed' = [e \in Entries |-> NoEntry] /\ hasty' = {}
  BY DEF Visits
<1>2. PICK wanted \in SUBSET {c \in Copies : Mounted(c, p)} :
        /\ \A c \in Copies : Mounted(c, p) /\ (copies[c].data = NoEntry \/ ~copies[c].fresh) => c \in wanted
        /\ fetches' = [c \in Copies |-> IF c \in wanted /\ fetches[c] = Idle THEN Fetch(c) ELSE fetches[c]]
        /\ tangled' = {c \in tangled : fetches'[c] = fetches[c]}
  BY DEF Visits
<1>3. /\ DOMAIN changes' = DOMAIN changes /\ changes' \in Seq(Change)
      /\ \A n \in DOMAIN changes : /\ changes'[n].kind = changes[n].kind /\ changes'[n].entry = changes[n].entry
                                   /\ changes'[n].fields = changes[n].fields /\ changes'[n].step = changes[n].step
                                   /\ changes'[n].ok = changes[n].ok /\ changes'[n].seen = changes[n].seen
  <2>1. \A n \in DOMAIN changes : changes[n] \in Change /\ changes'[n] = [changes[n] EXCEPT !.here = FALSE]
    BY <1>1, DeskShape
  <2>2. DOMAIN changes' = DOMAIN changes /\ DOMAIN changes = 1..Len(changes) /\ Len(changes) \in Nat
    BY <1>1, DeskShape
  <2>3. ASSUME NEW n \in DOMAIN changes
        PROVE  /\ changes'[n] \in Change
               /\ changes'[n].kind = changes[n].kind /\ changes'[n].entry = changes[n].entry
               /\ changes'[n].fields = changes[n].fields /\ changes'[n].step = changes[n].step
               /\ changes'[n].ok = changes[n].ok /\ changes'[n].seen = changes[n].seen
    BY ZenonT(30), <2>1, LeftAlone
  <2>4. changes' \in Seq(Change)
    <3>1. changes' = [n \in 1..Len(changes) |-> changes'[n]]
      BY <1>1, <2>2
    <3> QED BY <2>2, <2>3, <3>1
  <2> QED BY <2>2, <2>3, <2>4
<1>4. \A c \in Copies : fetches'[c] = fetches[c] \/ (fetches'[c] = Fetch(c) /\ c \notin tangled')
  <2>1. \A c \in Copies : Fetch(c) # Idle
    BY DEF Fetch, Idle
  <2> QED BY <1>2, <2>1 DEF DeskType, FormType, CopiesType
<1>5. fetches' \in [Copies -> [step : {"idle", "sent", "read"}, data : Sheet \cup {NoEntry}]]
  BY <1>2 DEF DeskType, CopiesType, Fetch
<1>6. form' \in Filled \cup {NoEntry} /\ typed' \in [Entries -> Nat \cup {NoEntry}]
  <2>1. "desk" \in Copies
    BY DEF Copies
  <2>2. copies.desk.data # NoEntry => ListOf(copies.desk.data)
    BY <2>1 DEF DeskType, FormType, CopiesType
  <2> QED BY <1>1, <2>2, FilledIn
<1>7. bound' \in [writes : Nat, visits : Nat, strokes : Nat]
  BY <1>1 DEF DeskType, FormType, CopiesType
<1>8. \A c \in Copies : /\ fetches'[c].step = "read" => ListOf(fetches'[c].data)
                        /\ fetches'[c].step = "idle" => fetches'[c] = Idle
  <2> TAKE c \in Copies
  <2>1. CASE fetches'[c] = fetches[c]
    BY <2>1 DEF DeskType, FormType, CopiesType
  <2>2. CASE fetches'[c] = Fetch(c)
    BY <2>2 DEF Fetch
  <2> QED BY <1>4, <2>1, <2>2
<1>9. ChangesType' /\ \A e \in Entries : Touched(e)' <=> Touched(e)
  <2>1. UNCHANGED subject /\ ChangesType
    BY <1>1 DEF DeskType, FormType, CopiesType
  <2> QED BY <1>3, <2>1, ChangesStay
<1>10. DeskType'
  <2>1. FormType'
    BY <1>1, <1>2, <1>6, <1>7 DEF DeskType, FormType
  <2>2. CopiesType'
    BY <1>1, <1>5, <1>8 DEF DeskType, CopiesType, ListOf, Complete, Idle
  <2> QED BY <1>9, <2>1, <2>2 DEF DeskType, FormType, CopiesType
<1>11. CopiesFit'
  <2> SUFFICES ASSUME NEW c \in Copies, Used(c)'
               PROVE  /\ Mounted(c, where)' /\ fetches'[c] = Idle => copies'[c].fresh
                      /\ c \notin tangled' =>
                           /\ fetches'[c] = Idle /\ copies'[c].fresh => UpToDate(c, copies[c].data)'
                           /\ fetches'[c].step = "read" => UpToDate(c, fetches[c].data)'
    BY DEF CopiesFit, Idle
  <2>1. Used(c) /\ (Mounted(c, where)' <=> Mounted(c, p)) /\ copies'[c] = copies[c]
    BY <1>1 DEF Used, Mounted
  <2>2. Mounted(c, p) /\ fetches'[c] = Idle => copies[c].fresh
    <3>1. Fetch(c) # Idle
      BY DEF Fetch, Idle
    <3> QED BY <1>2, <3>1
  <2>3. ASSUME c \notin tangled', fetches'[c] = Idle \/ fetches'[c].step = "read"
        PROVE  fetches'[c] = fetches[c] /\ c \notin tangled
    <3>1. fetches'[c] # Fetch(c)
      BY <2>3 DEF Fetch, Idle
    <3>2. fetches'[c] = fetches[c]
      BY <1>4, <3>1
    <3> QED BY <1>2, <2>3, <3>2
  <2>4. ASSUME NEW data PROVE UpToDate(c, data)' <=> UpToDate(c, data)
    BY <1>1, <1>9 DEF UpToDate, Visible
  <2>5. c \notin tangled' /\ fetches'[c] = Idle /\ copies'[c].fresh => UpToDate(c, copies[c].data)'
    <3>1. c \notin tangled' /\ fetches'[c] = Idle /\ copies'[c].fresh => UpToDate(c, copies[c].data)
      BY <2>1, <2>3 DEF CopiesFit
    <3> QED BY <1>1, <1>9, <3>1 DEF UpToDate, Visible
  <2>6. c \notin tangled' /\ fetches'[c].step = "read" => UpToDate(c, fetches[c].data)'
    <3>1. c \notin tangled' /\ fetches'[c].step = "read" => UpToDate(c, fetches[c].data) /\ fetches'[c] = fetches[c]
      BY <2>1, <2>3 DEF CopiesFit
    <3> QED BY <1>1, <1>9, <3>1 DEF UpToDate, Visible
  <2> QED BY <2>1, <2>2, <2>5, <2>6
<1>12. FormKept' /\ FormFits'
  BY <1>1 DEF FormKept, FormFits
<1>13. SavesFit'
  <2>1. ASSUME NEW n \in DOMAIN changes'
        PROVE  /\ n \in DOMAIN changes /\ ~changes'[n].here /\ changes'[n].step = changes[n].step
               /\ changes'[n].ok = changes[n].ok /\ changes'[n].seen = changes[n].seen
               /\ changes'[n].fields = changes[n].fields
    <3>1. n \in DOMAIN changes /\ changes[n] \in Change
      BY <1>1, <2>1, DeskShape
    <3>2. changes'[n] = [changes[n] EXCEPT !.here = FALSE]
      BY <1>1, <3>1
    <3> QED BY <3>1, <3>2 DEF Change
  <2> QED BY <1>1, <2>1 DEF SavesFit, UnderWay
<1> QED BY <1>10, <1>11, <1>12, <1>13

(* A copy that a step leaves as it is, with its fetch. *)
LEMMA CopyStays ==
  ASSUME CopiesFit, UNCHANGED <<subject, listRows, where>>, NEW c \in Copies,
         copies'[c] = copies[c], fetches'[c] = fetches[c], c \in tangled' <=> c \in tangled,
         \A e \in Entries : Touched(e)' <=> Touched(e), Used(c)
  PROVE  /\ Mounted(c, where) /\ fetches'[c] = Idle => copies'[c].fresh
         /\ c \notin tangled' =>
              /\ fetches'[c] = Idle /\ copies'[c].fresh => UpToDate(c, copies[c].data)'
              /\ fetches'[c].step = "read" => UpToDate(c, fetches[c].data)'
<1>1. c \notin tangled' => /\ fetches'[c] = Idle /\ copies'[c].fresh => UpToDate(c, copies[c].data)
                           /\ fetches'[c].step = "read" => UpToDate(c, fetches[c].data)
  BY DEF CopiesFit
<1>2. UpToDate(c, copies[c].data) => UpToDate(c, copies[c].data)'
  BY DEF UpToDate, Visible
<1>3. UpToDate(c, fetches[c].data) => UpToDate(c, fetches[c].data)'
  BY DEF UpToDate, Visible
<1> QED BY <1>1, <1>2, <1>3 DEF CopiesFit

LEMMA FetchReadKeeps ==
  ASSUME DeskAssumption, DeskInv, NEW c \in Copies, FetchRead(c)
  PROVE  DeskInv'
<1> USE DEF DeskInv
<1>1. /\ fetches' = [fetches EXCEPT ![c] = [step |-> "read", data |-> Visible(c, listRows)]]
      /\ UNCHANGED <<subject, listRows, copies, where, changes, form, typed, hasty, tangled, bound>>
  BY DEF FetchRead
<1>2. ListOf(Visible(c, listRows)) /\ Visible(c, listRows) \in Sheet
  BY VisibleShape DEF DeskType, CopiesType, ListOf
<1>3. /\ fetches' \in [Copies -> [step : {"idle", "sent", "read"}, data : Sheet \cup {NoEntry}]]
      /\ \A k \in Copies : fetches'[k] = IF k = c THEN [step |-> "read", data |-> Visible(c, listRows)] ELSE fetches[k]
  BY <1>1, <1>2 DEF DeskType, CopiesType
<1>4. FormType'
  BY <1>1 DEF DeskType, FormType
<1>5. CopiesType'
  BY <1>1, <1>2, <1>3 DEF DeskType, CopiesType, ListOf, Complete, Idle
<1>6. ChangesType' /\ \A e \in Entries : Touched(e)' <=> Touched(e)
  BY <1>1, ChangesStay DEF DeskType, ChangesType
<1>7. CopiesFit'
  <2> SUFFICES ASSUME NEW k \in Copies, Used(k)
               PROVE  /\ Mounted(k, where) /\ fetches'[k] = Idle => copies'[k].fresh
                      /\ k \notin tangled' =>
                           /\ fetches'[k] = Idle /\ copies'[k].fresh => UpToDate(k, copies[k].data)'
                           /\ fetches'[k].step = "read" => UpToDate(k, fetches[k].data)'
    BY <1>1 DEF CopiesFit, Idle, Used, Mounted
  <2>1. CASE k = c
    <3>1. fetches'[c].step = "read" /\ fetches'[c] # Idle /\ fetches'[c].data = Visible(c, listRows)
      BY <1>3 DEF Idle
    <3>2. UpToDate(c, fetches[c].data)'
      BY <1>1, <3>1 DEF UpToDate, Visible
    <3> QED BY <2>1, <3>1, <3>2
  <2>2. CASE k # c
    BY <1>1, <1>3, <1>6, <2>2, CopyStays
  <2> QED BY <2>1, <2>2
<1>8. FormKept' /\ FormFits' /\ SavesFit'
  BY <1>1 DEF FormKept, FormFits, SavesFit, UnderWay
<1> QED BY <1>4, <1>5, <1>6, <1>7, <1>8 DEF DeskType

LEMMA FetchLoadedKeeps ==
  ASSUME DeskAssumption, DeskInv, NEW c \in Copies, FetchLoaded(c)
  PROVE  DeskInv'
<1> USE DEF DeskInv
<1>1. /\ fetches[c].step = "read"
      /\ copies' = [copies EXCEPT ![c] = [data |-> fetches[c].data, fresh |-> TRUE]]
      /\ fetches' = [fetches EXCEPT ![c] = Idle]
      /\ form' = IF subject = "rating" /\ where = "desk" /\ form = NoEntry
                 THEN [e \in Entries |-> fetches[c].data[e].v] ELSE form
      /\ UNCHANGED <<subject, listRows, where, changes, typed, hasty, tangled, bound>>
  BY DEF FetchLoaded, Seeds
<1>2. ListOf(fetches[c].data) /\ fetches[c].data \in Sheet /\ fetches[c].data # NoEntry
  BY <1>1 DEF DeskType, CopiesType, ListOf, DeskAssumption
<1>3. /\ fetches' \in [Copies -> [step : {"idle", "sent", "read"}, data : Sheet \cup {NoEntry}]]
      /\ copies' \in [Copies -> [data : Sheet \cup {NoEntry}, fresh : BOOLEAN]]
      /\ \A k \in Copies : /\ fetches'[k] = IF k = c THEN Idle ELSE fetches[k]
                           /\ copies'[k] = IF k = c THEN [data |-> fetches[c].data, fresh |-> TRUE] ELSE copies[k]
  BY <1>1, <1>2 DEF DeskType, CopiesType, Idle
<1>4. FormType'
  <2>1. form' \in Filled \cup {NoEntry}
    BY <1>1, <1>2, FilledIn DEF DeskType, FormType
  <2> QED BY <1>1, <2>1 DEF DeskType, FormType
<1>5. CopiesType'
  <2>1. \A k \in Copies : /\ copies'[k].data # NoEntry => ListOf(copies'[k].data)
                          /\ copies'[k].data = NoEntry => ~copies'[k].fresh
                          /\ fetches'[k].step = "read" => ListOf(fetches'[k].data)
                          /\ fetches'[k].step = "idle" => fetches'[k] = Idle
    BY <1>2, <1>3 DEF DeskType, CopiesType, Idle
  <2> QED BY <1>1, <1>3, <2>1 DEF DeskType, CopiesType, ListOf, Complete, Idle
<1>6. ChangesType' /\ \A e \in Entries : Touched(e)' <=> Touched(e)
  BY <1>1, ChangesStay DEF DeskType, ChangesType
<1>7. CopiesFit'
  <2> SUFFICES ASSUME NEW k \in Copies, Used(k)
               PROVE  /\ Mounted(k, where) /\ fetches'[k] = Idle => copies'[k].fresh
                      /\ k \notin tangled' =>
                           /\ fetches'[k] = Idle /\ copies'[k].fresh => UpToDate(k, copies[k].data)'
                           /\ fetches'[k].step = "read" => UpToDate(k, fetches[k].data)'
    BY <1>1 DEF CopiesFit, Idle, Used, Mounted
  <2>1. CASE k = c
    <3>1. fetches'[c] = Idle /\ copies'[c].fresh /\ copies'[c].data = fetches[c].data /\ fetches'[c].step # "read"
      BY <1>3 DEF Idle
    <3>2. c \notin tangled' => UpToDate(c, fetches[c].data)
      BY <1>1, <2>1 DEF CopiesFit
    <3>3. c \notin tangled' => UpToDate(c, copies[c].data)'
      BY <1>1, <1>6, <3>1, <3>2 DEF UpToDate, Visible
    <3> QED BY <2>1, <3>1, <3>3
  <2>2. CASE k # c
    BY <1>1, <1>3, <1>6, <2>2, CopyStays
  <2> QED BY <2>1, <2>2
<1>8. FormKept' /\ FormFits'
  <2>1. form = NoEntry => \A e \in Entries : typed'[e] = NoEntry
    BY <1>1 DEF FormFits
  <2>2. CASE form = NoEntry
    BY <2>1, <2>2 DEF FormKept, FormFits
  <2>3. CASE form # NoEntry
    BY <1>1, <2>3 DEF FormKept, FormFits
  <2> QED BY <2>2, <2>3
<1>9. SavesFit'
  BY <1>1 DEF SavesFit, UnderWay
<1> QED BY <1>4, <1>5, <1>6, <1>7, <1>8, <1>9 DEF DeskType

LEMMA TypesKeep ==
  ASSUME DeskAssumption, DeskInv, NEW e \in Entries, Types(e)
  PROVE  DeskInv'
<1> USE DEF DeskInv
<1> DEFINE n == 10 + bound.strokes
<1>1. /\ bound.strokes > 0 /\ bound' = [bound EXCEPT !.strokes = bound.strokes - 1] /\ form # NoEntry
      /\ form' = [form EXCEPT ![e] = n] /\ typed' = [typed EXCEPT ![e] = n]
      /\ hasty' = IF Under({"update"}) THEN hasty \cup {e} ELSE hasty \ {e}
      /\ UNCHANGED <<subject, listRows, copies, fetches, where, changes, tangled>>
  BY DEF Types
<1>2. n \in Nat /\ form \in Filled
  BY <1>1 DEF DeskType, FormType
<1> HIDE DEF n
<1>3. form' \in Filled /\ form' # NoEntry
  <2>1. form' \in Filled
    BY <1>1, <1>2 DEF Filled
  <2> QED BY <2>1 DEF DeskAssumption
<1>4. FormType'
  BY <1>1, <1>2, <1>3 DEF DeskType, FormType
<1>5. CopiesType'
  BY <1>1 DEF DeskType, CopiesType, ListOf, Complete, Idle
<1>6. ChangesType' /\ \A x \in Entries : Touched(x)' <=> Touched(x)
  BY <1>1, ChangesStay DEF DeskType, ChangesType
<1>7. CopiesFit'
  BY <1>1, <1>6, CopiesStay
<1>8. FormKept' /\ FormFits'
  BY <1>1, <1>2, <1>3 DEF FormKept, FormFits, DeskType, FormType, Filled
<1>9. SavesFit'
  <2> SUFFICES ASSUME subject = "rating", NEW k \in DOMAIN changes, UnderWay(k), NEW x \in Entries \ hasty', typed'[x] # NoEntry
               PROVE  changes[k].fields[x] = typed'[x]
    BY <1>1 DEF SavesFit, UnderWay
  <2>1. changes[k].kind = "update"
    BY DEF DeskType, ChangesType, ChangeFits, Suits
  <2>2. hasty' = hasty \cup {e}
    BY <1>1, <2>1 DEF Under
  <2>3. x # e /\ x \notin hasty
    BY <2>2
  <2>4. typed'[x] = typed[x]
    BY <1>1, <2>3 DEF DeskType, FormType
  <2> QED BY <2>3, <2>4 DEF SavesFit
<1> QED BY <1>4, <1>5, <1>6, <1>7, <1>8, <1>9 DEF DeskType

(* A button that is there suits the list. *)
LEMMA MutatesKeeps ==
  ASSUME DeskAssumption, DeskInv, NEW e \in Entries, NEW kind \in {"create", "update", "delete"}, Mutates(kind, e)
  PROVE  DeskInv'
<1> USE DEF DeskInv
<1> DEFINE m == [kind |-> kind, entry |-> e, fields |-> form, step |-> "sent", ok |-> FALSE, seen |-> NoEntry, here |-> TRUE]
<1>1. /\ bound.writes > 0 /\ bound' = [bound EXCEPT !.writes = bound.writes - 1] /\ Offers(kind, e)
      /\ changes' = Append(changes, m)
      /\ UNCHANGED <<subject, listRows, copies, fetches, where, form, typed, hasty, tangled>>
  BY DEF Mutates
<1>2. m \in Change /\ m.step = "sent" /\ m.kind = kind /\ m.fields = form
  BY DEF DeskType, FormType, Change
<1>3. /\ subject = "mine" => kind # "update"
      /\ subject = "cards" => kind # "create"
      /\ subject = "rating" => kind = "update" /\ form # NoEntry
  BY <1>1 DEF Offers, MineOffers, SlotOffers, FormOffers
<1>4. ChangeFits(m)
  BY <1>2, <1>3 DEF ChangeFits, Suits
<1> HIDE DEF m
<1>5. /\ changes' \in Seq(Change) /\ DOMAIN changes' = DOMAIN changes \cup {Len(changes) + 1}
      /\ \A n \in DOMAIN changes : changes'[n] = changes[n]
      /\ changes'[Len(changes) + 1] = m
  BY <1>1, <1>2 DEF DeskType, ChangesType
<1>6. FormType'
  BY SMTT(15), <1>1 DEF DeskType, FormType
<1>7. CopiesType'
  BY <1>1 DEF DeskType, CopiesType, ListOf, Complete, Idle
<1>8. ChangesType'
  <2>1. ASSUME NEW n \in DOMAIN changes' PROVE ChangeFits(changes'[n])
    BY <1>4, <1>5 DEF DeskType, ChangesType
  <2>2. \A n \in DOMAIN changes' : ChangeFits(changes[n])'
    BY <1>1, <2>1 DEF ChangeFits, Suits, ListOf, Complete
  <2> QED BY <1>5, <2>2 DEF ChangesType
<1>9. ASSUME NEW x \in Entries PROVE Touched(x)' <=> Touched(x)
  <2>1. \A n \in DOMAIN changes' : n \in DOMAIN changes \/ (n = Len(changes) + 1 /\ changes'[n].step # "done")
    BY <1>2, <1>5
  <2> QED BY <1>1, <1>5, <2>1 DEF Touched
<1>10. CopiesFit'
  BY <1>1, <1>9, CopiesStay
<1>11. FormKept' /\ FormFits'
  BY <1>1 DEF FormKept, FormFits
<1>12. SavesFit'
  <2>1. ASSUME subject = "rating", NEW x \in Entries \ hasty, typed[x] # NoEntry
        PROVE  m.fields[x] = typed[x]
    BY <1>2, <1>3, <2>1 DEF FormKept
  <2> QED BY <1>1, <1>2, <1>5, <2>1 DEF SavesFit, UnderWay
<1> QED BY <1>6, <1>7, <1>8, <1>10, <1>11, <1>12 DEF DeskType

(* What the server makes of the list: of no other row than the mutation's. *)
LEMMA WrittenShape ==
  ASSUME DeskAssumption, DeskType, NEW m \in Change, ChangeFits(m), NEW n \in Nat,
         m.kind = "create" \/ listRows[m.entry] # NoEntry
  PROVE  /\ ListOf(Written(m, n))
         /\ \A e \in Entries : e # m.entry /\ subject # "rating" => Written(m, n)[e] = listRows[e]
         /\ m.kind = "delete" /\ subject = "phrases" => Written(m, n)[m.entry] = NoEntry
<1> USE DEF DeskType, CopiesType
<1>1. /\ m.kind \in {"create", "update", "delete"} /\ m.entry \in Entries /\ listRows \in Sheet /\ subject \in Subjects
      /\ listRows[m.entry] # NoEntry => listRows[m.entry] \in Entry
      /\ m.fields \in Filled \cup {NoEntry}
  BY DEF Change, ListOf, Sheet
<1>2. ASSUME NEW row \in Entry \cup {NoEntry}, subject # "rating"
      PROVE  /\ ListOf([listRows EXCEPT ![m.entry] = row])
             /\ \A e \in Entries : e # m.entry => [listRows EXCEPT ![m.entry] = row][e] = listRows[e]
             /\ [listRows EXCEPT ![m.entry] = row][m.entry] = row
  BY <1>1, <1>2 DEF ListOf, Complete, Sheet
<1>3. \A b \in BOOLEAN : [v |-> n, on |-> b] \in Entry
  BY DEF Entry
<1>4. CASE subject = "rating"
  <2>1. m.kind = "update" /\ m.fields \in Filled
    BY <1>1, <1>4 DEF ChangeFits, Suits
  <2>2. Written(m, n) = [e \in Entries |-> [v |-> m.fields[e], on |-> TRUE]]
    BY <1>4, <2>1 DEF Written
  <2>3. \A e \in Entries : [v |-> m.fields[e], on |-> TRUE] \in Entry
    BY <2>1 DEF Entry, Filled
  <2>4. ListOf(Written(m, n))
    BY <2>2, <2>3 DEF ListOf, Complete, Sheet, DeskAssumption
  <2> QED BY <1>4, <2>4
<1>5. CASE subject # "rating"
  <2>1. PICK row \in Entry \cup {NoEntry} :
          Written(m, n) = [listRows EXCEPT ![m.entry] = row] /\ (m.kind = "delete" /\ subject = "phrases" => row = NoEntry)
    <3>1. CASE m.kind = "delete" /\ subject = "cards"
      BY <1>3, <1>5, <3>1 DEF Written
    <3>2. CASE m.kind = "delete" /\ subject # "cards"
      BY <1>5, <3>2 DEF Written
    <3>3. CASE m.kind = "create"
      BY <1>3, <1>5, <3>3 DEF Written
    <3>4. CASE m.kind = "update" /\ subject = "cards"
      BY <1>3, <1>5, <3>4 DEF Written
    <3>5. CASE m.kind = "update" /\ subject # "cards"
      <4>1. subject \in {"phrases", "users"}
        BY <1>1, <1>5, <3>5 DEF ChangeFits, Suits, Subjects
      <4>2. Written(m, n) = [listRows EXCEPT ![m.entry] = [v |-> n, on |-> ~listRows[m.entry].on]]
        BY <1>5, <3>5, <4>1 DEF Written
      <4>3. (~listRows[m.entry].on) \in BOOLEAN
        OBVIOUS
      <4> QED BY <1>3, <3>5, <4>2, <4>3
    <3> QED BY <1>1, <3>1, <3>2, <3>3, <3>4, <3>5
  <2> DEFINE new == [listRows EXCEPT ![m.entry] = row]
  <2>2. ListOf(new) /\ (\A e \in Entries : e # m.entry => new[e] = listRows[e]) /\ new[m.entry] = row
    BY <1>2, <1>5
  <2>3. Written(m, n) = new
    BY <2>1
  <2> HIDE DEF new
  <2> QED BY <2>1, <2>2, <2>3
<1> QED BY <1>4, <1>5

LEMMA CarriesKeeps ==
  ASSUME DeskAssumption, DeskInv, NEW n \in DOMAIN changes, Carries(n)
  PROVE  DeskInv'
<1> USE DEF DeskInv
<1> DEFINE m == changes[n]
           found == m.kind = "create" \/ listRows[m.entry] # NoEntry
           r == [m EXCEPT !.step = "done", !.ok = found, !.seen = listRows']
<1>1. /\ m.step = "sent" /\ listRows' = (IF found THEN Written(m, n) ELSE listRows)
      /\ changes' = [changes EXCEPT ![n] = r]
      /\ UNCHANGED <<subject, copies, fetches, where, form, typed, hasty, tangled, bound>>
  BY DEF Carries
<1>2. m \in Change /\ ChangeFits(m) /\ n \in Nat
  BY DeskShape DEF DeskType, ChangesType
<1>3. /\ ListOf(listRows') /\ listRows' \in Sheet
      /\ \A e \in Entries : listRows'[e] = listRows[e] \/ (found /\ (e = m.entry \/ subject = "rating"))
      /\ found /\ m.kind = "delete" /\ subject = "phrases" => listRows'[m.entry] = NoEntry
  <2>1. CASE found
    BY <1>1, <1>2, <2>1, WrittenShape DEF ListOf
  <2>2. CASE ~found
    BY <1>1, <2>2 DEF DeskType, CopiesType, ListOf
  <2> QED BY <2>1, <2>2
<1>4. /\ r \in Change /\ r.kind = m.kind /\ r.entry = m.entry /\ r.fields = m.fields /\ r.step = "done"
      /\ r.ok = found /\ r.seen = listRows'
  <2> PICK new \in Sheet : new = listRows'
    BY <1>3
  <2> DEFINE f == found
  <2>1. f \in BOOLEAN
    OBVIOUS
  <2> HIDE DEF f
  <2>2. [m EXCEPT !.step = "done", !.ok = f, !.seen = new] \in Change
    BY <1>2, <2>1 DEF Change
  <2> QED BY <1>2, <2>2 DEF Change, f
<1>5. /\ changes' \in Seq(Change) /\ DOMAIN changes' = DOMAIN changes
      /\ \A k \in DOMAIN changes : changes'[k] = IF k = n THEN r ELSE changes[k]
  BY <1>1, <1>4 DEF DeskType, ChangesType
<1>6. FormType'
  BY <1>1 DEF DeskType, FormType
<1>7. CopiesType'
  BY <1>1, <1>3 DEF DeskType, CopiesType, ListOf, Complete, Idle
<1>8. ChangesType'
  <2>1. ChangeFits(r)
    BY <1>2, <1>3, <1>4 DEF ChangeFits, Suits
  <2>2. ASSUME NEW k \in DOMAIN changes' PROVE ChangeFits(changes'[k])
    BY <1>5, <2>1 DEF DeskType, ChangesType
  <2>3. \A k \in DOMAIN changes' : ChangeFits(changes[k])'
    BY <1>1, <2>2 DEF ChangeFits, Suits, ListOf, Complete
  <2> QED BY <1>5, <2>3 DEF ChangesType
<1>9. ASSUME NEW e \in Entries
      PROVE  /\ Touched(e) => Touched(e)'
             /\ found /\ (e = m.entry \/ subject = "rating") => Touched(e)'
  <2>1. ASSUME Touched(e) PROVE Touched(e)'
    <3>1. PICK k \in DOMAIN changes : changes[k].step = "done" /\ changes[k].ok /\ (changes[k].entry = e \/ subject = "rating")
      BY <2>1 DEF Touched
    <3>2. k # n
      BY <1>1, <3>1
    <3>3. k \in DOMAIN changes' /\ changes'[k] = changes[k] /\ subject' = subject
      BY <1>1, <1>5, <3>2
    <3> QED BY <3>1, <3>3 DEF Touched
  <2>2. ASSUME found, e = m.entry \/ subject = "rating" PROVE Touched(e)'
    <3>1. changes'[n] = r /\ n \in DOMAIN changes' /\ subject' = subject
      BY <1>1, <1>5
    <3>2. r.step = "done" /\ r.ok /\ (r.entry = e \/ subject' = "rating")
      BY <1>4, <2>2, <3>1
    <3> HIDE DEF r
    <3> QED BY <3>1, <3>2 DEF Touched
  <2> QED BY <2>1, <2>2
<1>10. ASSUME NEW c \in Copies, NEW data, UpToDate(c, data) PROVE UpToDate(c, data)'
  <2> SUFFICES ASSUME NEW e \in Entries, ~Touched(e)' PROVE data[e] = Visible(c, listRows')[e]
    BY <1>1 DEF UpToDate, Visible
  <2>1. data[e] = Visible(c, listRows)[e] /\ listRows'[e] = listRows[e]
    BY <1>3, <1>9, <1>10 DEF UpToDate
  <2>2. ListOf(listRows) /\ ListOf(listRows')
    BY <1>3 DEF DeskType, CopiesType
  <2>3. Visible(c, listRows)[e] = Visible(c, listRows')[e]
    BY <2>1, <2>2, VisibleShape
  <2> QED BY <2>1, <2>3
<1>11. CopiesFit'
  <2> SUFFICES ASSUME NEW c \in Copies, Used(c)
               PROVE  /\ Mounted(c, where) /\ fetches[c] = Idle => copies[c].fresh
                      /\ c \notin tangled =>
                           /\ fetches[c] = Idle /\ copies[c].fresh => UpToDate(c, copies[c].data)'
                           /\ fetches[c].step = "read" => UpToDate(c, fetches[c].data)'
    BY <1>1 DEF CopiesFit, Idle, Used, Mounted
  <2>1. UpToDate(c, copies[c].data) => UpToDate(c, copies[c].data)'
    <3>1. PICK d : d = copies[c].data /\ d = copies'[c].data
      BY <1>1
    <3> QED BY <1>10, <3>1 DEF UpToDate
  <2>2. UpToDate(c, fetches[c].data) => UpToDate(c, fetches[c].data)'
    <3>1. PICK d : d = fetches[c].data /\ d = fetches'[c].data
      BY <1>1
    <3> QED BY <1>10, <3>1 DEF UpToDate
  <2> QED BY <2>1, <2>2 DEF CopiesFit
<1>12. FormKept' /\ FormFits'
  BY <1>1 DEF FormKept, FormFits
<1>13. SavesFit'
  <2> SUFFICES ASSUME subject = "rating"
               PROVE  SavesFit'
    BY <1>1 DEF SavesFit
  <2>1. m.here = r.here
    BY <1>2 DEF Change
  <2>2. found => \A e \in Entries : listRows'[e].v = m.fields[e]
    <3>1. Written(m, n) = [e \in Entries |-> [v |-> m.fields[e], on |-> TRUE]]
      <4>1. m.kind = "update"
        BY <1>2 DEF ChangeFits, Suits
      <4> QED BY <4>1 DEF Written
    <3>2. \A e \in Entries : Written(m, n)[e].v = m.fields[e]
      BY <3>1
    <3> QED BY <1>1, <3>2
  <2> HIDE DEF r
  <2>3. UnderWay(n)' => UnderWay(n)
    BY <1>1, <1>5, <2>1 DEF UnderWay
  <2>4. ASSUME NEW k \in DOMAIN changes
        PROVE  /\ UnderWay(k)' => \A e \in Entries \ hasty' : typed'[e] # NoEntry => changes'[k].fields[e] = typed'[e]
               /\ changes'[k].step # "sent" /\ changes'[k].ok => \A e \in Entries : changes'[k].seen[e].v = changes'[k].fields[e]
    <3>1. CASE k = n
      <4>1. changes'[n] = r
        BY <1>5
      <4>2. r.ok => \A e \in Entries : r.seen[e].v = r.fields[e]
        BY <1>4, <2>2
      <4>3. UnderWay(n)' => \A e \in Entries \ hasty : typed[e] # NoEntry => r.fields[e] = typed[e]
        BY <1>4, <2>3 DEF SavesFit
      <4> QED BY <1>1, <3>1, <4>1, <4>2, <4>3
    <3>2. CASE k # n
      BY <1>1, <1>5, <3>2 DEF SavesFit, UnderWay
    <3> QED BY <3>1, <3>2
  <2> QED BY <1>5, <2>4 DEF SavesFit
<1> QED BY <1>6, <1>7, <1>8, <1>11, <1>12, <1>13 DEF DeskType

(* What an answer makes of a copy. *)
LEMMA AnswerShape ==
  ASSUME DeskAssumption, DeskType, NEW m \in Change, ChangeFits(m), m.step # "sent", NEW c \in Copies
  PROVE  /\ Answer(m, c) \in [data : Sheet \cup {NoEntry}, fresh : BOOLEAN]
         /\ Answer(m, c).data # NoEntry => ListOf(Answer(m, c).data)
         /\ Answer(m, c).data = NoEntry => ~Answer(m, c).fresh
<1> USE DEF DeskType, CopiesType
<1>1. ListOf(m.seen) /\ m.seen \in Sheet /\ m.entry \in Entries /\ m.seen[m.entry] \in Entry \cup {NoEntry} /\ m.seen # NoEntry
  BY DEF ChangeFits, ListOf, Change, Sheet, DeskAssumption
<1>2. /\ copies[c] \in [data : Sheet \cup {NoEntry}, fresh : BOOLEAN]
      /\ copies[c].data # NoEntry => ListOf(copies[c].data) /\ copies[c].data \in Sheet
      /\ copies[c].data = NoEntry => ~copies[c].fresh
  BY DEF ListOf
<1>3. CASE c \in Writes(m) /\ subject = "rating"
  <2>1. Answer(m, c) = [data |-> m.seen, fresh |-> TRUE]
    BY <1>3 DEF Answer
  <2> QED BY <1>1, <2>1
<1>4. CASE c \in Writes(m) /\ subject # "rating"
  <2> DEFINE row == m.seen[m.entry]
             new == IF copies[c].data = NoEntry THEN [x \in Entries |-> IF x = m.entry THEN row ELSE NoEntry]
                    ELSE [copies[c].data EXCEPT ![m.entry] = row]
  <2>1. Answer(m, c) = [data |-> new, fresh |-> TRUE]
    BY <1>4 DEF Answer, RowMerged
  <2>2. new \in Sheet
    <3> HIDE DEF row
    <3>1. row \in Entry \cup {NoEntry}
      BY <1>1 DEF row
    <3>2. CASE copies[c].data = NoEntry
      BY <3>1, <3>2 DEF Sheet
    <3>3. CASE copies[c].data # NoEntry
      BY <1>2, <3>1, <3>3 DEF Sheet
    <3> QED BY <3>2, <3>3
  <2> HIDE DEF new
  <2>3. ListOf(new) /\ new # NoEntry
    BY <1>4, <2>2 DEF ListOf, Complete, DeskAssumption
  <2> QED BY <2>1, <2>2, <2>3
<1>5. CASE c \notin Writes(m) /\ c \in Invalidates(m)
  <2>1. Answer(m, c) = [copies[c] EXCEPT !.fresh = FALSE]
    BY <1>5 DEF Answer
  <2> QED BY <1>2, <2>1
<1>6. CASE c \notin Writes(m) /\ c \notin Invalidates(m)
  <2>1. Answer(m, c) = copies[c]
    BY <1>6 DEF Answer
  <2> QED BY <1>2, <2>1
<1> QED BY <1>3, <1>4, <1>5, <1>6

(* Every copy some page shows is written or fetched again, and none is both. *)
LEMMA WrittenOrFetched ==
  ASSUME DeskType, NEW m \in Change, NEW c \in Copies, Used(c)
  PROVE  (c \in Writes(m) /\ c \notin Invalidates(m)) \/ (c \notin Writes(m) /\ c \in Invalidates(m))
BY DEF DeskType, CopiesType, Subjects, Used, Writes, Invalidates, Copies

(* A copy the answer wrote in its time is up to date. *)
LEMMA WrittenInTime ==
  ASSUME DeskAssumption, DeskInv, NEW m \in Change, ChangeFits(m), m.step # "sent", m.ok,
         NEW c \in Copies, Used(c), c \in Writes(m), ~Crosses(m, c), c \notin tangled,
         NEW e \in Entries
  PROVE  /\ e = m.entry \/ subject = "rating" => Answer(m, c).data[e] = Visible(c, listRows)[e]
         /\ ~(e = m.entry \/ subject = "rating") =>
              Answer(m, c).data[e] = Visible(c, listRows)[e] \/ Touched(e)
<1> USE DEF DeskInv
<1>1. ListOf(m.seen) /\ m.seen \in Sheet /\ m.entry \in Entries /\ ListOf(listRows)
  BY DEF ChangeFits, ListOf, Change, DeskType, CopiesType
<1>2. /\ fetches[c] = Idle /\ copies[c].fresh
      /\ \A x \in Entries : x = m.entry \/ subject = "rating" => listRows[x] = m.seen[x]
  BY DEF Crosses
<1>3. \A x \in Entries : Visible(c, listRows)[x] =
                           IF subject = "phrases" /\ c = "table" /\ (listRows[x] = NoEntry \/ ~listRows[x].on)
                           THEN NoEntry ELSE listRows[x]
  BY <1>1, VisibleShape
<1>4. CASE subject = "rating"
  <2>1. Answer(m, c).data = m.seen
    BY <1>4 DEF Answer
  <2> QED BY <1>2, <1>3, <1>4, <2>1
<1>5. CASE subject # "rating"
  <2>1. copies[c].data # NoEntry /\ copies[c].data \in Sheet
    BY <1>2 DEF DeskType, CopiesType, ListOf
  <2>2. Answer(m, c).data = [copies[c].data EXCEPT ![m.entry] = m.seen[m.entry]]
    BY <1>5, <2>1 DEF Answer, RowMerged
  <2>3. CASE e = m.entry
    <3>1. Answer(m, c).data[e] = m.seen[e] /\ m.seen[e] = listRows[e]
      BY <1>1, <1>2, <2>1, <2>2, <2>3 DEF Sheet
    <3>2. subject = "phrases" /\ c = "table" => listRows[e] = NoEntry
      <4>1. subject = "phrases" /\ c = "table" => m.kind = "delete"
        BY DEF Writes
      <4> QED BY <2>3, <3>1, <4>1 DEF ChangeFits
    <3> QED BY <1>3, <1>5, <2>3, <3>1, <3>2
  <2>4. CASE e # m.entry
    <3>1. Answer(m, c).data[e] = copies[c].data[e]
      BY <1>1, <2>1, <2>2, <2>4 DEF Sheet
    <3>2. UpToDate(c, copies[c].data)
      BY <1>2 DEF CopiesFit
    <3> QED BY <1>5, <2>4, <3>1, <3>2 DEF UpToDate
  <2> QED BY <2>3, <2>4
<1> QED BY <1>4, <1>5

LEMMA AnswerKeeps ==
  ASSUME DeskAssumption, DeskInv, NEW n \in DOMAIN changes, AnswerComes(n)
  PROVE  DeskInv'
<1> USE DEF DeskInv
<1> DEFINE m == changes[n]
           r == [m EXCEPT !.step = "over"]
<1>1. /\ m.step = "done" /\ changes' = [changes EXCEPT ![n] = r]
      /\ UNCHANGED <<subject, listRows, where, hasty, bound>>
  BY DEF AnswerComes
<1>2. m \in Change /\ ChangeFits(m) /\ ListOf(m.seen)
  BY <1>1, DeskShape DEF DeskType, ChangesType, ChangeFits
<1>3. /\ r \in Change /\ r.kind = m.kind /\ r.entry = m.entry /\ r.fields = m.fields /\ r.step = "over"
      /\ r.ok = m.ok /\ r.seen = m.seen /\ r.here = m.here
  BY <1>2 DEF Change
<1> HIDE DEF r
<1>4. /\ changes' \in Seq(Change) /\ DOMAIN changes' = DOMAIN changes
      /\ \A k \in DOMAIN changes : changes'[k] = IF k = n THEN r ELSE changes[k]
  BY <1>1, <1>3 DEF DeskType, ChangesType
<1>5. ChangesType'
  <2>1. ChangeFits(r)
    BY <1>1, <1>2, <1>3 DEF ChangeFits, Suits
  <2>2. ASSUME NEW k \in DOMAIN changes' PROVE ChangeFits(changes'[k])
    BY <1>4, <2>1 DEF DeskType, ChangesType
  <2>3. \A k \in DOMAIN changes' : ChangeFits(changes[k])'
    BY <1>1, <2>2 DEF ChangeFits, Suits, ListOf, Complete
  <2> QED BY <1>4, <2>3 DEF ChangesType
<1>6. ASSUME NEW e \in Entries, Touched(e) PROVE Touched(e)' \/ (m.ok /\ (e = m.entry \/ subject = "rating"))
  <2>1. PICK k \in DOMAIN changes : changes[k].step = "done" /\ changes[k].ok /\ (changes[k].entry = e \/ subject = "rating")
    BY <1>6 DEF Touched
  <2>2. CASE k = n
    BY <2>1, <2>2
  <2>3. CASE k # n
    <3>1. k \in DOMAIN changes' /\ changes'[k] = changes[k] /\ subject' = subject
      BY <1>1, <1>4, <2>3
    <3> QED BY <2>1, <3>1 DEF Touched
  <2> QED BY <2>2, <2>3
<1>9. ASSUME \A e \in Entries : typed'[e] \in {typed[e], NoEntry} PROVE SavesFit'
  <2> SUFFICES ASSUME subject = "rating" PROVE SavesFit'
    BY <1>1 DEF SavesFit
  <2>1. ASSUME NEW k \in DOMAIN changes
        PROVE  /\ UnderWay(k)' => \A e \in Entries \ hasty' : typed'[e] # NoEntry => changes'[k].fields[e] = typed'[e]
               /\ changes'[k].step # "sent" /\ changes'[k].ok => \A e \in Entries : changes'[k].seen[e].v = changes'[k].fields[e]
    <3>1. CASE k = n
      BY <1>1, <1>3, <1>4, <3>1 DEF SavesFit, UnderWay
    <3>2. CASE k # n
      BY <1>1, <1>4, <1>9, <3>2 DEF SavesFit, UnderWay
    <3> QED BY <3>1, <3>2
  <2> QED BY <1>4, <2>1 DEF SavesFit
<1>7. CASE ~m.ok
  <2>1. UNCHANGED <<copies, fetches, tangled, form, typed>>
    BY <1>7 DEF AnswerComes
  <2>2. FormType' /\ CopiesType' /\ FormKept' /\ FormFits' /\ SavesFit'
    <3>1. SavesFit'
      BY <1>9, <2>1
    <3> QED BY <1>1, <2>1, <3>1 DEF DeskType, FormType, CopiesType, ListOf, Complete, Idle, FormKept, FormFits
  <2>3. ASSUME NEW e \in Entries PROVE Touched(e)' <=> Touched(e)
    <3>1. Touched(e) => Touched(e)'
      BY <1>6, <1>7
    <3>2. ASSUME Touched(e)' PROVE Touched(e)
      <4>1. PICK k \in DOMAIN changes' : changes'[k].step = "done" /\ changes'[k].ok /\ (changes'[k].entry = e \/ subject' = "rating")
        BY <3>2 DEF Touched
      <4>2. k \in DOMAIN changes /\ changes'[k] = changes[k] /\ subject' = subject
        BY <1>1, <1>3, <1>4, <4>1
      <4> QED BY <4>1, <4>2 DEF Touched
    <3> QED BY <3>1, <3>2
  <2>4. CopiesFit'
    BY <1>1, <2>1, <2>3, CopiesStay
  <2> QED BY <1>5, <2>2, <2>4 DEF DeskType
<1>8. CASE m.ok
  <2>1. /\ copies' = [c \in Copies |-> Answer(m, c)]
        /\ fetches' = [c \in Copies |-> IF c \in Invalidates(m) THEN Restarted(c) ELSE fetches[c]]
        /\ tangled' = {c \in Copies : Crosses(m, c) \/ (c \in tangled /\ fetches'[c] = fetches[c])}
        /\ \/ /\ subject = "rating" /\ m.here /\ form' = [e \in Entries |-> m.seen[e].v]
              /\ typed' = [e \in Entries |-> IF typed[e] = m.fields[e] THEN NoEntry ELSE typed[e]]
           \/ UNCHANGED <<form, typed>>
    BY <1>8 DEF AnswerComes
  <2>2. /\ form' \in Filled \cup {NoEntry} /\ typed' \in [Entries -> Nat \cup {NoEntry}]
        /\ FormKept' /\ FormFits' /\ SavesFit'
    <3>1. CASE UNCHANGED <<form, typed>>
      BY <1>1, <1>9, <3>1 DEF FormKept, FormFits, DeskType, FormType
    <3>2. CASE /\ subject = "rating" /\ m.here /\ form' = [e \in Entries |-> m.seen[e].v]
               /\ typed' = [e \in Entries |-> IF typed[e] = m.fields[e] THEN NoEntry ELSE typed[e]]
      <4>1. form' \in Filled /\ form' # NoEntry
        BY <1>2, <3>2, FilledIn
      <4>2. typed' \in [Entries -> Nat \cup {NoEntry}] /\ \A e \in Entries : typed'[e] \in {typed[e], NoEntry}
        BY <3>2 DEF DeskType, FormType
      <4>3. ASSUME NEW e \in Entries \ hasty PROVE typed'[e] = NoEntry
        <5>1. typed[e] # NoEntry => m.fields[e] = typed[e]
          BY <1>1, <3>2, <4>3 DEF SavesFit, UnderWay
        <5> QED BY <3>2, <5>1
      <4>4. FormKept' /\ FormFits'
        BY <1>1, <4>1, <4>3 DEF FormKept, FormFits
      <4> QED BY <1>9, <4>1, <4>2, <4>4
    <3> QED BY <2>1, <3>1, <3>2
  <2>3. FormType'
    BY <1>1, <2>1, <2>2 DEF DeskType, FormType
  <2>4. ASSUME NEW c \in Copies
        PROVE  /\ fetches'[c] \in [step : {"idle", "sent", "read"}, data : Sheet \cup {NoEntry}]
               /\ fetches'[c].step = "read" => ListOf(fetches'[c].data)
               /\ fetches'[c].step = "idle" => fetches'[c] = Idle
    <3>1. fetches'[c] = fetches[c] \/ fetches'[c] = [step |-> "sent", data |-> NoEntry]
      BY <2>1 DEF Restarted, Fetch
    <3>2. /\ fetches[c] \in [step : {"idle", "sent", "read"}, data : Sheet \cup {NoEntry}]
          /\ fetches[c].step = "read" => ListOf(fetches[c].data)
          /\ fetches[c].step = "idle" => fetches[c] = Idle
      BY DEF DeskType, CopiesType
    <3> QED BY <3>1, <3>2
  <2>5. \A c \in Copies : /\ copies'[c] \in [data : Sheet \cup {NoEntry}, fresh : BOOLEAN]
                          /\ copies'[c].data # NoEntry => ListOf(copies'[c].data)
                          /\ copies'[c].data = NoEntry => ~copies'[c].fresh
    BY <1>1, <1>2, <2>1, AnswerShape
  <2>6. CopiesType'
    BY <1>1, <2>1, <2>4, <2>5 DEF DeskType, CopiesType, ListOf, Complete, Idle
  <2>7. CopiesFit'
    <3> SUFFICES ASSUME NEW c \in Copies, Used(c)
                 PROVE  /\ Mounted(c, where) /\ fetches'[c] = Idle => copies'[c].fresh
                        /\ c \notin tangled' =>
                             /\ fetches'[c] = Idle /\ copies'[c].fresh => UpToDate(c, copies[c].data)'
                             /\ fetches'[c].step = "read" => UpToDate(c, fetches[c].data)'
      BY <1>1 DEF CopiesFit, Idle, Used, Mounted
    <3>1. CASE c \in Writes(m) /\ c \notin Invalidates(m)
      <4>1. copies'[c] = Answer(m, c) /\ fetches'[c] = fetches[c] /\ copies'[c].fresh
        BY <2>1, <3>1 DEF Answer, RowMerged
      <4>2. c \notin tangled' => c \notin tangled /\ ~Crosses(m, c)
        BY <2>1, <4>1
      <4>3. c \notin tangled' => fetches'[c] = Idle /\ fetches'[c].step # "read"
        BY <3>1, <4>1, <4>2 DEF Crosses, Idle
      <4>4. ASSUME c \notin tangled', NEW e \in Entries PROVE copies'[c].data[e] = Visible(c, listRows)[e] \/ Touched(e)'
        BY <1>1, <1>2, <1>6, <1>8, <3>1, <4>1, <4>2, <4>4, WrittenInTime
      <4>5. c \notin tangled' => UpToDate(c, copies[c].data)'
        BY <1>1, <4>4 DEF UpToDate, Visible
      <4> QED BY <4>1, <4>3, <4>5
    <3>2. CASE c \notin Writes(m) /\ c \in Invalidates(m)
      <4>1. copies'[c] = [copies[c] EXCEPT !.fresh = FALSE] /\ fetches'[c] = Restarted(c)
        BY <2>1, <3>2 DEF Answer
      <4>2. ~copies'[c].fresh
        BY <4>1 DEF DeskType, CopiesType
      <4>3. ~(Mounted(c, where) /\ fetches'[c] = Idle)
        BY <4>1 DEF Restarted, Fetch, Idle
      <4>4. fetches'[c].step = "read" => c \in tangled'
        <5>1. fetches'[c].step = "read" => Restarted(c) = fetches[c] /\ fetches[c] # Idle
          BY <4>1 DEF Restarted, Fetch, Idle
        <5> QED BY <2>1, <3>2, <5>1 DEF Crosses
      <4> QED BY <4>2, <4>3, <4>4
    <3> QED BY <1>2, <3>1, <3>2, WrittenOrFetched
  <2> QED BY <1>5, <2>2, <2>3, <2>6, <2>7 DEF DeskType
<1> QED BY <1>7, <1>8

LEMMA DeskStep ==
  ASSUME DeskAssumption, DeskInv, [DeskNext]_deskVars
  PROVE  DeskInv'
<1>1. CASE UNCHANGED deskVars
  <2>1. UNCHANGED <<subject, listRows, copies, fetches, where, changes, form, typed, hasty, tangled, bound>>
    BY <1>1 DEF deskVars
  <2>2. ChangesType' /\ \A e \in Entries : Touched(e)' <=> Touched(e)
    BY <2>1, ChangesStay DEF DeskInv, DeskType, ChangesType
  <2>3. CopiesFit'
    BY <2>1, <2>2, CopiesStay DEF DeskInv
  <2>4. FormType' /\ CopiesType' /\ FormKept' /\ FormFits' /\ SavesFit'
    BY <2>1 DEF DeskInv, DeskType, FormType, CopiesType, ListOf, Complete, Idle, FormKept, FormFits, SavesFit, UnderWay
  <2> QED BY <2>2, <2>3, <2>4 DEF DeskInv, DeskType
<1> QED BY <1>1, VisitsKeep, FetchReadKeeps, FetchLoadedKeeps, TypesKeep, MutatesKeeps, CarriesKeeps, AnswerKeeps DEF DeskNext

LEMMA DeskStart ==
  ASSUME DeskAssumption, DeskInit
  PROVE  DeskInv
<1> USE DEF DeskInit
<1>1. [v |-> 0, on |-> TRUE] \in Entry
  BY DEF Entry
<1>2. ListOf(listRows)
  BY <1>1 DEF ListOf, Complete, Sheet
<1>3. FormType
  BY DEF FormType, DeskAssumption
<1>4. CopiesType
  BY <1>2 DEF CopiesType, Idle
<1>5. ChangesType
  BY DEF ChangesType
<1>6. CopiesFit
  <2>1. ASSUME NEW c \in Copies PROVE ~Mounted(c, where)
    <3>1. where = "away" /\ c \in {"desk", "table"} /\ subject \in {"phrases", "cards", "mine", "users", "rating"}
      BY DEF Copies, Subjects
    <3>2. CASE subject = "phrases"
      BY <3>1, <3>2 DEF Mounted
    <3>3. CASE subject = "cards"
      BY <3>1, <3>3 DEF Mounted
    <3>4. CASE subject = "mine"
      BY <3>1, <3>4 DEF Mounted
    <3>5. CASE subject \in {"users", "rating"}
      BY <3>1, <3>5 DEF Mounted
    <3> QED BY <3>1, <3>2, <3>3, <3>4, <3>5
  <2> QED BY <2>1 DEF CopiesFit, Idle
<1> QED BY <1>3, <1>4, <1>5, <1>6 DEF DeskInv, DeskType, FormKept, FormFits, SavesFit

(* With nothing under way nothing is touched, and what is shown is not to be
   fetched again. *)
LEMMA ListsAsTheyAre ==
  ASSUME DeskAssumption, DeskInv
  PROVE  ListsShown
<1> USE DEF DeskInv
<1> SUFFICES ASSUME NoFetch, NoneLeft, NEW c \in Copies, Mounted(c, where), copies[c].data # NoEntry, c \notin tangled
             PROVE  copies[c].data = Visible(c, listRows)
  BY DEF ListsShown
<1>1. Used(c)
  BY DEF Mounted, Used, Copies
<1>2. \A e \in Entries : ~Touched(e)
  BY DEF NoneLeft, Touched
<1>3. UpToDate(c, copies[c].data)
  BY <1>1 DEF NoFetch, CopiesFit
<1>4. \A e \in Entries : copies[c].data[e] = Visible(c, listRows)[e]
  BY <1>2, <1>3 DEF UpToDate
<1>5. copies[c].data \in Sheet /\ Visible(c, listRows) \in Sheet
  BY VisibleShape DEF DeskType, CopiesType, ListOf
<1> QED BY <1>4, <1>5 DEF Sheet

(* With nothing under way a page shows the rows the server has, unless a fetch and a
   mutation crossed, and what is typed over the rating's parameters stays in the form
   until the server has taken it, but for what is typed while a save is under way,
   which its answer replaces (AdminRatingConfigPage.tsx, the hooks of the lists). *)
THEOREM DeskHolds == DeskSpec => []DeskAgrees
<1> USE DeskAssumption
<1>1. DeskInit => DeskInv
  BY DeskStart
<1>2. DeskInv /\ [DeskNext]_deskVars => DeskInv'
  BY DeskStep
<1>3. DeskInv => DeskAgrees
  BY ListsAsTheyAre DEF DeskAgrees, DeskInv
<1> QED BY <1>1, <1>2, <1>3, PTL DEF DeskSpec

(***************************************************************************)
(* The lobby pages: the room                                               *)
(***************************************************************************)
RoomType ==
  /\ setting \in Settings /\ pushes \subseteq Push
  /\ mail \in [Guests -> Seq(Message)]
  /\ asking \in [Guests -> Settings \cup {Absent, Asked}] /\ fetch \in [Guests -> Settings \cup {Absent, Asked}]
  /\ shown \in [Guests -> Settings \cup {Absent}] /\ known \in [Guests -> Settings \cup {Absent}]
  /\ draft \in [Guests -> Settings \cup {Absent}] /\ debounced \in [Guests -> {0, 1, Absent}]

(* What a page will have been shown of the settings s once it has got what is on its
   way, queue, with x shown now: they come last, or are shown already. *)
TellsLast(queue, i) ==
  queue[i].type = "state" /\ \A j \in DOMAIN queue : j > i => queue[j].type # "state"
WillShow(queue, s, x) ==
  /\ \A i \in DOMAIN queue : TellsLast(queue, i) => queue[i].copy = s
  /\ (\A i \in DOMAIN queue : queue[i].type # "state") => x \in {Absent, s}

(* So it is in the room, and what is read is as it is, unless an older copy was under
   way when the settings changed last. *)
ShownFit(g) ==
  g \notin outdated =>
    /\ asking[g] \in {Absent, Asked, setting} /\ fetch[g] \in {Absent, Asked, setting}
    /\ g \in inroom => WillShow(mail[g], setting, shown[g])

(* The page compares with what it was last told. *)
KnownFit(g) ==
  /\ shown[g] = Absent <=> known[g] = Absent
  /\ shown[g] = Absent <=> draft[g] = Absent
  /\ shown[g] # Absent => shallowEqualSettings(known[g], shown[g]) /\ debounced[g] \in {0, 1}

(* What the editor shows differs from what was told only as long as somebody will hear
   of it: it is being typed, is pushed, or served and told; or the guest is out. *)
Typed(g, f) == f = "attempts" /\ draft[g][f] # debounced[g]
Pushed(g, f) == \E p \in pushes : p.who = g /\ ~p.orphan /\ f \in DOMAIN p.patch /\ p.patch[f] = draft[g][f]
Served(g, f) == \E i \in DOMAIN mail[g] : mail[g][i].type = "state" /\ mail[g][i].copy[f] = draft[g][f]
Apart(g) == g \notin inroom /\ asking[g] = Absent
DraftFit(g) ==
  g \notin adrift /\ shown[g] # Absent =>
    /\ draft[g]["exclusive"] = shown[g]["exclusive"]
    /\ \A f \in {"knob", "attempts"} :
         draft[g][f] # shown[g][f] => Typed(g, f) \/ Pushed(g, f) \/ Served(g, f) \/ Apart(g)

GuestFits(g) == ShownFit(g) /\ KnownFit(g) /\ DraftFit(g)
RoomFits == \A g \in Guests : GuestFits(g)

(* What waits to be pushed, or is pushed, was chosen. *)
Differing(g) == shown[g] # Absent /\ draft[g]["attempts"] # shown[g]["attempts"]
ChosenFit ==
  /\ OnlyChosen
  /\ \A g \in Guests : Differing(g) => <<g, "attempts", draft[g]["attempts"]>> \in picked

(***************************************************************************)
(* The lobby pages: the list                                               *)
(***************************************************************************)
ListType ==
  /\ outing \in [{"edit", "visit", "open"} -> Nat]
  /\ open \in Lists /\ feed \in Seq(News)
  /\ tuning \in {Absent, Asked, Entered} \cup [list : Lists]
  /\ polled \in {Absent, Asked} \cup [list : Lists]
  /\ rows \in Lists \cup {Absent}

Listed == IF rows = Absent THEN [k \in {} |-> 0] ELSE rows

(* What a message does to a lobby of the list: puts it in, takes it out, tells its
   version. *)
PutsIn(m, l) == (m.type = "added" /\ m.id = l) \/ (m.type = "list" /\ l \in DOMAIN m.list)
TakesOut(m, l) == (m.type = "removed" /\ m.id = l) \/ (m.type = "list" /\ l \notin DOMAIN m.list)
Tells(m, l) == PutsIn(m, l) \/ (m.type = "updated" /\ m.id = l)
Version(m, l) == IF m.type = "list" THEN m.list[l] ELSE m.ver

(* What a list, first, will show of a lobby once it has heard all of a queue: that it is
   in, or out, and with which version. *)
WillBeIn(queue, first, l) ==
  \/ l \in DOMAIN first /\ \A j \in DOMAIN queue : ~TakesOut(queue[j], l)
  \/ \E i \in DOMAIN queue : PutsIn(queue[i], l) /\ \A j \in DOMAIN queue : j > i => ~TakesOut(queue[j], l)
WillBeOut(queue, first, l) ==
  \/ l \notin DOMAIN first /\ \A j \in DOMAIN queue : ~PutsIn(queue[j], l)
  \/ \E i \in DOMAIN queue : TakesOut(queue[i], l) /\ \A j \in DOMAIN queue : j > i => ~PutsIn(queue[j], l)
WillHave(queue, first, l, v) ==
  /\ l \in DOMAIN first /\ (\A j \in DOMAIN queue : ~Tells(queue[j], l)) => first[l] = v
  /\ \A i \in DOMAIN queue : Tells(queue[i], l) /\ (\A j \in DOMAIN queue : j > i => ~Tells(queue[j], l)) =>
       Version(queue[i], l) = v

(* What has been read of the list agrees with what is open, as will the list of who is
   subscribed. *)
Agrees(list, l) ==
  /\ l \in DOMAIN list <=> l \in DOMAIN open
  /\ l \in DOMAIN list => list[l] = open[l]
ListFit(l) ==
  /\ IsCopy(tuning) => Agrees(tuning.list, l)
  /\ IsCopy(polled) => Agrees(polled.list, l)
  /\ tuned /\ tuning = Absent =>
       /\ l \in DOMAIN open => WillBeIn(feed, Listed, l) /\ WillHave(feed, Listed, l, open[l])
       /\ l \notin DOMAIN open => WillBeOut(feed, Listed, l)
ListsFit == \A l \in Rows \ outrun : ListFit(l)

LoungeInv == RoomType /\ RoomFits /\ ChosenFit /\ ListType /\ ListsFit

LEMMA Signs ==
  ASSUME LoungeAssumption
  PROVE  /\ Asked \notin Settings /\ Entered \notin Settings /\ Absent \notin Settings /\ Asked # Entered
         /\ \A m \in Message : m.type = "state" => m.copy \in Settings
         /\ \A c \in Settings : c \in [Fields -> {0, 1}] /\ c["knob"] \in {0, 1} /\ c["attempts"] \in {0, 1}
                                /\ c["exclusive"] \in {0, 1}
         /\ \A c \in Settings : [type |-> "state", copy |-> c] \in Message
         /\ \A p \in Push : [type |-> "answer", push |-> p] \in Message
<1>1. Asked \notin Settings /\ Entered \notin Settings /\ Absent \notin Settings /\ Asked # Entered
  BY DEF Asked, Entered, Settings, Fields, LoungeAssumption
<1>2. \A m \in Message : m.type = "state" => m.copy \in Settings
  BY DEF Message
<1>3. \A c \in Settings : c \in [Fields -> {0, 1}] /\ c["knob"] \in {0, 1} /\ c["attempts"] \in {0, 1}
                                /\ c["exclusive"] \in {0, 1}
  BY DEF Settings, Fields
<1>4. \A c \in Settings : [type |-> "state", copy |-> c] \in Message
  BY DEF Message
<1>5. \A p \in Push : [type |-> "answer", push |-> p] \in Message
  BY DEF Message
<1> QED BY <1>1, <1>2, <1>3, <1>4, <1>5

(* One more message, or one less. *)
LEMMA OneMore ==
  ASSUME NEW S, NEW q \in Seq(S), NEW m \in S
  PROVE  /\ Append(q, m) \in Seq(S)
         /\ \A i \in DOMAIN q : i \in DOMAIN Append(q, m) /\ Append(q, m)[i] = q[i] /\ Len(q) + 1 > i
         /\ Len(q) + 1 \in DOMAIN Append(q, m) /\ Append(q, m)[Len(q) + 1] = m
         /\ \A i \in DOMAIN Append(q, m) : i \in DOMAIN q \/ i = Len(q) + 1
OBVIOUS

LEMMA OneLess ==
  ASSUME NEW S, NEW q \in Seq(S), q # <<>>
  PROVE  /\ Tail(q) \in Seq(S) /\ Head(q) \in S /\ 1 \in DOMAIN q /\ q[1] = Head(q)
         /\ \A i \in DOMAIN Tail(q) : i + 1 \in DOMAIN q /\ Tail(q)[i] = q[i + 1] /\ i \in Nat
         /\ \A i \in DOMAIN q : i # 1 => i - 1 \in DOMAIN Tail(q) /\ Tail(q)[i - 1] = q[i] /\ i \in Nat
OBVIOUS

LEMMA ShowsMore ==
  ASSUME NEW q \in Seq(Message), NEW m \in Message, NEW s, NEW x,
         m.type = "state" => m.copy = s, m.type # "state" => WillShow(q, s, x)
  PROVE  WillShow(Append(q, m), s, x)
<1> DEFINE r == Append(q, m)
           n == Len(q) + 1
<1>1. /\ \A i \in DOMAIN q : i \in DOMAIN r /\ r[i] = q[i] /\ n > i
      /\ n \in DOMAIN r /\ r[n] = m /\ \A i \in DOMAIN r : i \in DOMAIN q \/ i = n
  BY OneMore
<1> HIDE DEF r, n
<1>2. ASSUME NEW i \in DOMAIN r, TellsLast(r, i) PROVE r[i].copy = s
  <2>1. CASE i = n
    BY <1>1, <1>2, <2>1 DEF TellsLast
  <2>2. CASE i # n
    <3>1. i \in DOMAIN q /\ r[n].type # "state"
      BY <1>1, <1>2, <2>2 DEF TellsLast
    <3>2. TellsLast(q, i)
      BY <1>1, <1>2, <3>1 DEF TellsLast
    <3> QED BY <1>1, <3>1, <3>2 DEF WillShow
  <2> QED BY <2>1, <2>2
<1>3. (\A i \in DOMAIN r : r[i].type # "state") => x \in {Absent, s}
  BY <1>1 DEF WillShow
<1> QED BY <1>2, <1>3 DEF WillShow, r

LEMMA ShowsRest ==
  ASSUME NEW q \in Seq(Message), q # <<>>, NEW s, NEW x, WillShow(q, s, x)
  PROVE  WillShow(Tail(q), s, IF Head(q).type = "state" THEN Head(q).copy ELSE x)
<1> DEFINE r == Tail(q)
<1>1. /\ 1 \in DOMAIN q /\ q[1] = Head(q)
      /\ \A i \in DOMAIN r : i + 1 \in DOMAIN q /\ r[i] = q[i + 1] /\ i \in Nat
      /\ \A i \in DOMAIN q : i # 1 => i - 1 \in DOMAIN r /\ r[i - 1] = q[i] /\ i \in Nat
  BY OneLess
<1> HIDE DEF r
<1>2. ASSUME NEW i \in DOMAIN r, TellsLast(r, i) PROVE r[i].copy = s
  <2>1. i + 1 \in DOMAIN q /\ r[i] = q[i + 1] /\ i \in Nat
    BY <1>1
  <2>2. ASSUME NEW j \in DOMAIN q, j > i + 1 PROVE q[j].type # "state"
    <3>1. j - 1 \in DOMAIN r /\ r[j - 1] = q[j] /\ j \in Nat
      BY <1>1, <2>1, <2>2
    <3>2. j - 1 > i
      BY <2>1, <2>2, <3>1
    <3> QED BY <1>2, <3>1, <3>2 DEF TellsLast
  <2>3. TellsLast(q, i + 1)
    BY <1>2, <2>1, <2>2 DEF TellsLast
  <2> QED BY <2>1, <2>3 DEF WillShow
<1>3. ASSUME \A i \in DOMAIN r : r[i].type # "state"
      PROVE  (IF Head(q).type = "state" THEN Head(q).copy ELSE x) \in {Absent, s}
  <2>1. \A j \in DOMAIN q : j # 1 => q[j].type # "state"
    BY <1>1, <1>3
  <2>2. CASE Head(q).type = "state"
    <3>1. TellsLast(q, 1)
      BY <1>1, <2>1, <2>2 DEF TellsLast
    <3> QED BY <1>1, <2>2, <3>1 DEF WillShow
  <2>3. CASE Head(q).type # "state"
    BY <1>1, <2>1, <2>3 DEF WillShow
  <2> QED BY <2>2, <2>3
<1> QED BY <1>2, <1>3 DEF WillShow, r

(* A guest nothing has happened to. *)
LEMMA GuestStays ==
  ASSUME NEW g \in Guests, GuestFits(g),
         UNCHANGED <<setting, mail[g], asking[g], fetch[g], shown[g], known[g], draft[g], debounced[g]>>,
         g \in inroom' <=> g \in inroom, g \in outdated' <=> g \in outdated, g \in adrift' <=> g \in adrift,
         \A p \in pushes : p.who = g /\ ~p.orphan => p \in pushes'
  PROVE  GuestFits(g)'
<1>1. ShownFit(g)' /\ KnownFit(g)'
  BY DEF GuestFits, ShownFit, KnownFit, WillShow, TellsLast, shallowEqualSettings, Asked
<1>2. DraftFit(g)'
  <2> SUFFICES ASSUME g \notin adrift, shown[g] # Absent, NEW f \in {"knob", "attempts"}, draft[g][f] # shown[g][f]
               PROVE  (Typed(g, f) \/ Pushed(g, f) \/ Served(g, f) \/ Apart(g))'
    BY DEF GuestFits, DraftFit
  <2>1. Typed(g, f) \/ Pushed(g, f) \/ Served(g, f) \/ Apart(g)
    BY DEF GuestFits, DraftFit
  <2>2. Pushed(g, f) => Pushed(g, f)'
    BY DEF Pushed
  <2>3. Served(g, f) => Served(g, f)'
    BY DEF Served
  <2> QED BY <2>1, <2>2, <2>3 DEF Typed, Apart
<1> QED BY <1>1, <1>2 DEF GuestFits

(* What a page is told, of the settings c. *)
LEMMA LearnsFits ==
  ASSUME LoungeAssumption, RoomType, NEW g \in Guests, NEW c \in Settings, KnownFit(g), DraftFit(g), Learns(g, c),
         UNCHANGED <<setting, asking, inroom>>, pushes \subseteq pushes',
         \A i \in DOMAIN mail[g] : mail[g][i].type = "state" /\ mail[g][i].copy # c =>
           \E j \in DOMAIN mail'[g] : mail'[g][j] = mail[g][i]
  PROVE  /\ KnownFit(g)' /\ DraftFit(g)'
         /\ shown' \in [Guests -> Settings \cup {Absent}] /\ known' \in [Guests -> Settings \cup {Absent}]
         /\ draft' \in [Guests -> Settings \cup {Absent}] /\ debounced' \in [Guests -> {0, 1, Absent}]
         /\ shown'[g] = c /\ adrift' \in {adrift, adrift \cup {g}, adrift \ {g}}
         /\ \A h \in Guests \ {g} :
              /\ shown'[h] = shown[h] /\ known'[h] = known[h] /\ draft'[h] = draft[h] /\ debounced'[h] = debounced[h]
<1> USE DEF RoomType
<1>1. c # Absent /\ c["attempts"] \in {0, 1}
  BY Signs
<1>2. /\ shown' = [shown EXCEPT ![g] = c]
      /\ known' = IF Differs(g, c) THEN [known EXCEPT ![g] = c] ELSE known
      /\ draft' = IF Differs(g, c) THEN [draft EXCEPT ![g] = c] ELSE draft
      /\ debounced' = IF known[g] = Absent THEN [debounced EXCEPT ![g] = c["attempts"]] ELSE debounced
      /\ Follows(g, c)
  BY DEF Learns
<1>3. /\ shown' \in [Guests -> Settings \cup {Absent}] /\ known' \in [Guests -> Settings \cup {Absent}]
      /\ draft' \in [Guests -> Settings \cup {Absent}] /\ debounced' \in [Guests -> {0, 1, Absent}]
  BY <1>1, <1>2
<1>4. /\ shown'[g] = c
      /\ \A h \in Guests \ {g} :
           /\ shown'[h] = shown[h] /\ known'[h] = known[h] /\ draft'[h] = draft[h] /\ debounced'[h] = debounced[h]
  BY <1>2
<1>5. adrift' \in {adrift, adrift \cup {g}, adrift \ {g}}
  BY <1>2 DEF Follows
<1>6. CASE Differs(g, c)
  <2>1. shown'[g] = c /\ known'[g] = c /\ draft'[g] = c
    BY <1>2, <1>6
  <2>2. debounced'[g] \in {0, 1}
    BY <1>1, <1>2 DEF KnownFit
  <2> QED BY <1>1, <1>3, <1>4, <1>5, <2>1, <2>2 DEF KnownFit, DraftFit, shallowEqualSettings
<1>7. CASE ~Differs(g, c)
  <2>1. /\ known' = known /\ draft' = draft /\ debounced' = debounced /\ shown'[g] = c
        /\ known[g] # Absent /\ shallowEqualSettings(known[g], c)
        /\ adrift' = IF draft[g]["exclusive"] # c["exclusive"] THEN adrift \cup {g} ELSE adrift
    BY <1>2, <1>7 DEF Differs, Follows
  <2>2. shown[g] # Absent /\ draft[g] # Absent /\ shallowEqualSettings(known[g], shown[g])
    BY <2>1 DEF KnownFit
  <2>3. KnownFit(g)'
    BY <1>1, <2>1, <2>2 DEF KnownFit, shallowEqualSettings
  <2>4. DraftFit(g)'
    <3> SUFFICES ASSUME g \notin adrift'
                 PROVE  /\ draft[g]["exclusive"] = c["exclusive"]
                        /\ \A f \in {"knob", "attempts"} :
                             draft[g][f] # c[f] => (Typed(g, f) \/ Pushed(g, f) \/ Served(g, f) \/ Apart(g))'
      BY <2>1 DEF DraftFit
    <3>1. draft[g]["exclusive"] = c["exclusive"] /\ g \notin adrift
      BY <2>1
    <3>2. ASSUME NEW f \in {"knob", "attempts"}, draft[g][f] # c[f]
          PROVE  (Typed(g, f) \/ Pushed(g, f) \/ Served(g, f) \/ Apart(g))'
      <4>1. shown[g][f] = c[f]
        BY <2>1, <2>2 DEF shallowEqualSettings
      <4>2. Typed(g, f) \/ Pushed(g, f) \/ Served(g, f) \/ Apart(g)
        BY <2>2, <3>1, <3>2, <4>1 DEF DraftFit
      <4>3. Served(g, f) => Served(g, f)'
        <5>1. ASSUME NEW i \in DOMAIN mail[g], mail[g][i].type = "state", mail[g][i].copy[f] = draft[g][f]
              PROVE  Served(g, f)'
          <6>1. mail[g][i].copy # c
            BY <3>2, <5>1
          <6>2. PICK j \in DOMAIN mail'[g] : mail'[g][j] = mail[g][i]
            BY <5>1, <6>1
          <6> QED BY <2>1, <5>1, <6>2 DEF Served
        <5> QED BY <5>1 DEF Served
      <4>4. Pushed(g, f) => Pushed(g, f)'
        BY <2>1 DEF Pushed
      <4> QED BY <2>1, <4>2, <4>3, <4>4 DEF Typed, Apart
    <3> QED BY <3>1, <3>2
  <2> QED BY <1>3, <1>4, <1>5, <2>3, <2>4
<1> QED BY <1>6, <1>7

(* What the page of a newcomer pushes back. *)
LEMMA BackFits ==
  ASSUME LoungeAssumption, RoomType, NEW g \in Guests, KnownFit(g), NEW c \in Settings, NEW seated,
         LearnsSeat(g, c, seated)
  PROVE  /\ pushes \subseteq pushes' /\ pushes' \subseteq Push /\ carried \subseteq carried'
         /\ \A p \in pushes' \ pushes : p.who = g /\ \A f \in DOMAIN p.patch \ {"exclusive"} :
              <<g, f, p.patch[f]>> \in carried'
<1>1. CASE ~(seated /\ g \notin member /\ draft[g] # Absent)
  <2>1. UNCHANGED <<pushes, carried>>
    BY <1>1 DEF LearnsSeat
  <2> QED BY <2>1 DEF RoomType
<1>2. CASE seated /\ g \notin member /\ draft[g] # Absent
  <2> DEFINE was == [draft[g] EXCEPT !["attempts"] = debounced[g]]
             stale(fields) == {f \in fields : was[f] # c[f]}
             push(fields) == [who |-> g, patch |-> [f \in fields |-> was[f]], orphan |-> FALSE]
             parts == {stale({"knob", "exclusive"}), stale({"attempts"})} \ {{}}
  <2>1. /\ pushes' = pushes \cup {push(fields) : fields \in parts}
        /\ carried' = carried \cup {<<g, f, was[f]>> : f \in stale({"knob", "attempts"})}
    BY <1>2 DEF LearnsSeat, PushesBack
  <2>2. draft[g] \in Settings /\ debounced[g] \in {0, 1}
    BY <1>2 DEF RoomType, KnownFit
  <2>3. \A f \in Fields : was[f] \in {0, 1}
    BY <2>2, Signs DEF Settings, Fields
  <2>4. /\ parts \subseteq SUBSET Fields
        /\ \A fields \in parts : \A f \in fields \ {"exclusive"} : f \in stale({"knob", "attempts"})
    BY DEF Fields
  <2> HIDE DEF was, parts
  <2>5. ASSUME NEW fields \in parts
        PROVE  /\ push(fields) \in Push /\ push(fields).who = g
               /\ \A f \in DOMAIN push(fields).patch \ {"exclusive"} : <<g, f, push(fields).patch[f]>> \in carried'
    <3>1. fields \in SUBSET Fields /\ [f \in fields |-> was[f]] \in [fields -> {0, 1}]
      BY <2>3, <2>4
    <3>2. push(fields) \in Push
      BY <3>1 DEF Push
    <3>3. \A f \in fields \ {"exclusive"} : <<g, f, was[f]>> \in carried'
      BY <2>1, <2>4
    <3> QED BY <3>2, <3>3
  <2>6. ASSUME NEW p \in pushes' \ pushes
        PROVE  p \in Push /\ p.who = g /\ \A f \in DOMAIN p.patch \ {"exclusive"} : <<g, f, p.patch[f]>> \in carried'
    <3>1. PICK fields \in parts : p = push(fields)
      BY <2>1, <2>6
    <3> QED BY <2>5, <3>1
  <2>7. pushes' \subseteq Push
    BY <2>6 DEF RoomType
  <2> QED BY <2>1, <2>6, <2>7
<1> QED BY <1>1, <1>2

(* What is left as it was for the other guests. *)
OthersStay(g) ==
  \A h \in Guests \ {g} :
    /\ mail'[h] = mail[h] /\ asking'[h] = asking[h] /\ fetch'[h] = fetch[h] /\ shown'[h] = shown[h]
    /\ known'[h] = known[h] /\ draft'[h] = draft[h] /\ debounced'[h] = debounced[h]
    /\ (h \in inroom' <=> h \in inroom) /\ (h \in outdated' <=> h \in outdated) /\ (h \in adrift' <=> h \in adrift)
    /\ \A p \in pushes : p.who = h /\ ~p.orphan => p \in pushes'

LEMMA OthersFit ==
  ASSUME NEW g \in Guests, RoomFits, setting' = setting, OthersStay(g), GuestFits(g)'
  PROVE  RoomFits'
<1> SUFFICES ASSUME NEW h \in Guests, h # g PROVE GuestFits(h)'
  BY DEF RoomFits
<1>1. GuestFits(h)
  BY DEF RoomFits
<1> QED BY <1>1, GuestStays DEF OthersStay

LEMMA VisitKeeps ==
  ASSUME LoungeAssumption, RoomType, RoomFits, NEW g \in Guests, useLobbyRoom(g)
  PROVE  RoomType' /\ RoomFits'
<1> USE DEF RoomType
<1>1. /\ fetch' = [fetch EXCEPT ![g] = Asked] /\ asking' = [asking EXCEPT ![g] = Asked]
      /\ shown' = shown \/ shown' = [shown EXCEPT ![g] = Absent]
      /\ draft' = [draft EXCEPT ![g] = shown'[g]] /\ known' = [known EXCEPT ![g] = shown'[g]]
      /\ debounced' = [debounced EXCEPT ![g] = IF shown'[g] = Absent THEN Absent ELSE shown'[g]["attempts"]]
      /\ adrift' = adrift \ {g}
      /\ UNCHANGED <<setting, inroom, mail, pushes, outdated>>
  BY DEF useLobbyRoom
<1>2. shown' \in [Guests -> Settings \cup {Absent}] /\ shown'[g] \in {shown[g], Absent}
  BY <1>1
<1>3. shown'[g] # Absent => shown'[g]["attempts"] \in {0, 1}
  BY <1>2, Signs
<1>4. RoomType'
  BY <1>1, <1>2, <1>3
<1>5. OthersStay(g)
  BY <1>1 DEF OthersStay
<1>6. GuestFits(g)
  BY DEF RoomFits
<1>7. ShownFit(g)'
  <2>1. fetch'[g] = Asked /\ asking'[g] = Asked
    BY <1>1
  <2>2. WillShow(mail[g], setting, shown[g]) => WillShow(mail[g], setting, shown'[g])
    BY <1>2 DEF WillShow
  <2> QED BY <1>1, <1>6, <2>1, <2>2 DEF GuestFits, ShownFit, WillShow, TellsLast, Asked
<1>8. known'[g] = shown'[g] /\ draft'[g] = shown'[g]
  BY <1>1
<1>9. KnownFit(g)' /\ DraftFit(g)'
  <2>1. shown'[g] # Absent => debounced'[g] \in {0, 1}
    BY <1>1, <1>3
  <2> QED BY <1>8, <2>1 DEF KnownFit, DraftFit, shallowEqualSettings
<1> QED BY <1>1, <1>4, <1>5, <1>7, <1>9, OthersFit DEF GuestFits

LEMMA JoinKeeps ==
  ASSUME LoungeAssumption, RoomType, RoomFits, NEW g \in Guests, onJoin(g)
  PROVE  RoomType' /\ RoomFits'
<1> USE DEF RoomType
<1>1. /\ asking[g] # Absent
      /\ UNCHANGED <<setting, fetch, shown, known, draft, debounced, pushes, outdated, adrift>>
  BY DEF onJoin
<1>2. GuestFits(g)
  BY DEF RoomFits
<1>3. CASE asking[g] = Asked
  <2> DEFINE m == [type |-> "state", copy |-> setting]
  <2>1. /\ asking' = [asking EXCEPT ![g] = setting] /\ inroom' = inroom
        /\ mail' = IF g \in attending THEN mail
                   ELSE [h \in Guests |-> IF h \in inroom THEN Append(mail[h], m) ELSE mail[h]]
    BY <1>3 DEF onJoin
  <2>2. setting # Absent /\ m \in Message /\ m.type = "state" /\ m.copy = setting
    BY Signs
  <2> HIDE DEF m
  <2>3. RoomType'
    BY <1>1, <2>1, <2>2, OneMore
  <2>4. ASSUME NEW h \in Guests PROVE GuestFits(h)'
    <3>1. GuestFits(h) /\ mail[h] \in Seq(Message)
      BY DEF RoomFits
    <3>2. mail'[h] = mail[h] \/ mail'[h] = Append(mail[h], m)
      BY <2>1
    <3>3. /\ WillShow(mail[h], setting, shown[h]) => WillShow(mail'[h], setting, shown[h])
          /\ \A i \in DOMAIN mail[h] : i \in DOMAIN mail'[h] /\ mail'[h][i] = mail[h][i]
      <4>1. CASE mail'[h] = mail[h]
        BY <4>1
      <4>2. CASE mail'[h] = Append(mail[h], m)
        <5>1. \A i \in DOMAIN mail[h] : i \in DOMAIN Append(mail[h], m) /\ Append(mail[h], m)[i] = mail[h][i]
          BY <2>2, <3>1, OneMore
        <5>2. WillShow(Append(mail[h], m), setting, shown[h])
          BY <2>2, <3>1, ShowsMore
        <5> QED BY <4>2, <5>1, <5>2
      <4> QED BY <3>2, <4>1, <4>2
    <3>4. asking'[h] = asking[h] \/ (asking'[h] = setting /\ h = g)
      BY <2>1
    <3>5. ShownFit(h)'
      <4> SUFFICES ASSUME h \notin outdated
                   PROVE  /\ asking'[h] \in {Absent, Asked, setting} /\ fetch[h] \in {Absent, Asked, setting}
                          /\ h \in inroom => WillShow(mail'[h], setting, shown[h])
        BY <1>1, <2>1 DEF ShownFit, WillShow, TellsLast, Asked
      <4> QED BY <3>1, <3>3, <3>4 DEF GuestFits, ShownFit
    <3>6. KnownFit(h)'
      BY <1>1, <3>1 DEF GuestFits, KnownFit, shallowEqualSettings
    <3>7. DraftFit(h)'
      <4> SUFFICES ASSUME h \notin adrift, shown[h] # Absent, NEW f \in {"knob", "attempts"}, draft[h][f] # shown[h][f]
                   PROVE  (Typed(h, f) \/ Pushed(h, f) \/ Served(h, f) \/ Apart(h))'
        BY <1>1, <3>1 DEF GuestFits, DraftFit
      <4>1. Typed(h, f) \/ Pushed(h, f) \/ Served(h, f) \/ Apart(h)
        BY <3>1 DEF GuestFits, DraftFit
      <4>2. Served(h, f) => Served(h, f)'
        BY <1>1, <3>3 DEF Served
      <4>3. Apart(h) => Apart(h)'
        BY <1>1, <2>1, <3>4 DEF Apart
      <4> QED BY <1>1, <4>1, <4>2, <4>3 DEF Typed, Pushed
    <3> QED BY <3>5, <3>6, <3>7 DEF GuestFits
  <2> QED BY <2>3, <2>4 DEF RoomFits
<1>4. CASE asking[g] # Asked
  <2> DEFINE m == [type |-> "state", copy |-> asking[g]]
  <2>1. inroom' = inroom \cup {g} /\ mail' = [mail EXCEPT ![g] = Append(mail[g], m)] /\ asking' = [asking EXCEPT ![g] = Absent]
    BY <1>4 DEF onJoin
  <2>2. asking[g] \in Settings /\ m \in Message /\ m.type = "state" /\ m.copy = asking[g]
    BY <1>1, <1>4, Signs
  <2> HIDE DEF m
  <2>3. RoomType' /\ mail'[g] = Append(mail[g], m) /\ asking'[g] = Absent /\ mail[g] \in Seq(Message)
    BY <1>1, <2>1, <2>2
  <2>4. OthersStay(g)
    BY <1>1, <2>1 DEF OthersStay
  <2>5. ShownFit(g)'
    <3> SUFFICES ASSUME g \notin outdated
                 PROVE  fetch[g] \in {Absent, Asked, setting} /\ WillShow(mail'[g], setting, shown[g])
      BY <1>1, <2>3 DEF ShownFit, WillShow, TellsLast, Asked
    <3>1. fetch[g] \in {Absent, Asked, setting} /\ asking[g] = setting
      BY <1>1, <1>2, <1>4 DEF GuestFits, ShownFit
    <3>2. WillShow(Append(mail[g], m), setting, shown[g])
      BY <2>2, <2>3, <3>1, ShowsMore
    <3> QED BY <2>3, <3>1, <3>2
  <2>6. KnownFit(g)'
    BY <1>1, <1>2 DEF GuestFits, KnownFit, shallowEqualSettings
  <2>7. DraftFit(g)'
    <3> SUFFICES ASSUME g \notin adrift, shown[g] # Absent, NEW f \in {"knob", "attempts"}, draft[g][f] # shown[g][f]
                 PROVE  (Typed(g, f) \/ Pushed(g, f) \/ Served(g, f) \/ Apart(g))'
      BY <1>1, <1>2 DEF GuestFits, DraftFit
    <3>1. Typed(g, f) \/ Pushed(g, f) \/ Served(g, f)
      BY <1>1, <1>2 DEF GuestFits, DraftFit, Apart
    <3>2. \A i \in DOMAIN mail[g] : i \in DOMAIN mail'[g] /\ mail'[g][i] = mail[g][i]
      BY <2>2, <2>3, OneMore
    <3>3. Served(g, f) => Served(g, f)'
      BY <1>1, <3>2 DEF Served
    <3> QED BY <1>1, <3>1, <3>3 DEF Typed, Pushed
  <2> QED BY <1>1, <2>3, <2>4, <2>5, <2>6, <2>7, OthersFit DEF GuestFits
<1> QED BY <1>3, <1>4

LEMMA FetchKeeps ==
  ASSUME LoungeAssumption, RoomType, RoomFits, NEW g \in Guests, LobbyFetched(g)
  PROVE  RoomType' /\ RoomFits'
<1> USE DEF RoomType
<1>1. fetch[g] # Absent /\ UNCHANGED <<setting, inroom, mail, asking, outdated>>
  BY DEF LobbyFetched
<1>2. GuestFits(g)
  BY DEF RoomFits
<1>3. CASE fetch[g] = Asked
  <2>1. fetch' = [fetch EXCEPT ![g] = setting] /\ UNCHANGED <<shown, known, draft, debounced, pushes, adrift>>
    BY <1>3 DEF LobbyFetched
  <2>2. RoomType' /\ fetch'[g] = setting
    BY <1>1, <2>1
  <2>3. OthersStay(g)
    BY <1>1, <2>1 DEF OthersStay
  <2>4. ShownFit(g)' /\ KnownFit(g)'
    BY <1>1, <1>2, <2>1, <2>2 DEF GuestFits, ShownFit, KnownFit, WillShow, TellsLast, shallowEqualSettings, Asked
  <2>5. DraftFit(g)'
    BY <1>1, <1>2, <2>1 DEF GuestFits, DraftFit, Typed, Pushed, Served, Apart
  <2> QED BY <1>1, <2>2, <2>3, <2>4, <2>5, OthersFit DEF GuestFits
<1>4. CASE fetch[g] # Asked
  <2>1. fetch' = [fetch EXCEPT ![g] = Absent] /\ Learns(g, fetch[g]) /\ LearnsSeat(g, fetch[g], g \notin early)
    BY <1>4 DEF LobbyFetched
  <2>2. fetch[g] \in Settings
    BY <1>1, <1>4
  <2>7. pushes \subseteq pushes' /\ pushes' \subseteq Push
    <3> HIDE DEF RoomType
    <3> QED BY <1>2, <2>1, <2>2, BackFits DEF GuestFits
  <2>3. /\ KnownFit(g)' /\ DraftFit(g)'
        /\ shown' \in [Guests -> Settings \cup {Absent}] /\ known' \in [Guests -> Settings \cup {Absent}]
        /\ draft' \in [Guests -> Settings \cup {Absent}] /\ debounced' \in [Guests -> {0, 1, Absent}]
        /\ shown'[g] = fetch[g] /\ adrift' \in {adrift, adrift \cup {g}, adrift \ {g}}
        /\ \A h \in Guests \ {g} :
             /\ shown'[h] = shown[h] /\ known'[h] = known[h] /\ draft'[h] = draft[h] /\ debounced'[h] = debounced[h]
    BY <1>1, <1>2, <2>1, <2>2, <2>7, LearnsFits DEF GuestFits
  <2>4. RoomType'
    BY <1>1, <2>1, <2>3, <2>7
  <2>5. OthersStay(g)
    BY <1>1, <2>1, <2>3, <2>7 DEF OthersStay
  <2>6. ShownFit(g)'
    <3> SUFFICES ASSUME g \notin outdated
                 PROVE  asking[g] \in {Absent, Asked, setting} /\ (g \in inroom => WillShow(mail[g], setting, shown'[g]))
      BY <1>1, <2>1 DEF ShownFit, WillShow, TellsLast, Asked
    <3>1. fetch[g] = setting /\ asking[g] \in {Absent, Asked, setting} /\ (g \in inroom => WillShow(mail[g], setting, shown[g]))
      BY <1>1, <1>2, <1>4 DEF GuestFits, ShownFit
    <3> QED BY <2>3, <3>1 DEF WillShow
  <2> QED BY <1>1, <2>3, <2>4, <2>5, <2>6, OthersFit DEF GuestFits
<1> QED BY <1>3, <1>4

LEMMA DeliveryKeeps ==
  ASSUME LoungeAssumption, RoomType, RoomFits, NEW g \in Guests, Delivered(g)
  PROVE  RoomType' /\ RoomFits'
<1> USE DEF RoomType
<1> DEFINE m == Head(mail[g])
<1>1. /\ mail[g] # <<>> /\ mail' = [mail EXCEPT ![g] = Tail(mail[g])]
      /\ UNCHANGED <<setting, inroom, asking, fetch, outdated>>
      /\ m.type = "state" => Learns(g, m.copy) /\ LearnsSeat(g, m.copy, TRUE)
      /\ m.type # "state" => UNCHANGED <<shown, known, draft, debounced, pushes, adrift>>
  BY DEF Delivered
<1>2. /\ mail[g] \in Seq(Message) /\ Tail(mail[g]) \in Seq(Message) /\ m \in Message
      /\ 1 \in DOMAIN mail[g] /\ mail[g][1] = m
      /\ \A i \in DOMAIN mail[g] : i # 1 => i - 1 \in DOMAIN Tail(mail[g]) /\ Tail(mail[g])[i - 1] = mail[g][i]
  BY <1>1, OneLess
<1> HIDE DEF m
<1>3. mail' \in [Guests -> Seq(Message)] /\ mail'[g] = Tail(mail[g]) /\ \A h \in Guests \ {g} : mail'[h] = mail[h]
  BY <1>1, <1>2
<1>4. GuestFits(g)
  BY DEF RoomFits
<1>5. ASSUME m.type = "state" => shown'[g] = m.copy, m.type # "state" => shown'[g] = shown[g]
      PROVE  ShownFit(g)'
  <2> SUFFICES ASSUME g \notin outdated
               PROVE  /\ asking[g] \in {Absent, Asked, setting} /\ fetch[g] \in {Absent, Asked, setting}
                      /\ g \in inroom => WillShow(mail'[g], setting, shown'[g])
    BY <1>1 DEF ShownFit, WillShow, TellsLast, Asked
  <2>1. /\ asking[g] \in {Absent, Asked, setting} /\ fetch[g] \in {Absent, Asked, setting}
        /\ g \in inroom => WillShow(mail[g], setting, shown[g])
    BY <1>4 DEF GuestFits, ShownFit
  <2>2. g \in inroom => WillShow(Tail(mail[g]), setting, IF m.type = "state" THEN m.copy ELSE shown[g])
    BY <1>1, <1>2, <2>1, ShowsRest DEF m
  <2>3. (IF m.type = "state" THEN m.copy ELSE shown[g]) = shown'[g]
    BY <1>5
  <2> QED BY <1>3, <2>1, <2>2, <2>3
<1>6. CASE m.type = "state"
  <2>1. m.copy \in Settings /\ Learns(g, m.copy) /\ LearnsSeat(g, m.copy, TRUE)
    BY <1>1, <1>2, <1>6, Signs
  <2>7. pushes \subseteq pushes' /\ pushes' \subseteq Push
    <3> HIDE DEF RoomType
    <3> QED BY <1>4, <2>1, BackFits DEF GuestFits
  <2>2. \A i \in DOMAIN mail[g] : mail[g][i].type = "state" /\ mail[g][i].copy # m.copy =>
          \E j \in DOMAIN mail'[g] : mail'[g][j] = mail[g][i]
    BY <1>2, <1>3
  <2>3. /\ KnownFit(g)' /\ DraftFit(g)'
        /\ shown' \in [Guests -> Settings \cup {Absent}] /\ known' \in [Guests -> Settings \cup {Absent}]
        /\ draft' \in [Guests -> Settings \cup {Absent}] /\ debounced' \in [Guests -> {0, 1, Absent}]
        /\ shown'[g] = m.copy /\ adrift' \in {adrift, adrift \cup {g}, adrift \ {g}}
        /\ \A h \in Guests \ {g} :
             /\ shown'[h] = shown[h] /\ known'[h] = known[h] /\ draft'[h] = draft[h] /\ debounced'[h] = debounced[h]
    BY <1>1, <1>4, <2>1, <2>2, <2>7, LearnsFits DEF GuestFits
  <2>4. RoomType'
    BY <1>1, <1>3, <2>3, <2>7
  <2>5. OthersStay(g)
    BY <1>1, <1>3, <2>3, <2>7 DEF OthersStay
  <2>6. ShownFit(g)'
    BY <1>5, <1>6, <2>3
  <2> QED BY <1>1, <2>3, <2>4, <2>5, <2>6, OthersFit DEF GuestFits
<1>7. CASE m.type # "state"
  <2>1. UNCHANGED <<shown, known, draft, debounced, pushes, adrift>>
    BY <1>1, <1>7
  <2>2. RoomType'
    BY <1>1, <1>3, <2>1
  <2>3. OthersStay(g)
    BY <1>1, <1>3, <2>1 DEF OthersStay
  <2>4. ShownFit(g)'
    BY <1>5, <1>7, <2>1
  <2>5. KnownFit(g)'
    BY <1>4, <2>1 DEF GuestFits, KnownFit, shallowEqualSettings
  <2>6. DraftFit(g)'
    <3> SUFFICES ASSUME g \notin adrift, shown[g] # Absent, NEW f \in {"knob", "attempts"}, draft[g][f] # shown[g][f]
                 PROVE  (Typed(g, f) \/ Pushed(g, f) \/ Served(g, f) \/ Apart(g))'
      BY <1>4, <2>1 DEF GuestFits, DraftFit
    <3>1. Typed(g, f) \/ Pushed(g, f) \/ Served(g, f) \/ Apart(g)
      BY <1>4 DEF GuestFits, DraftFit
    <3>2. ASSUME NEW i \in DOMAIN mail[g], mail[g][i].type = "state", mail[g][i].copy[f] = draft[g][f]
          PROVE  Served(g, f)'
      <4>1. i # 1
        BY <1>2, <1>7, <3>2
      <4>2. i - 1 \in DOMAIN mail'[g] /\ mail'[g][i - 1] = mail[g][i]
        BY <1>2, <1>3, <4>1
      <4> QED BY <2>1, <3>2, <4>2 DEF Served
    <3>3. Served(g, f) => Served(g, f)'
      BY <3>2 DEF Served
    <3> QED BY <1>1, <2>1, <3>1, <3>3 DEF Typed, Pushed, Apart
  <2> QED BY <1>1, <2>2, <2>3, <2>4, <2>5, <2>6, OthersFit DEF GuestFits
<1> QED BY <1>6, <1>7

(* What is pushed: the fields that differ from what was told. *)
LEMMA PushedFits ==
  ASSUME LoungeAssumption, RoomType, NEW g \in Guests, NEW edited \in Settings, NEW fields \in SUBSET Fields,
         shown[g] # Absent, Pushes(g, edited, fields)
  PROVE  /\ pushes \subseteq pushes' /\ pushes' \subseteq Push
         /\ \A f \in fields : edited[f] # shown[g][f] =>
              \E p \in pushes' : p.who = g /\ ~p.orphan /\ f \in DOMAIN p.patch /\ p.patch[f] = edited[f]
<1> DEFINE changed == {f \in fields : edited[f] # shown[g][f]}
           patch == [f \in changed |-> edited[f]]
           push == [who |-> g, patch |-> patch, orphan |-> FALSE]
<1>1. CASE changed = {}
  BY <1>1 DEF Pushes, RoomType
<1>2. CASE changed # {}
  <2>1. pushes' = pushes \cup {push}
    BY <1>2 DEF Pushes
  <2>2. patch \in [changed -> {0, 1}] /\ changed \in SUBSET Fields
    BY Signs
  <2>3. push \in Push
    <3> HIDE DEF patch, changed
    <3> QED BY <2>2 DEF Push
  <2>4. push.who = g /\ ~push.orphan /\ DOMAIN push.patch = changed /\ \A f \in changed : push.patch[f] = edited[f]
    OBVIOUS
  <2> HIDE DEF push, patch
  <2> QED BY <2>1, <2>3, <2>4 DEF RoomType
<1> QED BY <1>1, <1>2

LEMMA EditKeeps ==
  ASSUME LoungeAssumption, RoomType, RoomFits, NEW g \in Guests, NEW what \in Fields, EditsSetting(g, what)
  PROVE  RoomType' /\ RoomFits'
<1> USE DEF RoomType
<1> DEFINE val == 1 - draft[g][what]
           edited == [draft[g] EXCEPT ![what] = val]
<1>1. /\ draft[g] # Absent /\ draft' = [draft EXCEPT ![g] = edited]
      /\ IF what = "knob" THEN Pushes(g, edited, {"knob", "exclusive"}) ELSE UNCHANGED <<pushes, pending>>
      /\ adrift' = IF val # shown[g][what] /\ (what = "exclusive" \/ (what = "attempts" /\ val = debounced[g]))
                   THEN adrift \cup {g} ELSE adrift
      /\ UNCHANGED <<setting, inroom, mail, asking, fetch, shown, known, debounced, outdated>>
  BY DEF EditsSetting
<1>2. GuestFits(g)
  BY DEF RoomFits
<1>3. draft[g] \in Settings /\ shown[g] \in Settings
  BY <1>1, <1>2 DEF GuestFits, KnownFit
<1>4. edited \in Settings /\ edited[what] = val /\ \A f \in Fields : f # what => edited[f] = draft[g][f]
  BY <1>3, Signs DEF Settings, Fields
<1> HIDE DEF edited
<1>5. draft' \in [Guests -> Settings \cup {Absent}] /\ draft'[g] = edited /\ \A h \in Guests \ {g} : draft'[h] = draft[h]
  BY <1>1, <1>4
<1>6. /\ pushes \subseteq pushes' /\ pushes' \subseteq Push
      /\ what = "knob" /\ val # shown[g][what] =>
           \E p \in pushes' : p.who = g /\ ~p.orphan /\ what \in DOMAIN p.patch /\ p.patch[what] = val
  <2>1. CASE what = "knob"
    <3>1. shown[g] # Absent /\ {"knob", "exclusive"} \in SUBSET Fields /\ Pushes(g, edited, {"knob", "exclusive"})
      BY <1>1, <1>3, <2>1, Signs DEF Fields
    <3>2. /\ pushes \subseteq pushes' /\ pushes' \subseteq Push
          /\ \A f \in {"knob", "exclusive"} : edited[f] # shown[g][f] =>
               \E p \in pushes' : p.who = g /\ ~p.orphan /\ f \in DOMAIN p.patch /\ p.patch[f] = edited[f]
      <4> HIDE DEF RoomType
      <4> QED BY <1>4, <3>1, PushedFits
    <3> QED BY <1>4, <2>1, <3>2
  <2>2. CASE what # "knob"
    BY <1>1, <2>2
  <2> QED BY <2>1, <2>2
<1>7. RoomType'
  BY <1>1, <1>5, <1>6
<1>8. OthersStay(g)
  BY <1>1, <1>5, <1>6 DEF OthersStay
<1>9. ShownFit(g)'
  BY <1>1, <1>2 DEF GuestFits, ShownFit, WillShow, TellsLast, Asked
<1>10. KnownFit(g)'
  <2>1. edited # Absent /\ shown[g] # Absent
    BY <1>3, <1>4, Signs
  <2> QED BY <1>1, <1>2, <1>5, <2>1 DEF GuestFits, KnownFit, shallowEqualSettings
<1>11. DraftFit(g)'
  <2> SUFFICES ASSUME g \notin adrift'
               PROVE  /\ edited["exclusive"] = shown[g]["exclusive"]
                      /\ \A f \in {"knob", "attempts"} :
                           edited[f] # shown[g][f] => (Typed(g, f) \/ Pushed(g, f) \/ Served(g, f) \/ Apart(g))'
    BY <1>1, <1>5 DEF DraftFit
  <2>1. g \notin adrift /\ shown[g] # Absent
    BY <1>1, <1>3, Signs
  <2>2. edited["exclusive"] = shown[g]["exclusive"]
    <3>1. CASE what = "exclusive"
      BY <1>1, <1>4, <3>1
    <3>2. CASE what # "exclusive"
      BY <1>2, <1>4, <2>1, <3>2 DEF GuestFits, DraftFit, Fields
    <3> QED BY <3>1, <3>2
  <2>3. ASSUME NEW f \in {"knob", "attempts"}, edited[f] # shown[g][f]
        PROVE  (Typed(g, f) \/ Pushed(g, f) \/ Served(g, f) \/ Apart(g))'
    <3>1. CASE f # what
      <4>1. draft[g][f] = edited[f]
        BY <1>4, <3>1 DEF Fields
      <4>2. Typed(g, f) \/ Pushed(g, f) \/ Served(g, f) \/ Apart(g)
        BY <1>2, <2>1, <2>3, <4>1 DEF GuestFits, DraftFit
      <4> QED BY <1>1, <1>5, <1>6, <4>1, <4>2 DEF Typed, Pushed, Served, Apart
    <3>2. CASE f = what /\ f = "knob"
      BY <1>4, <1>5, <1>6, <2>3, <3>2 DEF Pushed
    <3>3. CASE f = what /\ f = "attempts"
      <4>1. val # debounced[g]
        BY <1>1, <1>4, <2>3, <3>3
      <4> QED BY <1>1, <1>4, <1>5, <3>3, <4>1 DEF Typed
    <3> QED BY <3>1, <3>2, <3>3
  <2> QED BY <2>2, <2>3
<1> QED BY <1>1, <1>7, <1>8, <1>9, <1>10, <1>11, OthersFit DEF GuestFits

LEMMA DebounceKeeps ==
  ASSUME LoungeAssumption, RoomType, RoomFits, NEW g \in Guests, useDebouncedValue(g)
  PROVE  RoomType' /\ RoomFits'
<1> USE DEF RoomType
<1>1. /\ draft[g] # Absent /\ debounced' = [debounced EXCEPT ![g] = draft[g]["attempts"]]
      /\ \/ Pushes(g, draft[g], {"attempts"}) /\ UNCHANGED adrift
         \/ /\ adrift' = IF draft[g]["attempts"] # shown[g]["attempts"] THEN adrift \cup {g} ELSE adrift
            /\ UNCHANGED pushes
      /\ UNCHANGED <<setting, inroom, mail, asking, fetch, shown, known, draft, outdated>>
  BY DEF useDebouncedValue
<1>2. GuestFits(g)
  BY DEF RoomFits
<1>3. draft[g] \in Settings /\ shown[g] # Absent /\ draft[g]["attempts"] \in {0, 1} /\ {"attempts"} \in SUBSET Fields
  BY <1>1, <1>2, Signs DEF GuestFits, KnownFit, Fields
<1>4. /\ pushes \subseteq pushes' /\ pushes' \subseteq Push
      /\ draft[g]["attempts"] # shown[g]["attempts"] /\ g \notin adrift' =>
           \E p \in pushes' : p.who = g /\ ~p.orphan /\ "attempts" \in DOMAIN p.patch
                              /\ p.patch["attempts"] = draft[g]["attempts"]
  <2>1. CASE Pushes(g, draft[g], {"attempts"})
    <3>1. /\ pushes \subseteq pushes' /\ pushes' \subseteq Push
          /\ \A f \in {"attempts"} : draft[g][f] # shown[g][f] =>
               \E p \in pushes' : p.who = g /\ ~p.orphan /\ f \in DOMAIN p.patch /\ p.patch[f] = draft[g][f]
      <4> HIDE DEF RoomType
      <4> QED BY <1>3, <2>1, PushedFits
    <3> QED BY <3>1
  <2>2. CASE /\ adrift' = IF draft[g]["attempts"] # shown[g]["attempts"] THEN adrift \cup {g} ELSE adrift
             /\ UNCHANGED pushes
    BY <2>2
  <2> QED BY <1>1, <2>1, <2>2
<1>5. RoomType'
  BY <1>1, <1>3, <1>4
<1>6. OthersStay(g)
  BY <1>1, <1>4 DEF OthersStay
<1>7. ShownFit(g)' /\ KnownFit(g)'
  BY <1>1, <1>2, <1>3 DEF GuestFits, ShownFit, KnownFit, WillShow, TellsLast, shallowEqualSettings, Asked
<1>8. DraftFit(g)'
  <2> SUFFICES ASSUME g \notin adrift', g \notin adrift, shown[g] # Absent, NEW f \in {"knob", "attempts"}, draft[g][f] # shown[g][f]
               PROVE  (Typed(g, f) \/ Pushed(g, f) \/ Served(g, f) \/ Apart(g))'
    BY <1>1, <1>2 DEF GuestFits, DraftFit
  <2>1. CASE f = "attempts"
    BY <1>1, <1>4, <2>1 DEF Pushed
  <2>2. CASE f = "knob"
    <3>1. Pushed(g, f) \/ Served(g, f) \/ Apart(g)
      BY <1>2, <2>2 DEF GuestFits, DraftFit, Typed
    <3> QED BY <1>1, <1>4, <3>1 DEF Pushed, Served, Apart
  <2> QED BY <2>1, <2>2
<1> QED BY <1>1, <1>5, <1>6, <1>7, <1>8, OthersFit DEF GuestFits

LEMMA DropKeeps ==
  ASSUME LoungeAssumption, RoomType, RoomFits, NEW g \in Guests, GuestDrops(g)
  PROVE  RoomType' /\ RoomFits'
<1> USE DEF RoomType
<1> DEFINE mine == {p \in pushes : p.who = g}
<1>1. PICK kept \in SUBSET mine :
        /\ pushes' = (pushes \ mine) \cup {[p EXCEPT !.orphan = TRUE] : p \in kept}
        /\ adrift' = IF mine # {} THEN adrift \cup {g} ELSE adrift
  BY DEF GuestDrops
<1>2. /\ inroom' = inroom \ {g} /\ mail' = [mail EXCEPT ![g] = <<>>] /\ asking' = [asking EXCEPT ![g] = Absent]
      /\ UNCHANGED <<setting, fetch, shown, known, draft, debounced, outdated>>
  BY DEF GuestDrops
<1>3. pushes' \subseteq Push
  <2>1. \A p \in Push : [p EXCEPT !.orphan = TRUE] \in Push
    BY DEF Push
  <2> QED BY <1>1, <2>1
<1>4. RoomType'
  BY <1>2, <1>3
<1>5. OthersStay(g)
  BY <1>1, <1>2 DEF OthersStay
<1>6. GuestFits(g)
  BY DEF RoomFits
<1>7. ShownFit(g)'
  BY <1>2, <1>6 DEF GuestFits, ShownFit, Asked
<1>8. KnownFit(g)'
  BY <1>2, <1>6 DEF GuestFits, KnownFit, shallowEqualSettings
<1>9. DraftFit(g)'
  <2>1. Apart(g)'
    BY <1>2 DEF Apart
  <2> QED BY <1>1, <1>2, <1>6, <2>1 DEF GuestFits, DraftFit
<1> QED BY <1>2, <1>4, <1>5, <1>7, <1>8, <1>9, OthersFit DEF GuestFits

(* The push of somebody, applied or refused. *)
LEMMA ServedFits ==
  ASSUME LoungeAssumption, RoomType, NEW p \in Push, NEW changed \in BOOLEAN, Answers(p, changed), setting' \in Settings,
         NEW h \in Guests
  PROVE  /\ mail'[h] \in Seq(Message)
         /\ \A i \in DOMAIN mail[h] : i \in DOMAIN mail'[h] /\ mail'[h][i] = mail[h][i]
         /\ ~(changed /\ h \in inroom) /\ WillShow(mail[h], setting', shown[h]) => WillShow(mail'[h], setting', shown[h])
         /\ changed /\ h \in inroom => /\ WillShow(mail'[h], setting', shown[h])
                                       /\ \E i \in DOMAIN mail'[h] : mail'[h][i].type = "state" /\ mail'[h][i].copy = setting'
<1> DEFINE s == [type |-> "state", copy |-> setting']
           a == [type |-> "answer", push |-> p]
           told == IF changed /\ h \in inroom THEN Append(mail[h], s) ELSE mail[h]
<1>1. mail'[h] = IF h = p.who /\ ~p.orphan THEN Append(told, a) ELSE told
  BY DEF Answers
<1>2. s \in Message /\ s.type = "state" /\ s.copy = setting' /\ a \in Message /\ a.type # "state" /\ mail[h] \in Seq(Message)
  BY Signs DEF RoomType
<1> HIDE DEF s, a
<1>3. /\ told \in Seq(Message)
      /\ \A i \in DOMAIN mail[h] : i \in DOMAIN told /\ told[i] = mail[h][i]
      /\ ~(changed /\ h \in inroom) /\ WillShow(mail[h], setting', shown[h]) => WillShow(told, setting', shown[h])
      /\ changed /\ h \in inroom => /\ WillShow(told, setting', shown[h])
                                    /\ \E i \in DOMAIN told : told[i].type = "state" /\ told[i].copy = setting'
  <2>1. CASE changed /\ h \in inroom
    <3>1. told = Append(mail[h], s)
      BY <2>1
    <3>2. /\ told \in Seq(Message) /\ \A i \in DOMAIN mail[h] : i \in DOMAIN told /\ told[i] = mail[h][i]
          /\ Len(mail[h]) + 1 \in DOMAIN told /\ told[Len(mail[h]) + 1] = s
      BY <1>2, <3>1, OneMore
    <3>3. WillShow(told, setting', shown[h])
      BY <1>2, <3>1, ShowsMore
    <3> QED BY <1>2, <2>1, <3>2, <3>3
  <2>2. CASE ~(changed /\ h \in inroom)
    BY <1>2, <2>2
  <2> QED BY <2>1, <2>2
<1> HIDE DEF told
<1>4. CASE h = p.who /\ ~p.orphan
  <2>1. mail'[h] = Append(told, a)
    BY <1>1, <1>4
  <2>2. mail'[h] \in Seq(Message) /\ \A i \in DOMAIN told : i \in DOMAIN mail'[h] /\ mail'[h][i] = told[i]
    BY <1>2, <1>3, <2>1, OneMore
  <2>3. WillShow(told, setting', shown[h]) => WillShow(mail'[h], setting', shown[h])
    BY <1>2, <1>3, <2>1, ShowsMore
  <2> QED BY <1>3, <2>2, <2>3
<1>5. CASE ~(h = p.who /\ ~p.orphan)
  BY <1>1, <1>3, <1>5
<1> QED BY <1>4, <1>5

LEMMA UpdateKeeps ==
  ASSUME LoungeAssumption, RoomType, RoomFits, NEW p \in pushes, onUpdateSettings(p)
  PROVE  RoomType' /\ RoomFits'
<1> USE DEF RoomType
<1>1. /\ pushes' = pushes \ {p}
      /\ UNCHANGED <<inroom, asking, fetch, shown, known, draft, debounced>>
      /\ \/ /\ setting' = Patched(p.patch) /\ Answers(p, TRUE)
            /\ outdated' = {g \in Guests : IsCopy(asking[g]) \/ IsCopy(fetch[g])}
            /\ adrift' = IF p.orphan \/ p.who \in inroom THEN adrift ELSE adrift \cup {p.who}
         \/ Answers(p, FALSE) /\ adrift' = adrift \cup {p.who} /\ UNCHANGED <<setting, outdated>>
  BY DEF onUpdateSettings
<1>2. p \in Push /\ p.who \in Guests /\ DOMAIN p.patch \in SUBSET Fields /\ \A f \in DOMAIN p.patch : p.patch[f] \in {0, 1}
  BY DEF Push
<1>3. setting' \in Settings
  <2>1. Patched(p.patch) \in Settings
    BY <1>2 DEF Patched, Settings
  <2> QED BY <1>1, <2>1
<1>4. ASSUME NEW q \in pushes, q # p PROVE q \in pushes'
  BY <1>1, <1>4
<1>5. mail' \in [Guests -> Seq(Message)]
  <2>1. DOMAIN mail' = Guests /\ mail' = [h \in Guests |-> mail'[h]]
    BY <1>1 DEF Answers
  <2>2. \A h \in Guests : mail'[h] \in Seq(Message)
    BY <1>1, <1>2, <1>3, ServedFits
  <2> QED BY <2>1, <2>2
<1>6. RoomType'
  BY <1>1, <1>3, <1>5
<1>7. ASSUME NEW h \in Guests PROVE GuestFits(h)'
  <2>1. GuestFits(h)
    BY DEF RoomFits
  <2>2. KnownFit(h)'
    BY <1>1, <2>1 DEF GuestFits, KnownFit, shallowEqualSettings
  <2>3. \A i \in DOMAIN mail[h] : i \in DOMAIN mail'[h] /\ mail'[h][i] = mail[h][i]
    BY <1>1, <1>2, <1>3, ServedFits
  <2>4. ASSUME h \notin adrift', shown[h] # Absent, NEW f \in {"knob", "attempts"}, draft[h][f] # shown[h][f]
        PROVE  (Typed(h, f) \/ Pushed(h, f) \/ Served(h, f) \/ Apart(h))'
    <3>1. Typed(h, f) \/ Pushed(h, f) \/ Served(h, f) \/ Apart(h)
      BY <1>1, <2>1, <2>4 DEF GuestFits, DraftFit
    <3>2. Served(h, f) => Served(h, f)'
      BY <1>1, <2>3 DEF Served
    <3>3. ASSUME NEW q \in pushes, q.who = h, ~q.orphan, f \in DOMAIN q.patch, q.patch[f] = draft[h][f]
          PROVE  Pushed(h, f)' \/ Served(h, f)'
      <4>1. CASE q # p
        BY <1>1, <1>4, <3>3, <4>1 DEF Pushed
      <4>2. CASE q = p
        <5>1. h \in inroom /\ setting' = Patched(p.patch) /\ Answers(p, TRUE)
          BY <1>1, <2>4, <3>3, <4>2
        <5>2. setting'[f] = draft[h][f]
          BY <3>3, <4>2, <5>1 DEF Patched, Fields
        <5>3. \E i \in DOMAIN mail'[h] : mail'[h][i].type = "state" /\ mail'[h][i].copy = setting'
          BY <1>2, <1>3, <5>1, ServedFits
        <5> QED BY <1>1, <5>2, <5>3 DEF Served
      <4> QED BY <4>1, <4>2
    <3>4. Pushed(h, f) => Pushed(h, f)' \/ Served(h, f)'
      BY <3>3 DEF Pushed
    <3> QED BY <1>1, <3>1, <3>2, <3>4 DEF Typed, Apart
  <2>5. DraftFit(h)'
    <3>1. h \notin adrift' => h \notin adrift
      BY <1>1
    <3> QED BY <1>1, <2>1, <2>4, <3>1 DEF GuestFits, DraftFit
  <2>6. ShownFit(h)'
    <3> SUFFICES ASSUME h \notin outdated'
                 PROVE  /\ asking[h] \in {Absent, Asked, setting'} /\ fetch[h] \in {Absent, Asked, setting'}
                        /\ h \in inroom => WillShow(mail'[h], setting', shown[h])
      BY <1>1 DEF ShownFit, WillShow, TellsLast, Asked
    <3>1. CASE setting' = Patched(p.patch) /\ Answers(p, TRUE) /\ outdated' = {g \in Guests : IsCopy(asking[g]) \/ IsCopy(fetch[g])}
      <4>1. asking[h] \in {Absent, Asked} /\ fetch[h] \in {Absent, Asked}
        <5>1. ~IsCopy(asking[h]) /\ ~IsCopy(fetch[h])
          BY <3>1
        <5>2. asking[h] \in Settings \cup {Absent, Asked} /\ fetch[h] \in Settings \cup {Absent, Asked}
          OBVIOUS
        <5>3. Entered \notin Settings
          BY Signs
        <5> QED BY <5>1, <5>2, <5>3 DEF IsCopy
      <4>2. h \in inroom => WillShow(mail'[h], setting', shown[h])
        BY <1>2, <1>3, <3>1, ServedFits
      <4> QED BY <4>1, <4>2
    <3>2. CASE Answers(p, FALSE) /\ UNCHANGED <<setting, outdated>>
      <4>1. /\ asking[h] \in {Absent, Asked, setting} /\ fetch[h] \in {Absent, Asked, setting}
            /\ h \in inroom => WillShow(mail[h], setting, shown[h])
        BY <2>1, <3>2 DEF GuestFits, ShownFit
      <4>2. WillShow(mail[h], setting', shown[h]) => WillShow(mail'[h], setting', shown[h])
        BY <1>2, <1>3, <3>2, ServedFits
      <4> QED BY <3>2, <4>1, <4>2
    <3> QED BY <1>1, <3>1, <3>2
  <2> QED BY <2>2, <2>5, <2>6 DEF GuestFits
<1> QED BY <1>6, <1>7 DEF RoomFits

(* Nothing of the room happens. *)
LEMMA RoomStays ==
  ASSUME RoomType, RoomFits,
         UNCHANGED <<setting, inroom, mail, asking, fetch, shown, known, draft, debounced, pushes, outdated, adrift>>
  PROVE  RoomType' /\ RoomFits'
<1>1. RoomType'
  BY DEF RoomType, Asked
<1>2. ASSUME NEW g \in Guests PROVE GuestFits(g)'
  <2>1. GuestFits(g)
    BY DEF RoomFits
  <2> QED BY <2>1, GuestStays
<1> QED BY <1>1, <1>2 DEF RoomFits

LEMMA ChosenStays ==
  ASSUME ChosenFit, UNCHANGED <<pushes, shown, draft, picked, carried>>
  PROVE  ChosenFit'
BY DEF ChosenFit, OnlyChosen, Differing

(* The settings a page is told in place of those it showed. *)
LEMMA LearnsChosen ==
  ASSUME LoungeAssumption, RoomType, ChosenFit, NEW g \in Guests, KnownFit(g), NEW c \in Settings, NEW seated,
         Learns(g, c), LearnsSeat(g, c, seated), picked' = picked
  PROVE  ChosenFit'
<1>1. /\ pushes' \subseteq Push /\ carried \subseteq carried'
      /\ \A p \in pushes' \ pushes : p.who = g /\ \A f \in DOMAIN p.patch \ {"exclusive"} :
           <<g, f, p.patch[f]>> \in carried'
  BY BackFits
<1>2. OnlyChosen'
  BY <1>1 DEF ChosenFit, OnlyChosen
<1>3. ASSUME NEW h \in Guests, Differing(h)' PROVE <<h, "attempts", draft'[h]["attempts"]>> \in picked'
  <2>1. CASE h # g
    <3>1. shown'[h] = shown[h] /\ draft'[h] = draft[h]
      BY <2>1 DEF Learns, RoomType
    <3> QED BY <1>3, <3>1 DEF ChosenFit, Differing
  <2>2. CASE h = g
    <3>1. shown'[g] = c /\ ~Differs(g, c) /\ draft'[g] = draft[g]
      BY <1>3, <2>2 DEF Learns, RoomType, Differing
    <3>2. shown[g] # Absent /\ shown[g]["attempts"] = c["attempts"]
      BY <3>1 DEF Differs, KnownFit, shallowEqualSettings
    <3> QED BY <1>3, <2>2, <3>1, <3>2 DEF ChosenFit, Differing
  <2> QED BY <2>1, <2>2
<1> QED BY <1>2, <1>3 DEF ChosenFit

(* What is pushed of an editor whose differing fields were chosen. *)
LEMMA PushesChosen ==
  ASSUME LoungeAssumption, RoomType, ChosenFit, NEW g \in Guests, NEW edited \in Settings, NEW fields \in SUBSET Fields,
         Pushes(g, edited, fields), picked \subseteq picked', carried' = carried,
         \A f \in fields \ {"exclusive"} : edited[f] # shown[g][f] => <<g, f, edited[f]>> \in picked'
  PROVE  OnlyChosen'
<1> DEFINE changed == {f \in fields : edited[f] # shown[g][f]}
           patch == [f \in changed |-> edited[f]]
           push == [who |-> g, patch |-> patch, orphan |-> FALSE]
<1>1. pushes' \subseteq pushes \cup {push}
  BY DEF Pushes
<1>2. push.who = g /\ DOMAIN push.patch = changed /\ \A f \in changed : push.patch[f] = edited[f]
  OBVIOUS
<1> HIDE DEF push, patch
<1> QED BY <1>1, <1>2 DEF ChosenFit, OnlyChosen

LEMMA ChosenKeeps ==
  ASSUME LoungeAssumption, RoomType, RoomFits, ChosenFit, RoomSideNext
  PROVE  ChosenFit'
<1>1. ASSUME NEW g \in Guests, useLobbyRoom(g) PROVE ChosenFit'
  <2>1. UNCHANGED <<pushes, picked, carried>> /\ \A h \in Guests : h # g => shown'[h] = shown[h] /\ draft'[h] = draft[h]
    BY <1>1 DEF useLobbyRoom, RoomType
  <2>2. draft'[g] = shown'[g]
    BY <1>1 DEF useLobbyRoom, RoomType
  <2> QED BY <2>1, <2>2 DEF ChosenFit, OnlyChosen, Differing
<1>2. ASSUME NEW g \in Guests, onJoin(g) \/ Reconnects(g) PROVE ChosenFit'
  BY <1>2, ChosenStays DEF onJoin, Reconnects
<1>3. ASSUME NEW g \in Guests, LobbyFetched(g) PROVE ChosenFit'
  <2>1. CASE fetch[g] = Asked
    BY <1>3, <2>1, ChosenStays DEF LobbyFetched
  <2>2. CASE fetch[g] # Asked
    <3>1. fetch[g] \in Settings
      BY <1>3, <2>2 DEF LobbyFetched, RoomType
    <3>2. Learns(g, fetch[g]) /\ LearnsSeat(g, fetch[g], g \notin early) /\ picked' = picked
      BY <1>3, <2>2 DEF LobbyFetched
    <3> QED BY <3>1, <3>2, LearnsChosen DEF RoomFits, GuestFits
  <2> QED BY <2>1, <2>2
<1>4. ASSUME NEW g \in Guests, Delivered(g) PROVE ChosenFit'
  <2> DEFINE m == Head(mail[g])
  <2>1. CASE m.type = "state"
    <3>1. m \in Message
      BY <1>4, OneLess DEF Delivered, RoomType
    <3>2. m.copy \in Settings
      BY <2>1, <3>1, Signs
    <3>3. Learns(g, m.copy) /\ LearnsSeat(g, m.copy, TRUE) /\ picked' = picked
      BY <1>4, <2>1 DEF Delivered
    <3> HIDE DEF m
    <3> QED BY <3>2, <3>3, LearnsChosen DEF RoomFits, GuestFits
  <2>2. CASE m.type # "state"
    BY <1>4, <2>2, ChosenStays DEF Delivered
  <2> QED BY <2>1, <2>2
<1>5. ASSUME NEW g \in Guests, useDebouncedValue(g) PROVE ChosenFit'
  <2>1. UNCHANGED <<shown, draft, picked, carried>>
    BY <1>5 DEF useDebouncedValue
  <2>2. CASE Pushes(g, draft[g], {"attempts"})
    <3>1. draft[g] \in Settings /\ shown[g] # Absent /\ {"attempts"} \in SUBSET Fields
      BY <1>5, Signs DEF useDebouncedValue, RoomFits, GuestFits, KnownFit, RoomType, Fields
    <3>2. \A f \in {"attempts"} \ {"exclusive"} : draft[g][f] # shown[g][f] => <<g, f, draft[g][f]>> \in picked'
      BY <2>1, <3>1 DEF ChosenFit, Differing
    <3>3. OnlyChosen'
      BY <2>1, <2>2, <3>1, <3>2, PushesChosen
    <3> QED BY <2>1, <3>3 DEF ChosenFit, Differing
  <2>3. CASE UNCHANGED pushes
    BY <2>1, <2>3, ChosenStays
  <2> QED BY <1>5, <2>2, <2>3 DEF useDebouncedValue
<1>6. ASSUME NEW g \in Guests, NEW what \in Fields, EditsSetting(g, what) PROVE ChosenFit'
  <2> DEFINE val == 1 - draft[g][what]
             edited == [draft[g] EXCEPT ![what] = val]
  <2>1. /\ draft[g] # Absent /\ draft' = [draft EXCEPT ![g] = edited]
        /\ IF what = "knob" THEN Pushes(g, edited, {"knob", "exclusive"}) ELSE UNCHANGED <<pushes, pending>>
        /\ picked' = picked \cup {<<g, what, val>>} /\ UNCHANGED <<shown, carried>>
    BY <1>6 DEF EditsSetting
  <2>2. draft[g] \in Settings
    BY <2>1 DEF RoomType
  <2>3. edited \in Settings /\ edited[what] = val /\ \A f \in Fields : f # what => edited[f] = draft[g][f]
    BY <2>2, Signs DEF Settings, Fields
  <2> HIDE DEF edited, val
  <2>4. OnlyChosen'
    <3>1. CASE what = "knob"
      <4>1. \A f \in {"knob", "exclusive"} \ {"exclusive"} : <<g, f, edited[f]>> \in picked'
        BY <2>1, <2>3, <3>1
      <4>2. {"knob", "exclusive"} \in SUBSET Fields /\ picked \subseteq picked'
        BY <2>1 DEF Fields
      <4> QED BY <2>1, <2>3, <3>1, <4>1, <4>2, PushesChosen
    <3>2. CASE what # "knob"
      BY <2>1, <3>2 DEF ChosenFit, OnlyChosen
    <3> QED BY <3>1, <3>2
  <2>5. ASSUME NEW h \in Guests, Differing(h)' PROVE <<h, "attempts", draft'[h]["attempts"]>> \in picked'
    <3>1. CASE h # g
      <4>1. draft'[h] = draft[h]
        BY <2>1, <3>1 DEF RoomType
      <4> QED BY <2>1, <2>5, <4>1 DEF ChosenFit, Differing
    <3>2. CASE h = g
      <4>1. draft'[g] = edited
        BY <2>1 DEF RoomType
      <4>2. CASE what = "attempts"
        BY <2>1, <2>3, <3>2, <4>1, <4>2
      <4>3. CASE what # "attempts"
        <5>1. edited["attempts"] = draft[g]["attempts"]
          BY <2>3, <4>3 DEF Fields
        <5> QED BY <2>1, <2>5, <3>2, <4>1, <5>1 DEF ChosenFit, Differing
      <4> QED BY <4>2, <4>3
    <3> QED BY <3>1, <3>2
  <2> QED BY <2>4, <2>5 DEF ChosenFit
<1>7. ASSUME NEW g \in Guests, GuestDrops(g) PROVE ChosenFit'
  <2> DEFINE mine == {p \in pushes : p.who = g}
  <2>1. PICK kept \in SUBSET mine : pushes' = (pushes \ mine) \cup {[p EXCEPT !.orphan = TRUE] : p \in kept}
    BY <1>7 DEF GuestDrops
  <2>2. UNCHANGED <<shown, draft, picked, carried>>
    BY <1>7 DEF GuestDrops
  <2>3. \A p \in Push : [p EXCEPT !.orphan = TRUE].who = p.who /\ [p EXCEPT !.orphan = TRUE].patch = p.patch
    BY DEF Push
  <2>4. \A q \in pushes' : \E p \in pushes : q.who = p.who /\ q.patch = p.patch
    <3> SUFFICES ASSUME NEW q \in pushes' PROVE \E p \in pushes : q.who = p.who /\ q.patch = p.patch
      OBVIOUS
    <3>1. CASE q \in pushes
      BY <3>1
    <3>2. CASE \E p \in kept : q = [p EXCEPT !.orphan = TRUE]
      <4>1. PICK p \in kept : q = [p EXCEPT !.orphan = TRUE]
        BY <3>2
      <4>2. p \in pushes /\ p \in Push
        BY DEF RoomType
      <4> QED BY <2>3, <4>1, <4>2
    <3> QED BY <2>1, <3>1, <3>2
  <2>5. OnlyChosen'
    BY <2>2, <2>4 DEF ChosenFit, OnlyChosen
  <2> QED BY <2>2, <2>5 DEF ChosenFit, Differing
<1>8. ASSUME NEW p \in pushes, onUpdateSettings(p) PROVE ChosenFit'
  BY <1>8 DEF onUpdateSettings, ChosenFit, OnlyChosen, Differing
<1>9. {"knob", "attempts", "exclusive"} = Fields
  BY DEF Fields
<1> QED BY <1>1, <1>2, <1>3, <1>4, <1>5, <1>6, <1>7, <1>8, <1>9 DEF RoomSideNext

(* One more message of the list. *)
LEMMA ListMore ==
  ASSUME NEW q \in Seq(News), NEW m \in News, NEW b, NEW l, NEW v
  PROVE  /\ PutsIn(m, l) \/ (WillBeIn(q, b, l) /\ ~TakesOut(m, l)) => WillBeIn(Append(q, m), b, l)
         /\ TakesOut(m, l) \/ (WillBeOut(q, b, l) /\ ~PutsIn(m, l)) => WillBeOut(Append(q, m), b, l)
         /\ (Tells(m, l) /\ Version(m, l) = v) \/ (WillHave(q, b, l, v) /\ ~Tells(m, l)) =>
              WillHave(Append(q, m), b, l, v)
<1> DEFINE r == Append(q, m)
           n == Len(q) + 1
<1>1. /\ \A i \in DOMAIN q : i \in DOMAIN r /\ r[i] = q[i] /\ n > i /\ ~(i > n)
      /\ n \in DOMAIN r /\ r[n] = m /\ ~(n > n) /\ \A i \in DOMAIN r : i \in DOMAIN q \/ i = n
  BY OneMore
<1> HIDE DEF r, n
<1>2. PutsIn(m, l) => WillBeIn(r, b, l)
  BY <1>1 DEF WillBeIn
<1>3. ASSUME WillBeIn(q, b, l), ~TakesOut(m, l) PROVE WillBeIn(r, b, l)
  <2>1. CASE l \in DOMAIN b /\ \A j \in DOMAIN q : ~TakesOut(q[j], l)
    BY <1>1, <1>3, <2>1 DEF WillBeIn
  <2>2. ASSUME NEW i \in DOMAIN q, PutsIn(q[i], l), \A j \in DOMAIN q : j > i => ~TakesOut(q[j], l)
        PROVE  WillBeIn(r, b, l)
    BY <1>1, <1>3, <2>2 DEF WillBeIn
  <2> QED BY <1>3, <2>1, <2>2 DEF WillBeIn
<1>4. TakesOut(m, l) => WillBeOut(r, b, l)
  BY <1>1 DEF WillBeOut
<1>5. ASSUME WillBeOut(q, b, l), ~PutsIn(m, l) PROVE WillBeOut(r, b, l)
  <2>1. CASE l \notin DOMAIN b /\ \A j \in DOMAIN q : ~PutsIn(q[j], l)
    BY <1>1, <1>5, <2>1 DEF WillBeOut
  <2>2. ASSUME NEW i \in DOMAIN q, TakesOut(q[i], l), \A j \in DOMAIN q : j > i => ~PutsIn(q[j], l)
        PROVE  WillBeOut(r, b, l)
    BY <1>1, <1>5, <2>2 DEF WillBeOut
  <2> QED BY <1>5, <2>1, <2>2 DEF WillBeOut
<1>6. ASSUME Tells(m, l), Version(m, l) = v PROVE WillHave(r, b, l, v)
  <2>1. \A i \in DOMAIN r : (\A j \in DOMAIN r : j > i => ~Tells(r[j], l)) => i = n
    BY <1>1, <1>6
  <2> QED BY <1>1, <1>6, <2>1 DEF WillHave
<1>7. ASSUME WillHave(q, b, l, v), ~Tells(m, l) PROVE WillHave(r, b, l, v)
  <2>1. ASSUME NEW i \in DOMAIN r, Tells(r[i], l), \A j \in DOMAIN r : j > i => ~Tells(r[j], l)
        PROVE  Version(r[i], l) = v
    <3>1. i \in DOMAIN q /\ r[i] = q[i]
      BY <1>1, <1>7, <2>1
    <3> QED BY <1>1, <1>7, <2>1, <3>1 DEF WillHave
  <2>2. (\A j \in DOMAIN r : ~Tells(r[j], l)) => \A j \in DOMAIN q : ~Tells(q[j], l)
    BY <1>1
  <2> QED BY <1>7, <2>1, <2>2 DEF WillHave
<1> QED BY <1>2, <1>3, <1>4, <1>5, <1>6, <1>7 DEF r

(* One less: c is what the first message m makes of b. *)
LEMMA ListRest ==
  ASSUME NEW q \in Seq(News), q # <<>>, NEW b, NEW c, NEW l, NEW v,
         l \in DOMAIN c <=> PutsIn(Head(q), l) \/ (l \in DOMAIN b /\ ~TakesOut(Head(q), l)),
         l \in DOMAIN c => c[l] = IF Tells(Head(q), l) THEN Version(Head(q), l) ELSE b[l]
  PROVE  /\ WillBeIn(q, b, l) => WillBeIn(Tail(q), c, l)
         /\ WillBeOut(q, b, l) => WillBeOut(Tail(q), c, l)
         /\ WillHave(q, b, l, v) => WillHave(Tail(q), c, l, v)
<1> DEFINE r == Tail(q)
           m == Head(q)
<1>1. /\ 1 \in DOMAIN q /\ q[1] = m
      /\ \A i \in DOMAIN r : i + 1 \in DOMAIN q /\ r[i] = q[i + 1] /\ i \in Nat /\ i # 0
      /\ \A i \in DOMAIN q : i # 1 => i - 1 \in DOMAIN r /\ r[i - 1] = q[i]
      /\ \A i \in DOMAIN q : i \in Nat /\ (i # 1 => i > 1)
  BY OneLess
<1>2. /\ l \in DOMAIN c <=> PutsIn(m, l) \/ (l \in DOMAIN b /\ ~TakesOut(m, l))
      /\ l \in DOMAIN c => c[l] = IF Tells(m, l) THEN Version(m, l) ELSE b[l]
  OBVIOUS
<1> HIDE DEF r, m
<1>3. ASSUME WillBeIn(q, b, l) PROVE WillBeIn(r, c, l)
  <2>1. CASE l \in DOMAIN b /\ \A j \in DOMAIN q : ~TakesOut(q[j], l)
    BY <1>1, <1>2, <2>1 DEF WillBeIn
  <2>2. ASSUME NEW i \in DOMAIN q, PutsIn(q[i], l), \A j \in DOMAIN q : j > i => ~TakesOut(q[j], l)
        PROVE  WillBeIn(r, c, l)
    <3>1. CASE i = 1
      <4>1. \A j \in DOMAIN r : ~TakesOut(r[j], l)
        <5> SUFFICES ASSUME NEW j \in DOMAIN r PROVE ~TakesOut(r[j], l)
          OBVIOUS
        <5>0. j + 1 \in DOMAIN q /\ j \in Nat /\ j # 0
          BY <1>1
        <5>1. j + 1 \in DOMAIN q /\ j + 1 # 1
          BY <5>0
        <5> QED BY <1>1, <2>2, <3>1, <5>1
      <4> QED BY <1>1, <1>2, <2>2, <3>1, <4>1 DEF WillBeIn
    <3>2. CASE i # 1
      <4>1. i - 1 \in DOMAIN r /\ r[i - 1] = q[i]
        BY <1>1, <3>2
      <4>2. \A j \in DOMAIN r : j > i - 1 => ~TakesOut(r[j], l)
        <5> SUFFICES ASSUME NEW j \in DOMAIN r, j > i - 1 PROVE ~TakesOut(r[j], l)
          OBVIOUS
        <5>0. i \in Nat
          BY <1>1, <2>2
        <5>3. j \in Nat /\ j + 1 \in DOMAIN q
          BY <1>1 DEF r
        <5>1. j + 1 \in DOMAIN q /\ j + 1 > i
          BY <5>0, <5>3
        <5> QED BY <1>1, <2>2, <5>1
      <4> QED BY <2>2, <4>1, <4>2 DEF WillBeIn
    <3> QED BY <3>1, <3>2
  <2> QED BY <1>3, <2>1, <2>2 DEF WillBeIn
<1>4. ASSUME WillBeOut(q, b, l) PROVE WillBeOut(r, c, l)
  <2>1. CASE l \notin DOMAIN b /\ \A j \in DOMAIN q : ~PutsIn(q[j], l)
    BY <1>1, <1>2, <2>1 DEF WillBeOut
  <2>2. ASSUME NEW i \in DOMAIN q, TakesOut(q[i], l), \A j \in DOMAIN q : j > i => ~PutsIn(q[j], l)
        PROVE  WillBeOut(r, c, l)
    <3>1. CASE i = 1
      <4>1. \A j \in DOMAIN r : ~PutsIn(r[j], l)
        <5> SUFFICES ASSUME NEW j \in DOMAIN r PROVE ~PutsIn(r[j], l)
          OBVIOUS
        <5>0. j + 1 \in DOMAIN q /\ j \in Nat /\ j # 0
          BY <1>1
        <5>1. j + 1 \in DOMAIN q /\ j + 1 # 1
          BY <5>0
        <5> QED BY <1>1, <2>2, <3>1, <5>1
      <4>2. ~PutsIn(m, l)
        BY <1>1, <2>2, <3>1 DEF PutsIn, TakesOut
      <4> QED BY <1>1, <1>2, <2>2, <3>1, <4>1, <4>2 DEF WillBeOut
    <3>2. CASE i # 1
      <4>1. i - 1 \in DOMAIN r /\ r[i - 1] = q[i]
        BY <1>1, <3>2
      <4>2. \A j \in DOMAIN r : j > i - 1 => ~PutsIn(r[j], l)
        <5> SUFFICES ASSUME NEW j \in DOMAIN r, j > i - 1 PROVE ~PutsIn(r[j], l)
          OBVIOUS
        <5>0. i \in Nat
          BY <1>1, <2>2
        <5>3. j \in Nat /\ j + 1 \in DOMAIN q
          BY <1>1 DEF r
        <5>1. j + 1 \in DOMAIN q /\ j + 1 > i
          BY <5>0, <5>3
        <5> QED BY <1>1, <2>2, <5>1
      <4> QED BY <2>2, <4>1, <4>2 DEF WillBeOut
    <3> QED BY <3>1, <3>2
  <2> QED BY <1>4, <2>1, <2>2 DEF WillBeOut
<1>5. ASSUME WillHave(q, b, l, v) PROVE WillHave(r, c, l, v)
  <2>1. ASSUME NEW i \in DOMAIN r, Tells(r[i], l), \A j \in DOMAIN r : j > i => ~Tells(r[j], l)
        PROVE  Version(r[i], l) = v
    <3>1. i + 1 \in DOMAIN q /\ r[i] = q[i + 1] /\ i \in Nat /\ i # 0
      BY <1>1
    <3>2. ASSUME NEW j \in DOMAIN q, j > i + 1 PROVE ~Tells(q[j], l)
      <4>1. j - 1 \in DOMAIN r /\ r[j - 1] = q[j] /\ j - 1 > i
        BY <1>1, <3>1, <3>2
      <4> QED BY <2>1, <4>1
    <3> QED BY <1>5, <2>1, <3>1, <3>2 DEF WillHave
  <2>2. ASSUME l \in DOMAIN c, \A j \in DOMAIN r : ~Tells(r[j], l) PROVE c[l] = v
    <3>1. \A j \in DOMAIN q : j # 1 => ~Tells(q[j], l)
      BY <1>1, <2>2
    <3>2. CASE Tells(m, l)
      <4>1. Version(q[1], l) = v
        BY <1>1, <1>5, <3>1, <3>2 DEF WillHave
      <4> QED BY <1>1, <1>2, <2>2, <3>2, <4>1
    <3>3. CASE ~Tells(m, l)
      <4>1. l \in DOMAIN b /\ \A j \in DOMAIN q : ~Tells(q[j], l)
        BY <1>1, <1>2, <2>2, <3>1, <3>3 DEF Tells
      <4> QED BY <1>2, <1>5, <2>2, <3>3, <4>1 DEF WillHave
    <3> QED BY <3>2, <3>3
  <2> QED BY <2>1, <2>2 DEF WillHave
<1> QED BY <1>3, <1>4, <1>5 DEF r

(* The list itself is replaced by one that agrees. *)
LEMMA ListReplaced ==
  ASSUME NEW q \in Seq(News), NEW b, NEW c, NEW l, NEW v
  PROVE  /\ WillBeIn(q, b, l) /\ l \in DOMAIN c => WillBeIn(q, c, l)
         /\ WillBeOut(q, b, l) /\ l \notin DOMAIN c => WillBeOut(q, c, l)
         /\ WillHave(q, b, l, v) /\ (l \in DOMAIN c => c[l] = v) => WillHave(q, c, l, v)
BY DEF WillBeIn, WillBeOut, WillHave

LEMMA SomeList ==
  ASSUME NEW ids \in SUBSET Rows, NEW x \in [ids -> Nat]
  PROVE  x \in Lists
BY DEF Lists

(* What a message makes of the list. *)
LEMMA MergedFits ==
  ASSUME LoungeAssumption, ListType, NEW m \in News, NEW l \in Rows
  PROVE  /\ Merged(m) \in Lists /\ Merged(m) # Absent
         /\ l \in DOMAIN Merged(m) <=> PutsIn(m, l) \/ (l \in DOMAIN Listed /\ ~TakesOut(m, l))
         /\ l \in DOMAIN Merged(m) => Merged(m)[l] = IF Tells(m, l) THEN Version(m, l) ELSE Listed[l]
<1> USE DEF ListType
<1>1. ASSUME NEW x \in Lists PROVE DOMAIN x \in SUBSET Rows /\ (\A k \in DOMAIN x : x[k] \in Nat) /\ x # Absent
  <2>1. PICK ids \in SUBSET Rows : x \in [ids -> Nat]
    BY DEF Lists
  <2>2. Absent \notin [ids -> Nat]
    BY DEF LoungeAssumption
  <2> QED BY <2>1, <2>2
<1>2. Listed \in Lists
  <2>1. [k \in {} |-> 0] \in Lists
    <3>1. [k \in {} |-> 0] \in [{} -> Nat] /\ {} \in SUBSET Rows
      OBVIOUS
    <3> QED BY <3>1 DEF Lists
  <2> QED BY <2>1 DEF Listed
<1>3. DOMAIN Listed \in SUBSET Rows /\ \A k \in DOMAIN Listed : Listed[k] \in Nat
  BY <1>1, <1>2
<1>4. m.type \in {"list", "added", "updated", "removed"}
  BY DEF News
<1>5. CASE m.type = "list"
  <2>1. Merged(m) = m.list /\ m.list \in Lists
    BY <1>5 DEF Merged, News
  <2> QED BY <1>1, <1>5, <2>1 DEF PutsIn, TakesOut, Tells, Version
<1>6. CASE m.type = "added"
  <2> DEFINE x == [k \in DOMAIN Listed \cup {m.id} |-> IF k = m.id THEN m.ver ELSE Listed[k]]
  <2>1. Merged(m) = x
    BY <1>6 DEF Merged, Listed
  <2>2. m.id \in Rows /\ m.ver \in Nat
    BY <1>6 DEF News
  <2>3. x \in [DOMAIN Listed \cup {m.id} -> Nat] /\ DOMAIN Listed \cup {m.id} \in SUBSET Rows
    BY <1>3, <2>2
  <2>4. x \in Lists
    BY <2>3, SomeList
  <2>5. DOMAIN x = DOMAIN Listed \cup {m.id} /\ \A k \in DOMAIN x : x[k] = IF k = m.id THEN m.ver ELSE Listed[k]
    OBVIOUS
  <2> HIDE DEF x
  <2> QED BY <1>1, <1>6, <2>1, <2>4, <2>5 DEF PutsIn, TakesOut, Tells, Version
<1>7. CASE m.type = "updated"
  <2> DEFINE x == [k \in DOMAIN Listed |-> IF k = m.id THEN m.ver ELSE Listed[k]]
  <2>1. Merged(m) = x
    BY <1>7 DEF Merged, Listed
  <2>2. m.id \in Rows /\ m.ver \in Nat
    BY <1>7 DEF News
  <2>3. x \in [DOMAIN Listed -> Nat] /\ DOMAIN Listed \in SUBSET Rows
    BY <1>3, <2>2
  <2>4. x \in Lists
    BY <2>3, SomeList
  <2>5. DOMAIN x = DOMAIN Listed /\ \A k \in DOMAIN x : x[k] = IF k = m.id THEN m.ver ELSE Listed[k]
    OBVIOUS
  <2> HIDE DEF x
  <2> QED BY <1>1, <1>7, <2>1, <2>4, <2>5 DEF PutsIn, TakesOut, Tells, Version
<1>8. CASE m.type = "removed"
  <2> DEFINE x == [k \in DOMAIN Listed \ {m.id} |-> Listed[k]]
  <2>1. Merged(m) = x
    BY <1>8 DEF Merged, Listed
  <2>3. x \in [DOMAIN Listed \ {m.id} -> Nat] /\ DOMAIN Listed \ {m.id} \in SUBSET Rows
    BY <1>3
  <2>4. x \in Lists
    BY <2>3, SomeList
  <2>5. DOMAIN x = DOMAIN Listed \ {m.id} /\ \A k \in DOMAIN x : x[k] = Listed[k]
    OBVIOUS
  <2> HIDE DEF x
  <2> QED BY <1>1, <1>8, <2>1, <2>4, <2>5 DEF PutsIn, TakesOut, Tells, Version
<1> QED BY <1>4, <1>5, <1>6, <1>7, <1>8

LEMMA ListStays ==
  ASSUME UNCHANGED listSide, ListsFit
  PROVE  ListsFit'
<1>1. UNCHANGED <<open, tuned, feed, tuning, polled, rows, outrun>>
  BY DEF listSide
<1> SUFFICES ASSUME NEW l \in Rows \ outrun PROVE ListFit(l)'
  BY <1>1 DEF ListsFit
<1>2. ListFit(l)
  BY DEF ListsFit
<1> QED BY <1>1, <1>2 DEF ListFit, Listed, IsCopy, Agrees, WillBeIn, WillBeOut, WillHave, Asked, Entered

LEMMA SpendsFits ==
  ASSUME ListType, NEW kind \in {"edit", "visit", "open"}, Spends(kind)
  PROVE  outing' \in [{"edit", "visit", "open"} -> Nat]
BY DEF ListType, Spends

LEMMA BroadcastKeeps ==
  ASSUME LoungeAssumption, ListType, ListsFit, NEW k \in Rows, broadcastList(k)
  PROVE  ListType' /\ ListsFit'
<1> USE DEF ListType
<1>1. UNCHANGED <<tuned, tuning, polled, rows>> /\ Outrun(k) /\ outing["open"] \in Nat
  BY DEF broadcastList
<1>2. outing' \in [{"edit", "visit", "open"} -> Nat]
  BY SpendsFits DEF broadcastList
<1>3. PICK ids \in SUBSET Rows : open \in [ids -> Nat]
  BY DEF Lists
<1>4. \E m \in News :
        /\ Feeds(m) /\ open' \in Lists
        /\ \A l \in Rows \ {k} : /\ ~PutsIn(m, l) /\ ~TakesOut(m, l) /\ ~Tells(m, l)
                                 /\ (l \in DOMAIN open' <=> l \in DOMAIN open)
                                 /\ (l \in DOMAIN open => open'[l] = open[l])
        /\ \/ k \in DOMAIN open' /\ PutsIn(m, k) /\ Tells(m, k) /\ Version(m, k) = open'[k]
           \/ /\ k \in DOMAIN open' /\ k \in DOMAIN open
              /\ ~TakesOut(m, k) /\ Tells(m, k) /\ Version(m, k) = open'[k]
           \/ k \notin DOMAIN open' /\ TakesOut(m, k)
  <2>1. CASE /\ k \notin DOMAIN open
             /\ open' = [l \in DOMAIN open \cup {k} |-> IF l = k THEN outing["open"] ELSE open[l]]
             /\ Feeds([type |-> "added", id |-> k, ver |-> open'[k]])
    <3> DEFINE m == [type |-> "added", id |-> k, ver |-> open'[k]]
    <3>1. open' \in [ids \cup {k} -> Nat] /\ ids \cup {k} \in SUBSET Rows /\ open'[k] = outing["open"]
      BY <1>1, <1>3, <2>1
    <3>2. open' \in Lists
      BY <3>1, SomeList
    <3>3. m \in News
      BY <1>1, <3>1 DEF News
    <3>4. \A l \in Rows \ {k} : /\ ~PutsIn(m, l) /\ ~TakesOut(m, l) /\ ~Tells(m, l)
                                /\ (l \in DOMAIN open' <=> l \in DOMAIN open)
                                /\ (l \in DOMAIN open => open'[l] = open[l])
      BY <2>1 DEF PutsIn, TakesOut, Tells
    <3>5. k \in DOMAIN open' /\ PutsIn(m, k) /\ Tells(m, k) /\ Version(m, k) = open'[k] /\ Feeds(m)
      BY <2>1 DEF PutsIn, Tells, Version
    <3> QED BY <3>2, <3>3, <3>4, <3>5
  <2>2. CASE /\ k \in DOMAIN open
             /\ open' = [open EXCEPT ![k] = outing["open"]]
             /\ Feeds([type |-> "updated", id |-> k, ver |-> open'[k]])
    <3> DEFINE m == [type |-> "updated", id |-> k, ver |-> open'[k]]
    <3>1. open' \in [ids -> Nat] /\ open'[k] = outing["open"] /\ DOMAIN open' = DOMAIN open
      BY <1>1, <1>3, <2>2
    <3>2. open' \in Lists
      BY <3>1, SomeList
    <3>3. m \in News
      BY <1>1, <3>1 DEF News
    <3>4. \A l \in Rows \ {k} : /\ ~PutsIn(m, l) /\ ~TakesOut(m, l) /\ ~Tells(m, l)
                                /\ (l \in DOMAIN open' <=> l \in DOMAIN open)
                                /\ (l \in DOMAIN open => open'[l] = open[l])
      BY <2>2, <3>1 DEF PutsIn, TakesOut, Tells
    <3>5. k \in DOMAIN open' /\ k \in DOMAIN open /\ ~TakesOut(m, k) /\ Tells(m, k) /\ Version(m, k) = open'[k] /\ Feeds(m)
      BY <2>2, <3>1 DEF TakesOut, Tells, Version
    <3> QED BY <3>2, <3>3, <3>4, <3>5
  <2>3. CASE /\ k \in DOMAIN open
             /\ open' = [l \in DOMAIN open \ {k} |-> open[l]]
             /\ Feeds([type |-> "removed", id |-> k])
    <3> DEFINE m == [type |-> "removed", id |-> k]
    <3>1. open' \in [ids \ {k} -> Nat] /\ ids \ {k} \in SUBSET Rows
      BY <1>3, <2>3
    <3>2. open' \in Lists
      BY <3>1, SomeList
    <3>3. m \in News
      BY DEF News
    <3>4. \A l \in Rows \ {k} : /\ ~PutsIn(m, l) /\ ~TakesOut(m, l) /\ ~Tells(m, l)
                                /\ (l \in DOMAIN open' <=> l \in DOMAIN open)
                                /\ (l \in DOMAIN open => open'[l] = open[l])
      BY <2>3 DEF PutsIn, TakesOut, Tells
    <3>5. k \notin DOMAIN open' /\ TakesOut(m, k) /\ Feeds(m)
      BY <2>3 DEF TakesOut
    <3> QED BY <3>2, <3>3, <3>4, <3>5
  <2> QED BY <2>1, <2>2, <2>3 DEF broadcastList
<1>5. PICK m \in News :
        /\ Feeds(m) /\ open' \in Lists
        /\ \A l \in Rows \ {k} : /\ ~PutsIn(m, l) /\ ~TakesOut(m, l) /\ ~Tells(m, l)
                                 /\ (l \in DOMAIN open' <=> l \in DOMAIN open)
                                 /\ (l \in DOMAIN open => open'[l] = open[l])
        /\ \/ k \in DOMAIN open' /\ PutsIn(m, k) /\ Tells(m, k) /\ Version(m, k) = open'[k]
           \/ /\ k \in DOMAIN open' /\ k \in DOMAIN open
              /\ ~TakesOut(m, k) /\ Tells(m, k) /\ Version(m, k) = open'[k]
           \/ k \notin DOMAIN open' /\ TakesOut(m, k)
  BY <1>4
<1>6. feed' = IF tuned THEN Append(feed, m) ELSE feed
  BY <1>5 DEF Feeds
<1>7. feed' \in Seq(News)
  BY <1>6
<1>8. ListType'
  BY <1>1, <1>2, <1>5, <1>7 DEF Asked, Entered
<1>9. ASSUME NEW l \in Rows \ outrun' PROVE ListFit(l)'
  <2>1. l \notin outrun /\ ListFit(l)
    BY <1>1 DEF Outrun, ListsFit
  <2>2. l = k => ~IsCopy(tuning) /\ ~IsCopy(polled)
    BY <1>1, <1>9 DEF Outrun
  <2>3. /\ IsCopy(tuning') => IsCopy(tuning) /\ l # k
        /\ IsCopy(polled') => IsCopy(polled) /\ l # k
    BY <1>1, <2>2
  <2>4. /\ IsCopy(tuning') => Agrees(tuning.list, l)'
        /\ IsCopy(polled') => Agrees(polled.list, l)'
    BY <1>1, <1>5, <2>1, <2>3 DEF ListFit, Agrees
  <2>5. ASSUME tuned, tuning = Absent
        PROVE  /\ l \in DOMAIN open' => WillBeIn(feed', Listed, l) /\ WillHave(feed', Listed, l, open'[l])
               /\ l \notin DOMAIN open' => WillBeOut(feed', Listed, l)
    <3>0. feed' = Append(feed, m) /\ feed \in Seq(News)
      BY <1>6, <2>5
    <3>1. /\ l \in DOMAIN open => WillBeIn(feed, Listed, l) /\ WillHave(feed, Listed, l, open[l])
          /\ l \notin DOMAIN open => WillBeOut(feed, Listed, l)
      BY <2>1, <2>5 DEF ListFit
    <3>2. /\ PutsIn(m, l) \/ (WillBeIn(feed, Listed, l) /\ ~TakesOut(m, l)) => WillBeIn(feed', Listed, l)
          /\ TakesOut(m, l) \/ (WillBeOut(feed, Listed, l) /\ ~PutsIn(m, l)) => WillBeOut(feed', Listed, l)
          /\ (Tells(m, l) /\ Version(m, l) = open'[l]) \/ (WillHave(feed, Listed, l, open'[l]) /\ ~Tells(m, l)) =>
               WillHave(feed', Listed, l, open'[l])
      BY <3>0, ListMore
    <3>3. CASE l # k
      BY <1>5, <3>1, <3>2, <3>3
    <3>4. CASE l = k
      BY <1>5, <3>1, <3>2, <3>4
    <3> QED BY <3>3, <3>4
  <2>6. Listed' = Listed
    BY <1>1 DEF Listed
  <2> QED BY <1>1, <2>4, <2>5, <2>6 DEF ListFit, WillBeIn, WillBeOut, WillHave, IsCopy, Asked, Entered
<1> QED BY <1>8, <1>9 DEF ListsFit

LEMMA OpensListKeeps ==
  ASSUME LoungeAssumption, ListType, ListsFit, useLobbyList
  PROVE  ListType' /\ ListsFit'
<1>1. polled' = Asked /\ tuning' = Asked /\ UNCHANGED <<open, tuned, feed, rows, outrun>>
  BY DEF useLobbyList
<1>2. outing' \in [{"edit", "visit", "open"} -> Nat]
  BY SpendsFits DEF useLobbyList
<1>3. ListType'
  BY <1>1, <1>2 DEF ListType, Asked, Entered
<1>4. ASSUME NEW l \in Rows \ outrun' PROVE ListFit(l)'
  <2>1. ~IsCopy(polled)' /\ ~IsCopy(tuning)' /\ tuning' # Absent
    BY <1>1 DEF IsCopy, Asked
  <2> QED BY <2>1 DEF ListFit
<1> QED BY <1>3, <1>4 DEF ListsFit

LEMMA SubscribeKeeps ==
  ASSUME LoungeAssumption, ListType, ListsFit, onSubscribeList
  PROVE  ListType' /\ ListsFit'
<1> USE DEF ListType
<1>1. tuning # Absent /\ UNCHANGED <<open, polled, rows, outrun, outing>>
  BY DEF onSubscribeList
<1>2. CASE ~IsCopy(tuning)
  <2>1. /\ feed' = feed
        /\ \/ tuned' = TRUE /\ tuning' = Entered
           \/ tuning' = [list |-> open] /\ tuned' = tuned
    BY <1>2 DEF onSubscribeList
  <2>2. ListType'
    BY <1>1, <2>1 DEF Asked, Entered
  <2>3. tuning' # Absent
    <3>1. [list |-> open] # Absent
      <4>1. PICK ids \in SUBSET Rows : open \in [ids -> Nat]
        BY DEF Lists
      <4>2. Absent \notin [list : [ids -> Nat]]
        BY DEF LoungeAssumption
      <4>3. [list |-> open] \in [list : [ids -> Nat]]
        BY <4>1
      <4> QED BY <4>2, <4>3
    <3> QED BY <1>1, <2>1, <3>1 DEF LoungeAssumption
  <2>4. ASSUME NEW l \in Rows \ outrun' PROVE ListFit(l)'
    <3>1. ListFit(l)
      BY <1>1 DEF ListsFit
    <3>2. IsCopy(tuning)' => Agrees(tuning.list, l)'
      BY <1>1, <2>1 DEF IsCopy, Agrees, Entered
    <3>3. IsCopy(polled)' => Agrees(polled.list, l)'
      BY <1>1, <3>1 DEF ListFit, IsCopy, Agrees, Entered, Asked
    <3> QED BY <2>3, <3>2, <3>3 DEF ListFit
  <2> QED BY <2>2, <2>4 DEF ListsFit
<1>3. CASE IsCopy(tuning)
  <2> DEFINE m == [type |-> "list", list |-> tuning.list]
  <2>1. feed' = Append(feed, m) /\ tuning' = Absent /\ tuned' = tuned
    BY <1>3 DEF onSubscribeList
  <2>2. tuning.list \in Lists
    BY <1>3 DEF IsCopy
  <2>3. m \in News /\ m.type = "list" /\ m.list = tuning.list
    BY <2>2 DEF News
  <2> HIDE DEF m
  <2>4. ListType'
    BY <1>1, <2>1, <2>3 DEF Asked, Entered
  <2>5. ASSUME NEW l \in Rows \ outrun' PROVE ListFit(l)'
    <3>1. ListFit(l) /\ Agrees(tuning.list, l)
      BY <1>1, <1>3 DEF ListsFit, ListFit
    <3>2. ~IsCopy(tuning)' /\ (IsCopy(polled)' => Agrees(polled.list, l)')
      BY <1>1, <2>1, <3>1 DEF ListFit, IsCopy, Agrees, Entered, Asked
    <3>3. l \in DOMAIN open => PutsIn(m, l) /\ Tells(m, l) /\ Version(m, l) = open[l]
      BY <2>3, <3>1 DEF PutsIn, Tells, Version, Agrees
    <3>4. l \notin DOMAIN open => TakesOut(m, l)
      BY <2>3, <3>1 DEF TakesOut, Agrees
    <3>5. /\ l \in DOMAIN open => WillBeIn(feed', Listed, l) /\ WillHave(feed', Listed, l, open[l])
          /\ l \notin DOMAIN open => WillBeOut(feed', Listed, l)
      BY <2>1, <2>3, <3>3, <3>4, ListMore
    <3>6. Listed' = Listed
      BY <1>1 DEF Listed
    <3> QED BY <1>1, <3>2, <3>5, <3>6 DEF ListFit, WillBeIn, WillBeOut, WillHave
  <2> QED BY <2>4, <2>5 DEF ListsFit
<1> QED BY <1>2, <1>3

LEMMA PollKeeps ==
  ASSUME LoungeAssumption, ListType, ListsFit, ListFetched
  PROVE  ListType' /\ ListsFit'
<1> USE DEF ListType
<1>1. polled # Absent /\ UNCHANGED <<open, tuned, feed, tuning, outrun, outing>>
  BY DEF ListFetched
<1>2. CASE ~IsCopy(polled)
  <2>1. polled' = [list |-> open] /\ rows' = rows
    BY <1>2 DEF ListFetched
  <2>2. ListType'
    BY <1>1, <2>1 DEF Asked, Entered
  <2>3. ASSUME NEW l \in Rows \ outrun' PROVE ListFit(l)'
    <3>1. ListFit(l)
      BY <1>1 DEF ListsFit
    <3>2. Agrees(polled.list, l)' /\ (IsCopy(tuning)' => Agrees(tuning.list, l)')
      BY <1>1, <2>1, <3>1 DEF ListFit, IsCopy, Agrees, Entered, Asked
    <3> QED BY <1>1, <2>1, <3>1, <3>2 DEF ListFit, Listed, WillBeIn, WillBeOut, WillHave
  <2> QED BY <2>2, <2>3 DEF ListsFit
<1>3. CASE IsCopy(polled)
  <2>1. rows' = polled.list /\ polled' = Absent
    BY <1>3 DEF ListFetched
  <2>2. polled.list \in Lists /\ polled.list # Absent
    BY ZenonT(30), <1>3 DEF IsCopy, LoungeAssumption, Lists
  <2>3. ListType' /\ Listed' = polled.list
    BY <1>1, <2>1, <2>2 DEF Asked, Entered, Listed
  <2>4. ASSUME NEW l \in Rows \ outrun' PROVE ListFit(l)'
    <3>1. ListFit(l) /\ Agrees(polled.list, l)
      BY <1>1, <1>3 DEF ListsFit, ListFit
    <3>2. ~IsCopy(polled)' /\ (IsCopy(tuning)' => Agrees(tuning.list, l)')
      BY <1>1, <2>1, <3>1 DEF ListFit, IsCopy, Agrees, Entered, Asked
    <3>3. ASSUME tuned, tuning = Absent
          PROVE  /\ l \in DOMAIN open => WillBeIn(feed, polled.list, l) /\ WillHave(feed, polled.list, l, open[l])
                 /\ l \notin DOMAIN open => WillBeOut(feed, polled.list, l)
      BY <3>1, <3>3, ListReplaced DEF ListFit, Agrees
    <3> QED BY <1>1, <2>3, <3>2, <3>3 DEF ListFit, WillBeIn, WillBeOut, WillHave
  <2> QED BY <2>3, <2>4 DEF ListsFit
<1> QED BY <1>2, <1>3

LEMMA HearsKeeps ==
  ASSUME LoungeAssumption, ListType, ListsFit, ListHears
  PROVE  ListType' /\ ListsFit'
<1> USE DEF ListType
<1> DEFINE m == Head(feed)
<1>1. feed # <<>> /\ rows' = Merged(m) /\ feed' = Tail(feed) /\ UNCHANGED <<open, tuned, tuning, polled, outrun, outing>>
  BY DEF ListHears
<1>2. m \in News /\ feed' \in Seq(News)
  BY <1>1, OneLess
<1>3. ASSUME NEW l \in Rows
      PROVE  /\ rows' \in Lists /\ rows' # Absent
             /\ l \in DOMAIN rows' <=> PutsIn(m, l) \/ (l \in DOMAIN Listed /\ ~TakesOut(m, l))
             /\ l \in DOMAIN rows' => rows'[l] = IF Tells(m, l) THEN Version(m, l) ELSE Listed[l]
  <2> HIDE DEF m, ListType
  <2> QED BY <1>1, <1>2, MergedFits
<1>4. rows' \in Lists
  <2>1. CASE Rows = {}
    <3>1. News = [type : {"list"}, list : Lists]
      BY <2>1 DEF News
    <3> QED BY <1>1, <1>2, <3>1 DEF Merged
  <2>2. CASE Rows # {}
    BY <1>3, <2>2
  <2> QED BY <2>1, <2>2
<1>5. ListType'
  BY <1>1, <1>2, <1>4 DEF Asked, Entered
<1>6. ASSUME NEW l \in Rows \ outrun' PROVE ListFit(l)'
  <2>1. ListFit(l)
    BY <1>1 DEF ListsFit
  <2>2. Listed' = rows'
    BY <1>3 DEF Listed
  <2>3. /\ WillBeIn(feed, Listed, l) => WillBeIn(feed', rows', l)
        /\ WillBeOut(feed, Listed, l) => WillBeOut(feed', rows', l)
        /\ WillHave(feed, Listed, l, open[l]) => WillHave(feed', rows', l, open[l])
    <3>1. /\ l \in DOMAIN rows' <=> PutsIn(Head(feed), l) \/ (l \in DOMAIN Listed /\ ~TakesOut(Head(feed), l))
          /\ l \in DOMAIN rows' => rows'[l] = IF Tells(Head(feed), l) THEN Version(Head(feed), l) ELSE Listed[l]
      BY <1>3
    <3> QED BY <1>1, <3>1, ListRest
  <2>4. /\ IsCopy(tuning)' => Agrees(tuning.list, l)'
        /\ IsCopy(polled)' => Agrees(polled.list, l)'
    BY <1>1, <2>1 DEF ListFit, IsCopy, Agrees, Entered, Asked
  <2>5. ASSUME tuned, tuning = Absent
        PROVE  /\ l \in DOMAIN open => WillBeIn(feed', rows', l) /\ WillHave(feed', rows', l, open[l])
               /\ l \notin DOMAIN open => WillBeOut(feed', rows', l)
    BY <2>1, <2>3, <2>5 DEF ListFit
  <2> QED BY <1>1, <2>2, <2>4, <2>5 DEF ListFit, WillBeIn, WillBeOut, WillHave
<1> QED BY <1>5, <1>6 DEF ListsFit

LEMMA ListDropKeeps ==
  ASSUME LoungeAssumption, ListType, ListsFit, ListDrops
  PROVE  ListType' /\ ListsFit'
<1>1. tuned' = FALSE /\ feed' = <<>> /\ tuning' = Absent /\ UNCHANGED <<open, polled, rows, outrun>>
  BY DEF ListDrops
<1>2. outing' \in [{"edit", "visit", "open"} -> Nat]
  BY SpendsFits DEF ListDrops
<1>3. ListType'
  BY <1>1, <1>2 DEF ListType, Asked, Entered
<1>4. ASSUME NEW l \in Rows \ outrun' PROVE ListFit(l)'
  <2>1. ListFit(l)
    BY <1>1 DEF ListsFit
  <2> QED BY <1>1, <2>1 DEF ListFit, IsCopy, Agrees, Entered, Asked
<1> QED BY <1>3, <1>4 DEF ListsFit

LEMMA LoungeStart ==
  ASSUME LoungeAssumption, LoungeInit
  PROVE  LoungeInv
<1> USE DEF LoungeInit
<1>1. setting \in Settings /\ setting # Absent
  <2>1. setting \in Settings
    BY DEF Settings
  <2> QED BY <2>1, Signs
<1>2. RoomType
  BY <1>1 DEF RoomType
<1>3. ASSUME NEW g \in Guests PROVE GuestFits(g)
  <2>1. /\ known[g] = shown[g] /\ draft[g] = shown[g] /\ mail[g] = <<>> /\ asking[g] = Absent /\ fetch[g] = Absent
        /\ shown[g] \in {setting, Absent} /\ shown[g] # Absent => debounced[g] = 0
    OBVIOUS
  <2> QED BY <1>1, <2>1 DEF GuestFits, ShownFit, KnownFit, DraftFit, WillShow, shallowEqualSettings
<1>4. ListType
  <2>1. [k \in {} |-> 0] \in [{} -> Nat] /\ {} \in SUBSET Rows
    OBVIOUS
  <2>2. open \in Lists
    BY <2>1, SomeList
  <2> QED BY <2>2 DEF ListType, LoungeAssumption
<1>5. ListsFit
  BY DEF ListsFit, ListFit, IsCopy
<1>6. ChosenFit
  BY DEF ChosenFit, OnlyChosen, Differing
<1> QED BY <1>2, <1>3, <1>4, <1>5, <1>6 DEF LoungeInv, RoomFits

LEMMA LoungeStep ==
  ASSUME LoungeAssumption, LoungeInv, [RoomSideNext \/ ListSideNext]_loungeVars
  PROVE  LoungeInv'
<1> USE DEF LoungeInv
<1>1. CASE UNCHANGED loungeVars
  <2>1. UNCHANGED listSide /\ UNCHANGED outing
        /\ UNCHANGED <<setting, inroom, mail, asking, fetch, shown, known, draft, debounced, pushes, outdated, adrift, picked, carried>>
    BY <1>1 DEF loungeVars, roomSide
  <2>2. ListType'
    BY <2>1 DEF ListType, listSide, Asked, Entered
  <2>3. ChosenFit'
    BY <2>1, ChosenStays
  <2> QED BY <2>1, <2>2, <2>3, RoomStays, ListStays
<1>2. CASE ListSideNext
  <2>1. UNCHANGED roomSide
    BY <1>2 DEF ListSideNext, broadcastList, useLobbyList, onSubscribeList, ListFetched, ListHears, ListDrops
  <2>2. RoomType' /\ RoomFits' /\ ChosenFit'
    BY <2>1, RoomStays, ChosenStays DEF roomSide
  <2>3. ListType' /\ ListsFit'
    BY <1>2, BroadcastKeeps, OpensListKeeps, SubscribeKeeps, PollKeeps, HearsKeeps, ListDropKeeps DEF ListSideNext
  <2> QED BY <2>2, <2>3
<1>3. CASE RoomSideNext
  <2>1. RoomType' /\ RoomFits'
    <3>1. ASSUME NEW g \in Guests, Reconnects(g) PROVE RoomType' /\ RoomFits'
      BY <3>1, RoomStays DEF Reconnects
    <3>2. {"knob", "attempts", "exclusive"} = Fields
      BY DEF Fields
    <3> QED BY <1>3, <3>1, <3>2, VisitKeeps, JoinKeeps, FetchKeeps, DeliveryKeeps, DebounceKeeps, DropKeeps, EditKeeps,
               UpdateKeeps DEF RoomSideNext
  <2>2. UNCHANGED listSide
    BY <1>3 DEF RoomSideNext, useLobbyRoom, onJoin, LobbyFetched, Delivered, useDebouncedValue, GuestDrops, Reconnects,
                EditsSetting, onUpdateSettings
  <2>3. outing' \in [{"edit", "visit", "open"} -> Nat]
    <3>1. outing' = outing \/ Spends("visit") \/ Spends("edit")
      BY <1>3 DEF RoomSideNext, useLobbyRoom, onJoin, LobbyFetched, Delivered, useDebouncedValue, GuestDrops, Reconnects,
                  EditsSetting, onUpdateSettings
    <3> QED BY <3>1, SpendsFits DEF ListType
  <2>4. ListType' /\ ListsFit'
    BY <2>2, <2>3, ListStays DEF ListType, listSide, Asked, Entered
  <2>5. ChosenFit'
    BY <1>3, ChosenKeeps
  <2> QED BY <2>1, <2>4, <2>5
<1> QED BY <1>1, <1>2, <1>3

LEMMA DraftsAsTold ==
  ASSUME LoungeAssumption, LoungeInv
  PROVE  DraftsSettle
<1> USE DEF LoungeInv
<1> SUFFICES ASSUME NEW g \in Guests, Settled(g), g \notin outdated
             PROVE  shown[g] = setting /\ (draft[g] = setting \/ g \in adrift)
  BY DEF DraftsSettle
<1>1. GuestFits(g)
  BY DEF RoomFits
<1>2. /\ g \in inroom /\ mail[g] = <<>> /\ shown[g] # Absent /\ draft[g]["attempts"] = debounced[g]
      /\ \A p \in pushes : p.who # g
  BY DEF Settled
<1>3. shown[g] = setting
  BY <1>1, <1>2 DEF GuestFits, ShownFit, WillShow
<1>4. ASSUME g \notin adrift PROVE draft[g] = setting
  <2>1. \A f \in {"knob", "attempts"} : ~Typed(g, f) /\ ~Pushed(g, f) /\ ~Served(g, f) /\ ~Apart(g)
    BY <1>2 DEF Typed, Pushed, Served, Apart
  <2>2. \A f \in Fields : draft[g][f] = shown[g][f]
    BY <1>1, <1>2, <1>4, <2>1 DEF GuestFits, DraftFit, Fields
  <2>3. draft[g] \in Settings /\ shown[g] \in Settings
    BY <1>1, <1>2 DEF RoomType, GuestFits, KnownFit
  <2> QED BY <1>3, <2>2, <2>3 DEF Settings
<1> QED BY <1>3, <1>4

LEMMA ListAsOpen ==
  ASSUME LoungeAssumption, LoungeInv
  PROVE  ListFollows
<1> USE DEF LoungeInv
<1> SUFFICES ASSUME tuned, feed = <<>>, tuning = Absent, rows # Absent, NEW l \in Rows \ outrun
             PROVE  /\ l \in DOMAIN rows <=> l \in DOMAIN open
                    /\ l \in DOMAIN rows /\ l \in DOMAIN open => rows[l] = open[l]
  BY DEF ListFollows
<1>1. ListFit(l)
  BY DEF ListsFit
<1> QED BY <1>1 DEF ListFit, WillBeIn, WillBeOut, WillHave, Listed

(* When nothing is under way every page of a lobby shows the settings as they are, and
   the list the open lobbies, but for what the history variables name: edits that were
   refused, lost or not told, and copies that changes overtook (LobbyRoomPage.tsx,
   useLobbyList). *)
THEOREM LoungeHolds == LoungeSpec => []LoungeAgrees
<1> USE LoungeAssumption
<1>1. LoungeInit => LoungeInv
  BY LoungeStart
<1>2. LoungeInv /\ [RoomSideNext \/ ListSideNext]_loungeVars => LoungeInv'
  BY LoungeStep
<1>3. LoungeInv => LoungeAgrees
  BY DraftsAsTold, ListAsOpen DEF LoungeAgrees, LoungeInv, ChosenFit
<1> QED BY <1>1, <1>2, <1>3, PTL DEF LoungeSpec

(***************************************************************************)
(* A tab and who it believes is signed in                                  *)
(***************************************************************************)
ShellType ==
  /\ account \in [Persons -> AccountRow] /\ playing \subseteq Persons /\ setupDone \in BOOLEAN
  /\ sessions \in Seq(Persons) /\ alive \subseteq 1..Len(sessions) /\ cookie \in 0..Len(sessions)
  /\ flight \in [Kinds -> Request \cup {Nix}]
  /\ behind \in BOOLEAN /\ stalePage \in BOOLEAN /\ missed \subseteq Persons

(* What the client shows, and that it waits for what it does not know. *)
ClientFits ==
  /\ me.status \in {"pending", "error", "success"}
  /\ me.status = "success" => me.data \in Row
  /\ me.status = "pending" => flight["me"] # Nix
  /\ store.status = "authenticated" <=> me.status = "success"
  /\ me.status = "success" => store.user = me.data
  /\ me.status = "error" => store.user = Nix /\ store.status = "anonymous"
  /\ screen = "login" => me.status # "success"

(* The setup page is opened by nobody else than its first visitor. *)
SetupFits ==
  /\ ~setupDone => sessions = <<>> /\ flight["login"] = Nix
  /\ flight["setup"] # Nix => screen = "setup"
  /\ screen = "setup" => /\ cookie = 0 /\ me.status # "success"
                         /\ \A k \in Kinds \ {"me", "setup"} : flight[k] = Nix
                         /\ flight["me"] # Nix => flight["me"].carries = 0

(* What a request under way knows. *)
KeyOf(k) == IF k \in {"login", "setup"} THEN flight[k].session ELSE flight[k].carries
RequestFits(k) ==
  /\ flight[k].carries <= Len(sessions) /\ flight[k].session <= Len(sessions)
  /\ k \in {"profile", "login", "setup"} => flight[k].who \in Persons
  /\ k \in Replied =>
       /\ flight[k].row # Nix => flight[k].row.who = About(k, flight[k])
       /\ flight[k].row = Nix => About(k, flight[k]) = Nix
       /\ k \in EditKinds \cup {"me", "password"} => IF flight[k].ok THEN flight[k].carries # 0
                                                     ELSE flight[k].carries \notin alive
       /\ k \in {"login", "setup"} /\ flight[k].ok => /\ flight[k].session # 0
                                                      /\ sessions[flight[k].session] = flight[k].who
       /\ k \in {"profile", "login"} => flight[k].ok
RequestsFit == \A k \in Kinds : flight[k] # Nix => RequestFits(k)

OrderFits ==
  /\ order \subseteq Replied \X Replied /\ overtaken \subseteq Replied
  /\ \A x \in Kinds : <<x, x>> \notin order
  /\ \A x, y \in Replied : x = y \/ <<x, y>> \in order \/ <<y, x>> \in order

(* The last answer that may tell of an account's change tells it as it is. *)
Changers == EditKinds \cup {"password"}
RowFits(x) ==
  /\ flight[x].ok /\ flight[x].row # Nix /\ x \notin overtaken /\ KeyOf(x) \in alive
  /\ \A y \in Changers : <<x, y>> \notin order
  => AsOnServer(flight[x].row)
RowsAsTold == \A x \in Replied \ {"profile"} : RowFits(x)

(* So does the cache, unless a change is still to be told. *)
MeFits ==
  ~behind =>
    /\ me.status = "error" => cookie \notin alive
    /\ me.status = "success" =>
         /\ me.data.who = Owner(cookie)
         /\ cookie \in alive /\ Changers \cap Replied = {} => AsOnServer(me.data)

(* The profile page, likewise. *)
EditOf(e, p) == e \in EditKinds /\ flight[e].ok /\ flight[e].row # Nix /\ flight[e].row.who = p
PageFits ==
  /\ profile.fresh \in BOOLEAN
  /\ profile.data # Nix => profile.who \in Persons /\ profile.data \in Face
  /\ flight["profile"] # Nix => flight["profile"].who = profile.who
  /\ "profile" \in Replied \ overtaken =>
       \/ \E e \in EditKinds : <<"profile", e>> \in order /\ EditOf(e, profile.who)
       \/ /\ flight["profile"].row.nick = account[profile.who].nick
          /\ flight["profile"].row.pic = account[profile.who].pic
  /\ profile.data # Nix /\ ~stalePage /\ profile.fresh =>
       \/ \E e \in Replied : EditOf(e, profile.who)
       \/ profile.data = [nick |-> account[profile.who].nick, pic |-> account[profile.who].pic]
  /\ screen = "profile" /\ profile.data # Nix /\ ~profile.fresh => flight["profile"] # Nix

(* Games only end: what is told of one later is not before what was told earlier, and
   of an end somebody asks, or has missed it. *)
GameFits(x) == flight[x].row # Nix /\ flight[x].row.who \in playing => flight[x].row.game
GamesInOrder ==
  \A x, y \in Replied :
    <<x, y>> \in order /\ flight[x].row # Nix /\ flight[y].row # Nix /\ flight[x].row.who = flight[y].row.who
      => (flight[y].row.game => flight[x].row.game)
EndHeard(z) ==
  flight[z].row # Nix /\ Unaware(flight[z].row) =>
    \/ flight[z].row.who \in missed \/ z \in overtaken
    \/ z # "me" /\ flight["me"] # Nix /\ (flight["me"].step = "sent" \/ <<z, "me">> \in order)
GamesFit ==
  /\ \A x \in Replied : GameFits(x)
  /\ GamesInOrder
  /\ \A z \in Replied \ {"profile"} : EndHeard(z)
  /\ me.status = "success" /\ ~behind /\ Unaware(me.data) => me.data.who \in missed \/ flight["me"] # Nix

ShellInv ==
  /\ ShellType /\ ClientFits /\ SetupFits /\ RequestsFit /\ OrderFits
  /\ RowsAsTold /\ MeFits /\ PageFits /\ GamesFit

(* A request just sent, and a row of an account. *)
LEMMA Signals ==
  ASSUME ShellAssumption
  PROVE  /\ \A c \in Nat, w \in Persons \cup {Nix} :
              /\ Sent(c, w) \in Request /\ Sent(c, w) # Nix /\ Sent(c, w).step = "sent"
              /\ Sent(c, w).carries = c /\ Sent(c, w).who = w /\ Sent(c, w).session = 0
         /\ \A p \in Persons, g \in BOOLEAN, a \in AccountRow :
              [who |-> p, nick |-> a.nick, pic |-> a.pic, must |-> a.must, game |-> g] \in Row
         /\ NotYet.status = "pending" /\ NotYet.data = Nix
<1>1. \A c \in Nat, w \in Persons \cup {Nix} : Sent(c, w) \in Request
  BY DEF Sent, Request
<1>2. Nix \notin Request
  BY DEF ShellAssumption
<1>3. \A c \in Nat, w \in Persons \cup {Nix} :
        /\ Sent(c, w).step = "sent" /\ Sent(c, w).carries = c /\ Sent(c, w).who = w /\ Sent(c, w).session = 0
  BY DEF Sent
<1>4. \A p \in Persons, g \in BOOLEAN, a \in AccountRow :
        [who |-> p, nick |-> a.nick, pic |-> a.pic, must |-> a.must, game |-> g] \in Row
  BY DEF Row, AccountRow
<1> QED BY <1>1, <1>2, <1>3, <1>4 DEF NotYet

(* Where a page lands. *)
LEMMA Lands ==
  ASSUME NEW p, NEW s
  PROVE  /\ Landed(p, s) \in {"password", "home", "login", p}
         /\ Landed(p, s) = "login" => s.user = Nix \/ s.status # "authenticated"
         /\ p = "setup" => Landed(p, s) \in {"setup", "password"}
         /\ p = "setup" /\ s.user = Nix => Landed(p, s) = "setup"
<1>1. Landed(p, s) = "login" => s.user = Nix \/ s.status # "authenticated"
  BY DEF Landed, Protected
<1> QED BY <1>1 DEF Landed, Protected

(* What a handler leaves that ends in Settles. *)
LEMMA SettlesTo ==
  ASSUME ShellAssumption, NEW query, NEW user, NEW p, NEW requests, Settles(query, user, p, requests),
         query.status \in {"error", "success"}, query.status = "success" => query.data \in Row
  PROVE  /\ me'.status = "success" => me' = query /\ screen' # "login" /\ store' = [user |-> me'.data, status |-> "authenticated"]
         /\ me'.status = "error" => me' = query /\ store' = [user |-> Nix, status |-> "anonymous"]
         /\ me'.status = "pending" => /\ query.status = "error" /\ store'.status = "loading"
                                      /\ flight' = [requests EXCEPT !["me"] = Sent(cookie, Nix)]
         /\ me'.status \in {"pending", "error", "success"}
         /\ query.status = "success" => me' = query
         /\ \/ flight' = requests
            \/ /\ flight' = [requests EXCEPT !["me"] = Sent(cookie, Nix)] /\ requests["me"] = Nix
               /\ "login" \in {p, Landed(p, Synced(query, user))} /\ screen # "login"
         /\ screen' \in {"password", "home", "login", p}
         /\ p = "setup" /\ me'.status # "success" => screen' = "setup"
<1>1. PICK again \in BOOLEAN :
        LET lands == Landed(p, Synced(query, user))
            mounts == "login" \in {p, lands} /\ screen # "login"
            now == IF again /\ query.data = Nix THEN NotYet ELSE query
        IN  /\ again => mounts /\ requests["me"] = Nix
            /\ me' = now
            /\ store' = Synced(now, IF now = query THEN user ELSE Nix)
            /\ screen' = Landed(p, store')
            /\ flight' = IF again THEN [requests EXCEPT !["me"] = Sent(cookie, Nix)] ELSE requests
  BY DEF Settles
<1>2. Nix \notin Row /\ NotYet.status = "pending" /\ NotYet.data = Nix
  BY Signals DEF ShellAssumption
<1>3. CASE again /\ query.data = Nix
  <2>1. me' = NotYet /\ store' = Synced(NotYet, IF NotYet = query THEN user ELSE Nix) /\ query.status = "error"
    BY <1>1, <1>2, <1>3
  <2>2. NotYet # query
    BY <1>2
  <2>3. store' = [user |-> Nix, status |-> "loading"]
    BY <1>2, <2>1, <2>2 DEF Synced
  <2> QED BY <1>1, <1>2, <1>3, <2>1, <2>3, Lands
<1>4. CASE ~(again /\ query.data = Nix)
  <2>1. me' = query /\ store' = Synced(query, user)
    BY <1>1, <1>4
  <2>2. query.status = "error" => store' = [user |-> Nix, status |-> "anonymous"]
    BY <2>1 DEF Synced
  <2>3. query.status = "success" => store' = [user |-> query.data, status |-> "authenticated"]
    BY <2>1 DEF Synced
  <2>4. query.status = "success" => screen' # "login"
    BY <1>1, <1>2, <2>3, Lands
  <2>5. screen' \in {"password", "home", "login", p} /\ (p = "setup" /\ store'.user = Nix => screen' = "setup")
    BY <1>1, Lands
  <2>6. me'.status = "error" \/ me'.status = "success"
    BY <2>1
  <2> QED BY <1>1, <2>1, <2>2, <2>3, <2>4, <2>5, <2>6
<1> QED BY <1>3, <1>4

(* Of the requests under way, a step that leaves the server alone keeps some, drops some
   and sends some. *)
NewCall(x, r) ==
  \E c \in 0..Len(sessions), w \in Persons \cup {Nix} :
    r = Sent(c, w) /\ (x \in {"profile", "login", "setup"} => w \in Persons)
Waits ==
  /\ flight' \in [Kinds -> Request \cup {Nix}]
  /\ \A x \in Kinds : flight'[x] \in {flight[x], Nix} \/ NewCall(x, flight'[x])
Kept == Replied' \subseteq Replied /\ \A x \in Replied' : flight'[x] = flight[x]

LEMMA NewCalls ==
  ASSUME ShellAssumption, ShellType, NEW x \in Kinds, NEW r, NewCall(x, r)
  PROVE  /\ r \in Request /\ r # Nix /\ r.step = "sent" /\ r.carries \in 0..Len(sessions) /\ r.session = 0
         /\ x \in {"profile", "login", "setup"} => r.who \in Persons
<1>1. Len(sessions) \in Nat
  BY DEF ShellType
<1>2. PICK c \in 0..Len(sessions), w \in Persons \cup {Nix} :
        r = Sent(c, w) /\ (x \in {"profile", "login", "setup"} => w \in Persons)
  BY DEF NewCall
<1>3. c \in Nat
  BY <1>1, <1>2
<1> QED BY <1>2, <1>3, Signals

LEMMA WaitsKeep ==
  ASSUME ShellAssumption, ShellType, Waits
  PROVE  Kept
<1>1. ASSUME NEW x \in Replied'
      PROVE  x \in Replied /\ flight'[x] = flight[x]
  <2>1. x \in Kinds /\ flight'[x] # Nix /\ flight'[x].step = "done"
    BY <1>1 DEF Replied
  <2>2. ~NewCall(x, flight'[x])
    BY <2>1, NewCalls, "sent" # "done"
  <2>3. flight'[x] = flight[x]
    BY <2>1, <2>2 DEF Waits
  <2> QED BY <2>1, <2>3 DEF Replied
<1> QED BY <1>1 DEF Kept

LEMMA WaitsRequests ==
  ASSUME ShellAssumption, ShellType, RequestsFit, Waits, UNCHANGED <<sessions, alive>>
  PROVE  RequestsFit'
<1>1. Kept /\ Len(sessions) \in Nat
  BY WaitsKeep DEF ShellType
<1>2. ASSUME NEW x \in Kinds, flight'[x] # Nix
      PROVE  RequestFits(x)'
  <2>1. CASE NewCall(x, flight'[x])
    <3>1. /\ flight'[x].step = "sent" /\ flight'[x].carries \in 0..Len(sessions) /\ flight'[x].session = 0
          /\ x \in {"profile", "login", "setup"} => flight'[x].who \in Persons
      BY <2>1, NewCalls
    <3>2. x \notin Replied'
      BY <3>1 DEF Replied
    <3> QED BY <1>1, <3>1, <3>2 DEF RequestFits
  <2>2. CASE ~NewCall(x, flight'[x])
    <3>1. flight'[x] = flight[x] /\ RequestFits(x)
      BY <1>2, <2>2 DEF Waits, RequestsFit
    <3>2. x \in Replied' => x \in Replied
      BY <1>1 DEF Kept
    <3>3. About(x, flight[x])' = About(x, flight[x])
      BY <3>1 DEF About, Owner
    <3> QED BY <3>1, <3>2, <3>3 DEF RequestFits
  <2> QED BY <2>1, <2>2
<1> QED BY <1>2 DEF RequestsFit

(* Once the answer k is over, the others are in order. *)
LEMMA OverOrders ==
  ASSUME OrderFits, NEW k \in Kinds, Over(k), Kept
  PROVE  OrderFits'
<1>1. Replied' \subseteq Replied
  BY DEF Kept
<1>2. order' \subseteq Replied' \X Replied' /\ overtaken' \subseteq Replied'
  BY DEF Over
<1>3. \A x \in Kinds : <<x, x>> \notin order'
  BY DEF Over, OrderFits
<1>4. ASSUME NEW x \in Replied', NEW y \in Replied', x # y
      PROVE  <<x, y>> \in order' \/ <<y, x>> \in order'
  <2>1. <<x, y>> \in order \/ <<y, x>> \in order
    BY <1>1, <1>4 DEF OrderFits
  <2> QED BY <2>1, <1>4 DEF Over
<1> QED BY <1>2, <1>3, <1>4 DEF OrderFits

LEMMA OverRows ==
  ASSUME OrderFits, RowsAsTold, NEW k \in Kinds, Over(k), Kept, UNCHANGED <<account, alive>>,
         \A y \in Changers \cap Replied : y \in Replied' \/ y = k
  PROVE  RowsAsTold'
<1>1. ASSUME NEW x \in Replied' \ {"profile"},
             flight'[x].ok, flight'[x].row # Nix, x \notin overtaken', KeyOf(x)' \in alive',
             \A y \in Changers : <<x, y>> \notin order'
      PROVE  AsOnServer(flight[x].row)'
  <2>1. x \in Replied \ {"profile"} /\ flight'[x] = flight[x]
    BY <1>1 DEF Kept
  <2>2. KeyOf(x)' = KeyOf(x)
    BY <2>1 DEF KeyOf
  <2>3. x \notin overtaken /\ (<<x, k>> \notin order \/ k = "profile")
    BY <1>1 DEF Over
  <2>4. ASSUME NEW y \in Changers, <<x, y>> \in order
        PROVE  FALSE
    <3>1. y \in Replied
      BY <2>4 DEF OrderFits
    <3>2. y = k
      BY <1>1, <2>4, <3>1 DEF Over
    <3>3. y # "profile"
      BY DEF Changers, EditKinds
    <3> QED BY <2>3, <2>4, <3>2, <3>3
  <2>5. AsOnServer(flight[x].row)
    BY <1>1, <2>1, <2>2, <2>3, <2>4 DEF RowsAsTold, RowFits
  <2> QED BY <2>1, <2>5 DEF AsOnServer
<1>2. ASSUME NEW x \in Replied' \ {"profile"} PROVE RowFits(x)'
  BY <1>1 DEF RowFits
<1> QED BY <1>2 DEF RowsAsTold

(* What was told of games, once the answer k is over. *)
LEMMA OverGames ==
  ASSUME ShellAssumption, ShellType, RequestsFit, OrderFits, GamesFit, NEW k \in Kinds, Over(k), Kept, UNCHANGED server,
         \/ missed \subseteq missed'
         \/ /\ k \in Replied \ {"profile"} /\ k \notin Replied' /\ flight[k].row # Nix /\ ~Unaware(flight[k].row)
            /\ missed' = missed \ {flight[k].row.who},
         \/ flight["me"] = Nix \/ flight'["me"] = flight["me"]
         \/ flight'["me"] # Nix /\ flight'["me"].step = "sent"
         \/ k = "me" /\ (k \in Replied \/ Persons \ playing \subseteq missed')
  PROVE  (\A x \in Replied : GameFits(x))' /\ GamesInOrder' /\ (\A z \in Replied \ {"profile"} : EndHeard(z))'
<1>1. ASSUME NEW x \in Replied' PROVE GameFits(x)'
  <2>1. x \in Replied /\ flight'[x] = flight[x] /\ GameFits(x)
    BY <1>1 DEF Kept, GamesFit
  <2> QED BY <2>1 DEF GameFits, server
<1>2. GamesInOrder'
  <2>1. ASSUME NEW x \in Replied', NEW y \in Replied', <<x, y>> \in order',
               flight'[x].row # Nix, flight'[y].row # Nix, flight'[x].row.who = flight'[y].row.who, flight'[y].row.game
        PROVE  flight'[x].row.game
    <3>1. x \in Replied /\ flight'[x] = flight[x] /\ y \in Replied /\ flight'[y] = flight[y]
      BY DEF Kept
    <3>2. <<x, y>> \in order
      BY <2>1 DEF Over
    <3> QED BY <2>1, <3>1, <3>2 DEF GamesFit, GamesInOrder
  <2> QED BY <2>1 DEF GamesInOrder
<1>3. ASSUME NEW z \in Replied' \ {"profile"}, flight'[z].row # Nix, Unaware(flight[z].row)'
      PROVE  \/ flight'[z].row.who \in missed' \/ z \in overtaken'
             \/ z # "me" /\ flight'["me"] # Nix /\ (flight'["me"].step = "sent" \/ <<z, "me">> \in order')
  <2>1. z \in Replied \ {"profile"} /\ flight'[z] = flight[z] /\ Unaware(flight[z].row)
    <3>1. z \in Replied \ {"profile"} /\ flight'[z] = flight[z]
      BY <1>3 DEF Kept
    <3> QED BY <1>3, <3>1 DEF Unaware, server
  <2>2. EndHeard(z)
    BY <2>1 DEF GamesFit
  <2>3. CASE flight[z].row.who \in missed
    <3>1. CASE missed \subseteq missed'
      BY <2>1, <2>3, <3>1
    <3>2. CASE /\ k \in Replied \ {"profile"} /\ k \notin Replied' /\ flight[k].row # Nix /\ ~Unaware(flight[k].row)
               /\ missed' = missed \ {flight[k].row.who} /\ flight[z].row.who = flight[k].row.who
      <4>1. z # k /\ ~flight[k].row.game /\ flight[z].row.game
        BY <2>1, <3>2 DEF Unaware
      <4>2. <<k, z>> \notin order
        BY <1>3, <2>1, <3>2, <4>1 DEF GamesFit, GamesInOrder
      <4>3. <<z, k>> \in order
        BY <2>1, <3>2, <4>1, <4>2 DEF OrderFits
      <4>4. z \in overtaken'
        BY <1>3, <3>2, <4>3 DEF Over
      <4> QED BY <4>4
    <3> QED BY <2>1, <2>3, <3>1, <3>2
  <2>4. CASE z \in overtaken
    BY <1>3, <2>4 DEF Over
  <2>5. CASE z # "me" /\ flight["me"] # Nix /\ (flight["me"].step = "sent" \/ <<z, "me">> \in order)
    <3>1. CASE flight'["me"] = flight["me"]
      <4>1. <<z, "me">> \in order => <<z, "me">> \in order' \/ flight["me"].step = "sent"
        <5>1. <<z, "me">> \in order => "me" \in Replied
          BY DEF OrderFits
        <5>2. "me" \in Replied => "me" \in Replied'
          BY <3>1 DEF Replied
        <5> QED BY <1>3, <5>1, <5>2 DEF Over
      <4> QED BY <2>5, <3>1, <4>1
    <3>2. CASE flight'["me"] # Nix /\ flight'["me"].step = "sent"
      BY <2>5, <3>2
    <3>3. CASE k = "me" /\ k \in Replied
      <4>1. flight["me"].step = "done"
        BY <3>3 DEF Replied
      <4>2. <<z, "me">> \in order
        BY <2>5, <4>1
      <4>3. z \in overtaken'
        BY <1>3, <3>3, <4>2 DEF Over
      <4> QED BY <4>3
    <3>4. CASE Persons \ playing \subseteq missed'
      <4>1. flight[z].row \in Row /\ flight[z].row.who \in Persons
        BY <1>3, <2>1 DEF ShellType, Replied, Request, Row
      <4>2. flight[z].row.who \notin playing
        BY <2>1 DEF Unaware
      <4> QED BY <2>1, <3>4, <4>1, <4>2
    <3> QED BY <2>5, <3>1, <3>2, <3>3, <3>4
  <2> QED BY <1>3, <2>1, <2>2, <2>3, <2>4, <2>5 DEF EndHeard
<1>4. ASSUME NEW z \in Replied' \ {"profile"} PROVE EndHeard(z)'
  BY <1>3 DEF EndHeard
<1> QED BY <1>1, <1>2, <1>4

(* The profile page, after a step of the client that fetches nothing into it. *)
LEMMA PageKept ==
  ASSUME OrderFits, PageFits, NEW k \in Kinds, Over(k), Kept, account' = account,
         profile'.who = profile.who, profile'.data = profile.data, profile'.fresh \in BOOLEAN,
         profile'.fresh => profile.fresh, stalePage => stalePage',
         flight'["profile"] # Nix => flight'["profile"].who = profile.who,
         \A y \in Changers \cap Replied : y \in Replied' \/ y = k,
         \A e \in EditKinds \cap Replied :
           EditOf(e, profile.who) => e \in Replied' \/ stalePage' \/ ~profile'.fresh,
         screen' = "profile" /\ profile.data # Nix /\ ~profile'.fresh => flight'["profile"] # Nix
  PROVE  PageFits'
<1>0. \A e \in Replied' : EditOf(e, profile.who) => EditOf(e, profile.who)'
  BY DEF EditOf, Kept
<1>1. ASSUME "profile" \in Replied' \ overtaken',
             ~\E e \in EditKinds : <<"profile", e>> \in order' /\ EditOf(e, profile.who)'
      PROVE  /\ flight'["profile"].row.nick = account'[profile'.who].nick
             /\ flight'["profile"].row.pic = account'[profile'.who].pic
  <2>1. "profile" \in Replied \ overtaken /\ flight'["profile"] = flight["profile"]
    BY <1>1 DEF Kept, Over
  <2>2. ASSUME NEW e \in EditKinds, <<"profile", e>> \in order, EditOf(e, profile.who)
        PROVE  FALSE
    <3>1. e \in Replied /\ e \in Changers /\ e # "profile"
      BY <2>2 DEF OrderFits, Changers, EditKinds
    <3>2. e # k
      BY <1>1, <2>2, <3>1 DEF Over
    <3>3. e \in Replied'
      BY <3>1, <3>2
    <3>4. <<"profile", e>> \in order'
      BY <1>1, <2>2, <3>3 DEF Over
    <3> QED BY <1>0, <1>1, <2>2, <3>3, <3>4
  <2> QED BY <2>1, <2>2 DEF PageFits
<1>2. ASSUME profile'.data # Nix, ~stalePage', profile'.fresh
      PROVE  \/ \E e \in Replied' : EditOf(e, profile.who)'
             \/ profile'.data = [nick |-> account'[profile'.who].nick, pic |-> account'[profile'.who].pic]
  <2>1. \/ \E e \in Replied : EditOf(e, profile.who)
        \/ profile.data = [nick |-> account[profile.who].nick, pic |-> account[profile.who].pic]
    BY <1>2 DEF PageFits
  <2>2. ASSUME NEW e \in Replied, EditOf(e, profile.who)
        PROVE  e \in Replied'
    BY <1>2, <2>2 DEF EditOf
  <2> QED BY <1>0, <2>1, <2>2
<1> QED BY <1>1, <1>2 DEF PageFits, EditOf

(* What a step of the client leaves of the invariant, whatever it shows then. *)
LEMMA ClientKeeps ==
  ASSUME ShellAssumption, ShellInv, NEW k \in Kinds, Over(k), Waits, UNCHANGED server,
         cookie' \in 0..Len(sessions), behind' \in BOOLEAN, stalePage' \in BOOLEAN,
         \/ missed \subseteq missed' /\ missed' \subseteq Persons
         \/ /\ k \in Replied \ {"profile"} /\ k \notin Replied' /\ flight[k].row # Nix /\ ~Unaware(flight[k].row)
            /\ missed' = missed \ {flight[k].row.who},
         \/ flight["me"] = Nix \/ flight'["me"] = flight["me"]
         \/ flight'["me"] # Nix /\ flight'["me"].step = "sent"
         \/ k = "me" /\ (k \in Replied \/ Persons \ playing \subseteq missed'),
         \A y \in Changers \cap Replied : y \in Replied' \/ y = k
  PROVE  /\ Kept
         /\ ShellType' /\ RequestsFit' /\ OrderFits' /\ RowsAsTold'
         /\ (\A x \in Replied : GameFits(x))' /\ GamesInOrder' /\ (\A z \in Replied \ {"profile"} : EndHeard(z))'
<1>1. Kept
  BY WaitsKeep DEF ShellInv
<1>2. ShellType'
  BY DEF ShellInv, ShellType, Waits, server
<1>3. RequestsFit'
  BY WaitsRequests DEF ShellInv, server
<1>4. OrderFits'
  BY <1>1, OverOrders DEF ShellInv
<1>5. RowsAsTold'
  BY <1>1, OverRows DEF ShellInv, server
<1>6. missed \subseteq missed'
      \/ /\ k \in Replied \ {"profile"} /\ k \notin Replied' /\ flight[k].row # Nix /\ ~Unaware(flight[k].row)
         /\ missed' = missed \ {flight[k].row.who}
  OBVIOUS
<1>7. (\A x \in Replied : GameFits(x))' /\ GamesInOrder' /\ (\A z \in Replied \ {"profile"} : EndHeard(z))'
  BY <1>1, <1>6, OverGames DEF ShellInv
<1> QED BY <1>1, <1>2, <1>3, <1>4, <1>5, <1>7

(* Nothing to settle: requests that wait are all that changes. *)
LEMMA OverNothing ==
  ASSUME OrderFits, order' = order, overtaken' = overtaken, Replied' = Replied
  PROVE  Over("profile")
BY DEF Over, OrderFits

LEMMA Wanted ==
  ASSUME OrderFits, StillOrdered
  PROVE  Over("profile")
BY DEF Over, StillOrdered

(* Whose row an answer carries. *)
LEMMA RowGiven ==
  ASSUME ShellAssumption, ShellType, RequestsFit, NEW k \in Replied, flight[k].ok, k # "logout"
  PROVE  /\ flight[k].row \in Row /\ flight[k].row.who = About(k, flight[k])
         /\ flight[k].row.who \in Persons
<1>1. k \in Kinds /\ flight[k] \in Request /\ RequestFits(k)
  BY DEF Replied, ShellType, RequestsFit
<1>2. flight[k].carries \in Nat /\ flight[k].carries <= Len(sessions)
  BY <1>1 DEF Request, RequestFits
<1>3. About(k, flight[k]) \in Persons
  <2>1. CASE k \in {"profile", "login", "setup"}
    BY <1>1, <2>1 DEF About, RequestFits
  <2>2. CASE k \in EditKinds \cup {"me", "password"}
    <3>1. flight[k].carries \in 1..Len(sessions)
      BY <1>1, <1>2, <2>2 DEF RequestFits, ShellType
    <3>2. sessions[flight[k].carries] \in Persons
      BY <3>1 DEF ShellType
    <3> QED BY <2>2, <3>1, <3>2 DEF About, Owner, EditKinds
  <2> QED BY <1>1, <2>1, <2>2 DEF Kinds
<1>4. flight[k].row # Nix
  BY <1>1, <1>3 DEF RequestFits, ShellAssumption
<1> QED BY <1>1, <1>3, <1>4 DEF RequestFits, Request

LEMMA RowOwner ==
  ASSUME ShellAssumption, ShellType, RequestsFit, NEW x \in Replied \ {"profile"},
         flight[x].ok, flight[x].row # Nix, KeyOf(x) \in alive
  PROVE  flight[x].row.who = sessions[KeyOf(x)] /\ KeyOf(x) \in 1..Len(sessions)
<1>1. x \in Kinds /\ flight[x] \in Request /\ RequestFits(x) /\ KeyOf(x) \in 1..Len(sessions)
  BY DEF Replied, ShellType, RequestsFit
<1>2. flight[x].row.who = About(x, flight[x])
  BY <1>1 DEF RequestFits
<1>3. CASE x \in {"login", "setup"}
  BY <1>1, <1>2, <1>3 DEF RequestFits, KeyOf, About
<1>4. CASE x \notin {"login", "setup"}
  <2>1. KeyOf(x) = flight[x].carries /\ flight[x].carries # 0
    BY <1>1, <1>4 DEF KeyOf
  <2> QED BY <1>1, <1>2, <1>4, <2>1 DEF About, Owner
<1> QED BY <1>1, <1>3, <1>4

(* Who is signed in, by the store, is whom the query named. *)
LEMMA SignedInIs ==
  ASSUME ShellAssumption, ClientFits, SignedIn
  PROVE  me.status = "success" /\ store.user = me.data /\ me.data \in Row /\ store.user.who \in Persons
<1>1. me.status = "success"
  BY DEF SignedIn, ClientFits
<1> QED BY <1>1 DEF ClientFits, Row

(* A request of the user. *)
LEMMA SubmitKeeps ==
  ASSUME ShellAssumption, ShellInv, NEW k \in Kinds \ {"me", "profile"}, NEW who \in Persons, Submits(k, who),
         k = "login" => setupDone, screen = "setup" <=> k = "setup"
  PROVE  ShellInv'
<1>1. /\ flight[k] = Nix /\ flight' = [flight EXCEPT ![k] = Sent(cookie, who)]
      /\ UNCHANGED <<server, cookie, client, order, overtaken, history>>
  BY DEF Submits, Busy
<1>2. /\ flight \in [Kinds -> Request \cup {Nix}] /\ cookie \in 0..Len(sessions) /\ Len(sessions) \in Nat
      /\ cookie \in Nat
  BY DEF ShellInv, ShellType
<1>3. Sent(cookie, who) \in Request /\ Sent(cookie, who) # Nix /\ Sent(cookie, who).step = "sent"
  BY <1>2, Signals
<1>4. flight' \in [Kinds -> Request \cup {Nix}] /\ flight'[k] = Sent(cookie, who)
      /\ \A x \in Kinds : x # k => flight'[x] = flight[x]
  BY <1>1, <1>2, <1>3
<1>5. NewCall(k, flight'[k])
  BY <1>2, <1>4 DEF NewCall
<1>6. Waits
  BY <1>4, <1>5 DEF Waits
<1>7. Replied' = Replied
  BY <1>1, <1>3, <1>4, "sent" # "done" DEF Replied
<1>8. Over("profile")
  BY <1>1, <1>7, OverNothing DEF ShellInv
<1>9. "me" \in Kinds /\ "profile" \in Kinds
  BY DEF Kinds
<1>10. UNCHANGED server /\ missed' = missed /\ behind' = behind /\ stalePage' = stalePage /\ flight'["me"] = flight["me"]
       /\ flight'["profile"] = flight["profile"]
  BY <1>1, <1>4, <1>9 DEF history
<1>11. missed \subseteq missed' /\ missed' \subseteq Persons /\ behind' \in BOOLEAN /\ stalePage' \in BOOLEAN
  BY <1>10 DEF ShellInv, ShellType
<1>12. /\ Kept /\ ShellType' /\ RequestsFit' /\ OrderFits' /\ RowsAsTold'
       /\ (\A x \in Replied : GameFits(x))' /\ GamesInOrder' /\ (\A z \in Replied \ {"profile"} : EndHeard(z))'
  BY <1>1, <1>2, <1>6, <1>7, <1>8, <1>9, <1>10, <1>11, ClientKeeps
<1>13. ClientFits'
  BY <1>1, <1>10 DEF ShellInv, ClientFits, client
<1>14. SetupFits'
  BY <1>1, <1>4, <1>10, <1>9 DEF ShellInv, SetupFits, client, server
<1>15. MeFits'
  BY <1>1, <1>7, <1>10 DEF ShellInv, MeFits, client, server, Owner, AsOnServer
<1>16. PageFits'
  <2>1. profile'.fresh \in BOOLEAN /\ profile' = profile /\ screen' = screen /\ account' = account
    BY <1>1 DEF ShellInv, PageFits, client, server
  <2>2. OrderFits /\ PageFits /\ (flight["profile"] # Nix => flight["profile"].who = profile.who)
    BY DEF ShellInv, PageFits
  <2> QED BY <1>7, <1>8, <1>9, <1>10, <1>12, <2>1, <2>2, PageKept DEF PageFits
<1>17. GamesFit'
  BY <1>1, <1>10, <1>12 DEF ShellInv, GamesFit, client, server, Unaware
<1> QED BY <1>12, <1>13, <1>14, <1>15, <1>16, <1>17 DEF ShellInv

(* Links within the site. *)
LEMMA OpensKeeps ==
  ASSUME ShellAssumption, ShellInv, NEW p \in {"home", "password"}, Opens(p)
  PROVE  ShellInv'
<1>1. /\ UNCHANGED <<server, cookie, me, store, profile, wire, history, trips>>
      /\ screen \in {"home", "profile", "password"} /\ SignedIn /\ screen' = Landed(p, store)
  BY DEF Opens
<1>2. UNCHANGED <<account, playing, sessions, alive, setupDone, flight, order, overtaken, behind, stalePage, missed>>
  BY <1>1 DEF server, wire, history
<1>3. screen' \in {"home", "password"}
  <2>1. store.status = "authenticated" /\ store.user # Nix
    BY <1>1 DEF SignedIn
  <2> QED BY <1>1, <2>1, Lands
<1>4. ShellType' /\ RequestsFit' /\ OrderFits' /\ RowsAsTold' /\ GamesFit'
  BY <1>1, <1>2 DEF ShellInv, ShellType, RequestsFit, RequestFits, OrderFits, RowsAsTold, RowFits, GamesFit, GameFits,
     GamesInOrder, EndHeard, Replied, About, Owner, KeyOf, AsOnServer, Unaware
<1>5. ClientFits'
  BY <1>1, <1>2, <1>3 DEF ShellInv, ClientFits
<1>6. SetupFits'
  BY <1>1, <1>2, <1>3 DEF ShellInv, SetupFits
<1>7. MeFits'
  BY <1>1, <1>2 DEF ShellInv, MeFits, Owner, AsOnServer, Replied
<1>8. PageFits'
  BY <1>1, <1>2, <1>3 DEF ShellInv, PageFits, EditOf, Replied
<1> QED BY <1>4, <1>5, <1>6, <1>7, <1>8 DEF ShellInv

LEMMA OpenProfileKeeps ==
  ASSUME ShellAssumption, ShellInv, OpenProfile
  PROVE  ShellInv'
<1> DEFINE who == store.user.who
           cached == IF profile.who = who THEN profile ELSE [who |-> who, data |-> Nix, fresh |-> FALSE]
           requests == IF profile.who = who THEN flight ELSE [flight EXCEPT !["profile"] = Nix]
<1>1. /\ screen = "home" /\ SignedIn /\ screen' = "profile" /\ profile' = cached /\ StillOrdered
      /\ UNCHANGED <<server, cookie, me, store, history, trips>>
      /\ \/ flight' = IF requests["profile"] = Nix THEN [requests EXCEPT !["profile"] = Sent(cookie, who)] ELSE requests
         \/ cached.data # Nix /\ cached.fresh /\ flight' = requests
  BY DEF OpenProfile
<1> HIDE DEF who, cached, requests
<1>2. /\ flight \in [Kinds -> Request \cup {Nix}] /\ cookie \in 0..Len(sessions) /\ Len(sessions) \in Nat
      /\ cookie \in Nat /\ "me" \in Kinds /\ "profile" \in Kinds
  BY DEF ShellInv, ShellType, Kinds
<1>3. who \in Persons /\ me.status = "success"
  BY <1>1, SignedInIs DEF ShellInv, who
<1>4. Sent(cookie, who) \in Request /\ Sent(cookie, who) # Nix /\ Sent(cookie, who).step = "sent"
      /\ Sent(cookie, who).who = who
  BY <1>2, <1>3, Signals
<1>5. /\ flight' \in [Kinds -> Request \cup {Nix}] /\ \A x \in Kinds : x # "profile" => flight'[x] = flight[x]
      /\ \/ flight'["profile"] = Sent(cookie, who)
         \/ flight'["profile"] = flight["profile"] /\ profile.who = who
            /\ (flight["profile"] # Nix \/ (cached.data # Nix /\ cached.fresh))
  <2>1. CASE profile.who = who
    <3>1. requests = flight
      BY <2>1 DEF requests
    <3>2. \/ flight' = [flight EXCEPT !["profile"] = Sent(cookie, who)]
          \/ flight' = flight /\ (flight["profile"] # Nix \/ (cached.data # Nix /\ cached.fresh))
      BY <1>1, <3>1
    <3> QED BY <1>2, <1>4, <2>1, <3>2
  <2>2. CASE profile.who # who
    <3>1. requests = [flight EXCEPT !["profile"] = Nix] /\ cached.data = Nix
      BY <2>2 DEF requests, cached
    <3>2. requests["profile"] = Nix
      BY <1>2, <3>1
    <3>3. flight' = [requests EXCEPT !["profile"] = Sent(cookie, who)]
      BY <1>1, <3>1, <3>2
    <3> QED BY <1>2, <1>4, <3>1, <3>3
  <2> QED BY <2>1, <2>2
<1>6. NewCall("profile", Sent(cookie, who))
  BY <1>2, <1>3 DEF NewCall
<1>7. Waits
  BY <1>5, <1>6 DEF Waits
<1>8. Over("profile")
  BY <1>1, Wanted DEF ShellInv
<1>9. UNCHANGED server /\ missed' = missed /\ behind' = behind /\ stalePage' = stalePage /\ flight'["me"] = flight["me"]
  BY <1>1, <1>2, <1>5 DEF history
<1>10. Changers \cap Replied' = Changers \cap Replied
  BY <1>5 DEF Changers, EditKinds, Replied
<1>11. missed \subseteq missed' /\ missed' \subseteq Persons /\ behind' \in BOOLEAN /\ stalePage' \in BOOLEAN
  BY <1>9 DEF ShellInv, ShellType
<1>12. /\ Kept /\ ShellType' /\ RequestsFit' /\ OrderFits' /\ RowsAsTold'
       /\ (\A x \in Replied : GameFits(x))' /\ GamesInOrder' /\ (\A z \in Replied \ {"profile"} : EndHeard(z))'
  BY <1>1, <1>2, <1>7, <1>8, <1>9, <1>10, <1>11, ClientKeeps
<1>13. ClientFits'
  BY <1>1, <1>3, <1>9 DEF ShellInv, ClientFits
<1>14. SetupFits'
  BY <1>1, <1>5, <1>9 DEF ShellInv, SetupFits, server, Kinds
<1>15. MeFits'
  BY <1>1, <1>9, <1>10 DEF ShellInv, MeFits, server, Owner, AsOnServer
<1>16. PageFits'
  <2>1. CASE profile.who = who
    <3>1. profile' = profile /\ profile'.fresh \in BOOLEAN /\ account' = account
      BY <1>1, <2>1 DEF ShellInv, PageFits, server, cached
    <3>2. flight'["profile"] # Nix => flight'["profile"].who = profile.who
      BY <1>4, <1>5, <2>1 DEF ShellInv, PageFits
    <3>3. profile.data # Nix /\ ~profile.fresh => flight'["profile"] # Nix
      BY <1>4, <1>5, <2>1 DEF cached
    <3>4. EditKinds \subseteq Changers
      BY DEF Changers
    <3>5. \A y \in Changers \cap Replied : y \in Replied'
      BY <1>10
    <3> QED BY <1>2, <1>8, <1>9, <1>12, <3>1, <3>2, <3>3, <3>4, <3>5, PageKept DEF ShellInv
  <2>2. CASE profile.who # who
    <3>1. profile' = [who |-> who, data |-> Nix, fresh |-> FALSE] /\ flight'["profile"] = Sent(cookie, who)
      BY <1>1, <1>5, <2>2 DEF cached
    <3>2. profile'.who = who /\ profile'.data = Nix /\ profile'.fresh = FALSE
      BY <3>1
    <3>3. "profile" \notin Replied' /\ flight'["profile"].who = profile'.who
      BY <1>4, <3>1, <3>2, "sent" # "done" DEF Replied
    <3> QED BY <3>2, <3>3 DEF PageFits
  <2> QED BY <2>1, <2>2
<1>17. GamesFit'
  BY <1>1, <1>9, <1>12 DEF ShellInv, GamesFit, server, Unaware
<1> QED BY <1>12, <1>13, <1>14, <1>15, <1>16, <1>17 DEF ShellInv

(* The caches are cleared. *)
LEMMA ClearedKeeps ==
  ASSUME ShellAssumption, ShellInv, NEW k \in Changers \cup {"logout"}, flight[k] # Nix, Cleared(k), Over(k),
         UNCHANGED server, cookie' \in {0, cookie}, screen' \in {"login", screen},
         behind' \in BOOLEAN, stalePage' \in BOOLEAN,
         \/ missed' = missed
         \/ k \in Replied /\ flight[k].row # Nix /\ ~Unaware(flight[k].row) /\ missed' = missed \ {flight[k].row.who}
  PROVE  ShellInv'
<1>1. /\ me' = NotYet /\ store' = Synced(NotYet, Nix)
      /\ profile' = [who |-> profile.who, data |-> Nix, fresh |-> FALSE]
      /\ flight' = [flight EXCEPT ![k] = Nix, !["profile"] = Nix, !["me"] = Sent(cookie', Nix)]
  BY DEF Cleared
<1>2. /\ flight \in [Kinds -> Request \cup {Nix}] /\ cookie' \in 0..Len(sessions) /\ cookie' \in Nat
      /\ k \in Kinds /\ k # "me" /\ k # "profile" /\ k # "setup" /\ {"me", "profile", "setup"} \subseteq Kinds
      /\ missed \subseteq Persons
  BY DEF ShellInv, ShellType, Kinds, Changers, EditKinds
<1>3. me'.status = "pending" /\ store'.status = "loading"
  BY <1>1, Signals DEF Synced
<1>4. Sent(cookie', Nix) \in Request /\ Sent(cookie', Nix) # Nix /\ Sent(cookie', Nix).step = "sent"
  BY <1>2, Signals
<1>5. /\ flight' \in [Kinds -> Request \cup {Nix}]
      /\ flight'["me"] = Sent(cookie', Nix) /\ flight'["profile"] = Nix /\ flight'[k] = Nix
      /\ \A x \in Kinds \ {k, "me", "profile"} : flight'[x] = flight[x]
  BY <1>1, <1>2, <1>4
<1>6. NewCall("me", Sent(cookie', Nix))
  BY <1>2 DEF NewCall
<1>7. Waits
  BY <1>5, <1>6 DEF Waits
<1>8. \A y \in Changers \cap Replied : y \in Replied' \/ y = k
  BY <1>5 DEF Changers, EditKinds, Replied
<1>9. k \notin Replied'
  BY <1>5 DEF Replied
<1>10. \/ missed \subseteq missed' /\ missed' \subseteq Persons
       \/ /\ k \in Replied \ {"profile"} /\ k \notin Replied' /\ flight[k].row # Nix /\ ~Unaware(flight[k].row)
          /\ missed' = missed \ {flight[k].row.who}
  BY <1>2, <1>9
<1>11. flight'["me"] # Nix /\ flight'["me"].step = "sent"
  BY <1>4, <1>5
<1>12. /\ Kept /\ ShellType' /\ RequestsFit' /\ OrderFits' /\ RowsAsTold'
       /\ (\A x \in Replied : GameFits(x))' /\ GamesInOrder' /\ (\A z \in Replied \ {"profile"} : EndHeard(z))'
  BY <1>2, <1>7, <1>8, <1>10, <1>11, ClientKeeps
<1>13. ClientFits'
  BY <1>3, <1>11 DEF ClientFits
<1>14. SetupFits'
  <2>1. screen # "setup"
    BY <1>2 DEF ShellInv, SetupFits
  <2>2. flight["setup"] = Nix
    BY <2>1 DEF ShellInv, SetupFits
  <2>3. flight'["setup"] = Nix /\ screen' # "setup"
    BY <1>2, <1>5, <2>1, <2>2
  <2>4. ~setupDone' => flight'["login"] = Nix /\ sessions' = <<>>
    BY <1>2, <1>5 DEF ShellInv, SetupFits, server, Kinds, Changers, EditKinds
  <2> QED BY <2>3, <2>4 DEF SetupFits
<1>15. MeFits'
  BY <1>3 DEF MeFits
<1>16. PageFits'
  BY <1>1, <1>5 DEF PageFits, Replied
<1>17. GamesFit'
  BY <1>3, <1>12 DEF GamesFit
<1> QED BY <1>12, <1>13, <1>14, <1>15, <1>16, <1>17 DEF ShellInv

(* What every answer does, whatever it is. *)
Notes(k) ==
  /\ k \in Replied /\ UNCHANGED server /\ Over(k)
  /\ missed' = IF k = "profile" \/ flight[k].row = Nix \/ Unaware(flight[k].row) THEN missed
               ELSE missed \ {flight[k].row.who}
  /\ behind' = IF k = "profile" THEN behind ELSE k \in overtaken \/ Foreign(k)
  /\ stalePage' = IF k = "profile" THEN k \in overtaken ELSE stalePage

LEMMA NotesKeep ==
  ASSUME ShellAssumption, ShellInv, NEW k \in Kinds, Notes(k), Waits, k \notin Replied', cookie' \in 0..Len(sessions),
         k = "me" \/ flight["me"] = Nix \/ flight'["me"] = flight["me"]
                  \/ (flight'["me"] # Nix /\ flight'["me"].step = "sent"),
         \A y \in Changers \cap Replied : y \in Replied' \/ y = k
  PROVE  /\ Kept /\ ShellType' /\ RequestsFit' /\ OrderFits' /\ RowsAsTold'
         /\ (\A x \in Replied : GameFits(x))' /\ GamesInOrder' /\ (\A z \in Replied \ {"profile"} : EndHeard(z))'
<1>1. behind' \in BOOLEAN /\ stalePage' \in BOOLEAN
  <2>1. behind \in BOOLEAN /\ stalePage \in BOOLEAN
    BY DEF ShellInv, ShellType
  <2>2. CASE k = "profile"
    BY <2>1, <2>2 DEF Notes
  <2>3. CASE k # "profile"
    BY <2>1, <2>3 DEF Notes
  <2> QED BY <2>2, <2>3
<1>2. missed \subseteq Persons
  BY DEF ShellInv, ShellType
<1>3. \/ missed' = missed
      \/ k # "profile" /\ flight[k].row # Nix /\ ~Unaware(flight[k].row) /\ missed' = missed \ {flight[k].row.who}
  BY DEF Notes
<1>4. \/ missed \subseteq missed' /\ missed' \subseteq Persons
      \/ /\ k \in Replied \ {"profile"} /\ k \notin Replied' /\ flight[k].row # Nix /\ ~Unaware(flight[k].row)
         /\ missed' = missed \ {flight[k].row.who}
  BY <1>2, <1>3 DEF Notes
<1>5. k \in Replied /\ UNCHANGED server /\ Over(k)
  BY DEF Notes
<1> QED BY <1>1, <1>4, <1>5, ClientKeeps

(* An answer that was not overtaken and is not of another session tells its reader what
   the server has. *)
LEMMA Truthful ==
  ASSUME ShellAssumption, ShellInv, NEW k \in Replied \ {"profile", "logout"}, NEW row, row = flight[k].row, flight[k].ok, k \notin overtaken,
         KeyOf(k) = cookie', UNCHANGED server, \A y \in Changers \cap Replied : y \in Replied' \/ y = k
  PROVE  /\ row \in Row /\ row.who = Owner(cookie)'
         /\ cookie' \in alive' /\ Changers \cap Replied' = {} => AsOnServer(row)'
<1>1. k \in Kinds /\ RequestFits(k) /\ flight[k] \in Request
  BY DEF ShellInv, RequestsFit, Replied, ShellType
<1>2. flight[k].row \in Row /\ flight[k].row.who = About(k, flight[k]) /\ flight[k].row.who \in Persons
  BY RowGiven DEF ShellInv
<1>3. flight[k].row.who = Owner(cookie)'
  <2>1. Owner(cookie)' = Owner(KeyOf(k))
    BY DEF Owner, server
  <2>2. CASE k \in {"login", "setup"}
    <3>1. KeyOf(k) = flight[k].session /\ About(k, flight[k]) = flight[k].who
      BY <2>2 DEF KeyOf, About
    <3>2. flight[k].session # 0 /\ sessions[flight[k].session] = flight[k].who
      BY <1>1, <2>2 DEF RequestFits
    <3> QED BY <1>2, <2>1, <3>1, <3>2 DEF Owner
  <2>3. CASE k \notin {"login", "setup"}
    BY <1>2, <2>1, <2>3 DEF KeyOf, About
  <2> QED BY <2>2, <2>3
<1>4. ASSUME cookie' \in alive', Changers \cap Replied' = {}
      PROVE  AsOnServer(row)'
  <2>1. KeyOf(k) \in alive
    BY <1>4 DEF server
  <2>2. ASSUME NEW y \in Changers, <<k, y>> \in order PROVE FALSE
    <3>1. y \in Replied /\ y # k
      BY <2>2, <1>1 DEF ShellInv, OrderFits
    <3> QED BY <1>4, <2>2, <3>1
  <2>3. flight[k].row # Nix
    BY <1>2 DEF ShellAssumption
  <2>4. AsOnServer(row)
    BY <2>1, <2>2, <2>3 DEF ShellInv, RowsAsTold, RowFits
  <2> QED BY <2>4 DEF AsOnServer, server
<1> QED BY <1>2, <1>3, <1>4

(* It knows of a game's end, or somebody asks again. *)
LEMMA TruthfulGame ==
  ASSUME ShellAssumption, ShellInv, NEW k \in Replied \ {"profile"}, NEW row, row = flight[k].row, row # Nix, Notes(k), ~behind',
         k = "me" \/ flight'["me"] # Nix \/ flight["me"] = Nix, Unaware(row)'
  PROVE  row.who \in missed' \/ flight'["me"] # Nix
<1>1. Unaware(row) /\ missed' = missed /\ k \notin overtaken
  BY DEF Notes, Unaware, server
<1>2. EndHeard(k)
  BY DEF ShellInv, GamesFit
<1> QED BY <1>1, <1>2 DEF EndHeard

(* The answer of GET /auth/me, or that there is none. *)
LEMMA MeShows ==
  ASSUME ShellAssumption, ShellInv, NEW ok \in BOOLEAN, NEW row, ok => row \in Row, screen = "setup" => ~ok,
         MeAnswered(ok, row), Over("me"), UNCHANGED server, stalePage' = stalePage
  PROVE  /\ Waits /\ "me" \notin Replied' /\ (\A x \in Kinds : x # "me" => flight'[x] = flight[x])
         /\ ClientFits' /\ SetupFits' /\ PageFits' /\ cookie' = cookie
         /\ me'.status = "success" => ok /\ me'.data = row
         /\ me'.status = "error" => ~ok
<1> DEFINE query == IF ok THEN [status |-> "success", data |-> row] ELSE [status |-> "error", data |-> me.data]
<1>1. Settles(query, store.user, screen, Without("me")) /\ cookie' = cookie /\ profile' = profile
  BY DEF MeAnswered
<1>2. /\ query.status = IF ok THEN "success" ELSE "error"
      /\ ok => query.data = row
  OBVIOUS
<1> HIDE DEF query
<1>3. query.status \in {"error", "success"} /\ (query.status = "success" => ok /\ query.data \in Row)
  BY <1>2
<1>4. /\ me'.status = "success" => me' = query /\ screen' # "login" /\ store' = [user |-> me'.data, status |-> "authenticated"]
      /\ me'.status = "error" => me' = query /\ store' = [user |-> Nix, status |-> "anonymous"]
      /\ me'.status = "pending" => /\ query.status = "error" /\ store'.status = "loading"
                                   /\ flight' = [Without("me") EXCEPT !["me"] = Sent(cookie, Nix)]
      /\ me'.status \in {"pending", "error", "success"}
      /\ \/ flight' = Without("me")
         \/ flight' = [Without("me") EXCEPT !["me"] = Sent(cookie, Nix)]
      /\ screen' \in {"password", "home", "login", screen}
      /\ screen = "setup" /\ me'.status # "success" => screen' = "setup"
  BY <1>1, <1>3, SettlesTo
<1>5. /\ flight \in [Kinds -> Request \cup {Nix}] /\ cookie \in 0..Len(sessions) /\ cookie \in Nat
      /\ "me" \in Kinds /\ "profile" \in Kinds
  BY DEF ShellInv, ShellType, Kinds
<1>6. /\ Sent(cookie, Nix) \in Request /\ Sent(cookie, Nix) # Nix /\ Sent(cookie, Nix).step = "sent"
      /\ Sent(cookie, Nix).carries = cookie
  <2>1. Nix \in Persons \cup {Nix}
    OBVIOUS
  <2> QED BY <1>5, <2>1, Signals
<1>7. /\ flight' \in [Kinds -> Request \cup {Nix}] /\ (\A x \in Kinds : x # "me" => flight'[x] = flight[x])
      /\ flight'["me"] \in {Nix, Sent(cookie, Nix)}
      /\ me'.status = "pending" => flight'["me"] = Sent(cookie, Nix)
  <2>1. CASE flight' = Without("me") /\ me'.status # "pending"
    BY <1>5, <1>6, <2>1 DEF Without
  <2>2. CASE flight' = [Without("me") EXCEPT !["me"] = Sent(cookie, Nix)]
    BY <1>5, <1>6, <2>2 DEF Without
  <2> QED BY <1>4, <2>1, <2>2
<1>8. NewCall("me", Sent(cookie, Nix))
  BY <1>5 DEF NewCall
<1>9. Waits
  BY <1>7, <1>8 DEF Waits
<1>10. "me" \notin Replied'
  BY <1>6, <1>7, "sent" # "done" DEF Replied
<1>11. ClientFits'
  <2>1. me'.status = "success" => store'.status = "authenticated" /\ store'.user = me'.data /\ me'.data \in Row
    BY <1>3, <1>4
  <2>2. me'.status = "error" => store'.status = "anonymous" /\ store'.user = Nix
    BY <1>4
  <2> QED BY <1>4, <1>6, <1>7, <2>1, <2>2 DEF ClientFits
<1>12. SetupFits'
  <2>1. CASE screen = "setup"
    <3>1. ~ok /\ cookie = 0 /\ screen' = "setup" /\ me'.status # "success"
      BY <1>2, <1>4, <2>1 DEF ShellInv, SetupFits
    <3> QED BY <1>1, <1>6, <1>7, <2>1, <3>1 DEF ShellInv, SetupFits, server, Kinds
  <2>2. CASE screen # "setup"
    BY <1>4, <1>7, <2>2 DEF ShellInv, SetupFits, server, Kinds
  <2> QED BY <2>1, <2>2
<1>13. PageFits'
  <2>1. OrderFits /\ PageFits /\ Kept /\ account' = account /\ profile'.fresh \in BOOLEAN
    BY <1>1, <1>9, WaitsKeep DEF ShellInv, PageFits, server
  <2>2. flight'["profile"] = flight["profile"]
    BY <1>5, <1>7
  <2>3. \A y \in Changers \cap Replied : y \in Replied'
    BY <1>7 DEF Changers, EditKinds, Replied
  <2>4. EditKinds \subseteq Changers
    BY DEF Changers
  <2>5. screen' = "profile" => screen = "profile"
    BY <1>4
  <2>6. /\ screen = "profile" /\ profile.data # Nix /\ ~profile.fresh => flight["profile"] # Nix
        /\ flight["profile"] # Nix => flight["profile"].who = profile.who
    BY DEF ShellInv, PageFits
  <2> QED BY <1>1, <1>5, <2>1, <2>2, <2>3, <2>4, <2>5, <2>6, PageKept
<1>14. /\ me'.status = "success" => ok /\ me'.data = row
       /\ me'.status = "error" => ~ok
  BY <1>2, <1>3, <1>4
<1> QED BY <1>1, <1>7, <1>9, <1>10, <1>11, <1>12, <1>13, <1>14

LEMMA MeArrives ==
  ASSUME ShellAssumption, ShellInv, Notes("me"), MeAnswered(flight["me"].ok, flight["me"].row)
  PROVE  ShellInv'
<1>0. PICK ok, row : ok = flight["me"].ok /\ row = flight["me"].row
  OBVIOUS
<1>1. /\ "me" \in Replied /\ "me" \in Kinds /\ ok \in BOOLEAN /\ flight["me"] \in Request /\ RequestFits("me")
      /\ "me" \in EditKinds \cup {"me", "password"}
  BY <1>0 DEF Notes, Replied, ShellInv, ShellType, RequestsFit, Request, Kinds
<1>2. ok => row \in Row
  BY <1>0, <1>1, RowGiven DEF ShellInv
<1>3. screen = "setup" => ~ok
  <2>1. screen = "setup" => flight["me"].carries = 0
    BY <1>1 DEF ShellInv, SetupFits, Replied
  <2>2. ok => flight["me"].carries # 0
    BY <1>0, <1>1 DEF RequestFits
  <2> QED BY <2>1, <2>2
<1>4. UNCHANGED server /\ Over("me") /\ stalePage' = stalePage /\ behind' = ("me" \in overtaken \/ Foreign("me"))
  BY DEF Notes
<1>5. /\ Waits /\ "me" \notin Replied' /\ (\A x \in Kinds : x # "me" => flight'[x] = flight[x])
      /\ ClientFits' /\ SetupFits' /\ PageFits' /\ cookie' = cookie
      /\ me'.status = "success" => ok /\ me'.data = row
      /\ me'.status = "error" => ~ok
  BY <1>0, <1>1, <1>2, <1>3, <1>4, MeShows
<1>6. \A y \in Changers \cap Replied : y \in Replied'
  BY <1>5 DEF Changers, EditKinds, Replied
<1>7. /\ Kept /\ ShellType' /\ RequestsFit' /\ OrderFits' /\ RowsAsTold'
      /\ (\A x \in Replied : GameFits(x))' /\ GamesInOrder' /\ (\A z \in Replied \ {"profile"} : EndHeard(z))'
  BY <1>1, <1>5, <1>6, NotesKeep DEF ShellInv, ShellType
<1>8. ~behind' => "me" \notin overtaken /\ flight["me"].carries = cookie
  BY <1>4 DEF Foreign
<1>9. MeFits'
  <2>1. ~behind' /\ me'.status = "error" => cookie' \notin alive'
    <3>1. ~ok => flight["me"].carries \notin alive
      BY <1>0, <1>1 DEF RequestFits
    <3> QED BY <1>4, <1>5, <1>8, <3>1 DEF server
  <2>2. ASSUME ~behind', me'.status = "success"
        PROVE  /\ me'.data.who = Owner(cookie)'
               /\ cookie' \in alive' /\ Changers \cap Replied' = {} => AsOnServer(me.data)'
    <3>1. KeyOf("me") = cookie'
      BY <1>5, <1>8, <2>2 DEF KeyOf
    <3>2. flight["me"].ok /\ me'.data = row /\ "me" \in Replied \ {"profile", "logout"} /\ "me" \notin overtaken
      BY <1>0, <1>1, <1>5, <1>8, <2>2
    <3>3. /\ row.who = Owner(cookie)'
          /\ cookie' \in alive' /\ Changers \cap Replied' = {} => AsOnServer(row)'
      BY <1>0, <1>4, <1>6, <3>1, <3>2, Truthful
    <3> QED BY <3>2, <3>3 DEF AsOnServer
  <2> QED BY <2>1, <2>2 DEF MeFits
<1>10. ~behind' /\ me'.status = "success" /\ Unaware(me.data)' => me'.data.who \in missed' \/ flight'["me"] # Nix
  <2>1. ASSUME ~behind', me'.status = "success", Unaware(me.data)'
        PROVE  row.who \in missed' \/ flight'["me"] # Nix
    <3>1. me'.data = row /\ row # Nix /\ "me" \in Replied \ {"profile"}
      BY <1>1, <1>2, <1>5, <2>1 DEF ShellAssumption
    <3>2. Unaware(row)'
      BY <2>1, <3>1 DEF Unaware
    <3> QED BY <1>0, <2>1, <3>1, <3>2, TruthfulGame
  <2> QED BY <1>5, <2>1
<1>11. GamesFit'
  BY <1>7, <1>10 DEF GamesFit
<1> QED BY <1>5, <1>7, <1>9, <1>11 DEF ShellInv

(* A mutation that succeeds writes the user it got into the cache. *)
LEMMA AppliesShows ==
  ASSUME ShellAssumption, ShellInv, NEW k \in Changers \cup {"login", "setup"}, flight[k].ok, Notes(k),
         NEW row, row = flight[k].row, NEW p, p # "setup", NEW requests, Applies(row, p, requests),
         requests \in [Kinds -> Request \cup {Nix}], requests[k] = Nix,
         \A x \in Kinds \ {k, "profile"} : requests[x] = flight[x],
         requests["profile"] = flight["profile"] \/ NewCall("profile", requests["profile"]),
         cookie' = IF k \in {"login", "setup"} THEN flight[k].session ELSE cookie
  PROVE  /\ Kept /\ flight'["profile"] = requests["profile"] /\ screen' \in {"password", "home", p}
         /\ \A x \in Kinds \ {k, "me", "profile"} : flight'[x] = flight[x]
         /\ ShellType' /\ ClientFits' /\ SetupFits' /\ RequestsFit' /\ OrderFits' /\ RowsAsTold' /\ MeFits' /\ GamesFit'
<1> DEFINE query == [status |-> "success", data |-> row]
<1>1. Settles(query, row, p, requests)
  BY DEF Applies
<1>2. k \in Replied /\ UNCHANGED server /\ Over(k)
  BY DEF Notes
<1>3. /\ k \in Kinds /\ k \notin {"me", "profile", "logout"} /\ {"me", "profile", "setup", "login"} \subseteq Kinds
      /\ flight[k] \in Request /\ RequestFits(k)
      /\ cookie \in 0..Len(sessions) /\ cookie \in Nat /\ Len(sessions) \in Nat
  BY <1>2 DEF ShellInv, ShellType, RequestsFit, Replied, Changers, EditKinds, Kinds
<1>4. row \in Row /\ row # Nix
  BY <1>2, <1>3, RowGiven DEF ShellInv, ShellAssumption
<1>5. query.status = "success" /\ query.data = row
  OBVIOUS
<1> HIDE DEF query
<1>6. query.status \in {"error", "success"} /\ (query.status = "success" => query.data \in Row)
  BY <1>4, <1>5
<1>7. /\ me' = query /\ me'.status = "success" /\ screen' # "login"
      /\ store' = [user |-> me'.data, status |-> "authenticated"]
      /\ \/ flight' = requests
         \/ flight' = [requests EXCEPT !["me"] = Sent(cookie, Nix)]
      /\ screen' \in {"password", "home", p}
  BY <1>1, <1>5, <1>6, SettlesTo
<1>8. Sent(cookie, Nix) \in Request /\ Sent(cookie, Nix) # Nix /\ Sent(cookie, Nix).step = "sent"
  <2>1. Nix \in Persons \cup {Nix}
    OBVIOUS
  <2> QED BY <1>3, <2>1, Signals
<1>9. /\ flight' \in [Kinds -> Request \cup {Nix}] /\ flight'[k] = Nix
      /\ \A x \in Kinds \ {k, "me", "profile"} : flight'[x] = flight[x]
      /\ flight'["profile"] = requests["profile"]
      /\ flight'["me"] \in {flight["me"], Sent(cookie, Nix)}
  <2>1. CASE flight' = requests
    BY <1>3, <2>1
  <2>2. CASE flight' = [requests EXCEPT !["me"] = Sent(cookie, Nix)]
    BY <1>3, <1>8, <2>2
  <2> QED BY <1>7, <2>1, <2>2
<1>10. NewCall("me", Sent(cookie, Nix))
  BY <1>3 DEF NewCall
<1>11. Waits
  BY <1>3, <1>9, <1>10 DEF Waits
<1>12. k \notin Replied' /\ (\A y \in Changers \cap Replied : y \in Replied' \/ y = k)
  BY <1>9 DEF Changers, EditKinds, Replied
<1>13. cookie' \in 0..Len(sessions)
  BY <1>3 DEF Request, RequestFits
<1>14. /\ Kept /\ ShellType' /\ RequestsFit' /\ OrderFits' /\ RowsAsTold'
       /\ (\A x \in Replied : GameFits(x))' /\ GamesInOrder' /\ (\A z \in Replied \ {"profile"} : EndHeard(z))'
  BY <1>3, <1>8, <1>9, <1>11, <1>12, <1>13, NotesKeep
<1>15. ClientFits'
  BY <1>4, <1>5, <1>7 DEF ClientFits
<1>16. SetupFits'
  <2>1. screen' # "setup"
    BY <1>7
  <2>2. ASSUME flight'["setup"] # Nix PROVE FALSE
    <3>1. k # "setup" /\ flight["setup"] # Nix /\ flight[k] # Nix
      BY <1>2, <1>3, <1>9, <2>2 DEF Replied
    <3>2. screen = "setup"
      BY <3>1 DEF ShellInv, SetupFits
    <3> QED BY <1>3, <3>1, <3>2 DEF ShellInv, SetupFits
  <2>3. ~setupDone' => flight'["login"] = Nix /\ sessions' = <<>>
    BY <1>2, <1>3, <1>9 DEF ShellInv, SetupFits, server
  <2> QED BY <2>1, <2>2, <2>3 DEF SetupFits
<1>17. me'.data = row /\ me'.status = "success"
  BY <1>5, <1>7
<1>18. MeFits'
  <2>1. ASSUME ~behind'
        PROVE  /\ row.who = Owner(cookie)'
               /\ cookie' \in alive' /\ Changers \cap Replied' = {} => AsOnServer(row)'
    <3>1. k \notin overtaken /\ ~Foreign(k)
      BY <1>3, <2>1 DEF Notes
    <3>2. KeyOf(k) = cookie'
      BY <3>1 DEF KeyOf, Foreign, Changers
    <3>3. k \in Replied \ {"profile", "logout"}
      BY <1>2, <1>3
    <3> QED BY <1>2, <1>12, <3>1, <3>2, <3>3, Truthful
  <2> QED BY <1>17, <2>1 DEF MeFits, AsOnServer
<1>19. GamesFit'
  <2>1. ASSUME ~behind', Unaware(me.data)'
        PROVE  row.who \in missed' \/ flight'["me"] # Nix
    <3>1. Unaware(row)' /\ k \in Replied \ {"profile"}
      BY <1>2, <1>3, <1>17, <2>1 DEF Unaware
    <3>2. k = "me" \/ flight'["me"] # Nix \/ flight["me"] = Nix
      BY <1>8, <1>9
    <3> QED BY <1>4, <2>1, <3>1, <3>2, TruthfulGame
  <2> QED BY <1>14, <1>17, <2>1 DEF GamesFit
<1> QED BY <1>7, <1>9, <1>14, <1>15, <1>16, <1>18, <1>19

LEMMA EditArrives ==
  ASSUME ShellAssumption, ShellInv, NEW k \in EditKinds, flight[k].ok, Notes(k), EditAnswered(k, flight[k])
  PROVE  ShellInv'
<1>0. PICK row : row = flight[k].row
  OBVIOUS
<1> DEFINE mine == profile.who = row.who
           asks == mine /\ screen = "profile" /\ (profile.data # Nix \/ flight["profile"] = Nix)
           requests == IF asks THEN [Without(k) EXCEPT !["profile"] = Sent(cookie, row.who)] ELSE Without(k)
<1>1. /\ Applies(row, screen, requests)
      /\ profile' = [who |-> profile.who, data |-> profile.data, fresh |-> profile.fresh /\ ~mine]
      /\ cookie' = cookie
  BY <1>0 DEF EditAnswered
<1>2. /\ k \in Replied /\ UNCHANGED server /\ Over(k) /\ stalePage' = stalePage
      /\ k \in Kinds /\ k \notin {"me", "profile", "login", "setup", "logout"} /\ k \in Changers /\ "profile" \in Kinds
  BY DEF Notes, Changers, EditKinds, Kinds
<1>3. row \in Row /\ row.who \in Persons
  BY <1>0, <1>2, RowGiven DEF ShellInv
<1>4. /\ flight \in [Kinds -> Request \cup {Nix}] /\ cookie \in 0..Len(sessions) /\ cookie \in Nat
  BY DEF ShellInv, ShellType
<1>5. Sent(cookie, row.who) \in Request /\ Sent(cookie, row.who) # Nix /\ Sent(cookie, row.who).who = row.who
  BY <1>3, <1>4, Signals
<1>6. /\ requests \in [Kinds -> Request \cup {Nix}] /\ requests[k] = Nix
      /\ \A x \in Kinds \ {k, "profile"} : requests[x] = flight[x]
      /\ requests["profile"] = IF asks THEN Sent(cookie, row.who) ELSE flight["profile"]
  BY <1>2, <1>4, <1>5 DEF Without
<1>7. NewCall("profile", Sent(cookie, row.who))
  BY <1>3, <1>4 DEF NewCall
<1>8. screen # "setup"
  BY <1>2 DEF ShellInv, SetupFits, Replied
<1> HIDE DEF requests
<1>9. /\ Kept /\ flight'["profile"] = requests["profile"] /\ screen' \in {"password", "home", screen}
      /\ \A x \in Kinds \ {k, "me", "profile"} : flight'[x] = flight[x]
      /\ ShellType' /\ ClientFits' /\ SetupFits' /\ RequestsFit' /\ OrderFits' /\ RowsAsTold' /\ MeFits' /\ GamesFit'
  BY <1>0, <1>1, <1>2, <1>6, <1>7, <1>8, AppliesShows
<1>10. PageFits'
  <2>1. OrderFits /\ PageFits /\ account' = account /\ Over(k) /\ stalePage' = stalePage
    BY <1>2 DEF ShellInv, server
  <2>2. /\ profile'.who = profile.who /\ profile'.data = profile.data /\ profile'.fresh \in BOOLEAN
        /\ profile'.fresh => profile.fresh /\ ~mine
        /\ ~mine => profile'.fresh = profile.fresh
    BY <1>1, <2>1 DEF PageFits
  <2>3. flight'["profile"] # Nix => flight'["profile"].who = profile.who
    BY <1>5, <1>6, <1>9, <2>1 DEF PageFits
  <2>4. \A y \in Changers \cap Replied : y \in Replied' \/ y = k
    BY <1>9 DEF Changers, EditKinds, Replied, Kinds
  <2>5. ASSUME NEW e \in EditKinds \cap Replied, EditOf(e, profile.who)
        PROVE  e \in Replied' \/ ~profile'.fresh
    <3>1. CASE e = k
      <4>1. mine
        BY <1>0, <2>5, <3>1 DEF EditOf
      <4> QED BY <2>2, <4>1
    <3>2. CASE e # k
      BY <2>4, <2>5, <3>2 DEF Changers
    <3> QED BY <3>1, <3>2
  <2>6. screen' = "profile" /\ profile.data # Nix /\ ~profile'.fresh => flight'["profile"] # Nix
    <3>1. CASE mine
      BY <1>5, <1>6, <1>9, <3>1
    <3>2. CASE ~mine
      BY <1>6, <1>9, <2>1, <2>2, <3>2 DEF PageFits
    <3> QED BY <3>1, <3>2
  <2> HIDE DEF mine, asks
  <2> QED BY <1>2, <1>9, <2>1, <2>2, <2>3, <2>4, <2>5, <2>6, PageKept
<1> QED BY <1>9, <1>10 DEF ShellInv

LEMMA EntryArrives ==
  ASSUME ShellAssumption, ShellInv, NEW k \in {"login", "setup", "password"}, flight[k].ok, Notes(k),
         EntryAnswered(k, flight[k])
  PROVE  ShellInv'
<1>0. PICK row : row = flight[k].row
  OBVIOUS
<1>1. /\ Applies(row, "home", Without(k)) /\ profile' = profile
      /\ cookie' = IF k \in {"login", "setup"} THEN flight[k].session ELSE cookie
  BY <1>0 DEF EntryAnswered
<1>2. /\ k \in Replied /\ UNCHANGED server /\ Over(k) /\ stalePage' = stalePage
      /\ k \in Kinds /\ k \notin {"me", "profile", "logout"} /\ k \in Changers \cup {"login", "setup"} /\ "profile" \in Kinds
  BY DEF Notes, Changers, EditKinds, Kinds
<1>3. flight \in [Kinds -> Request \cup {Nix}]
  BY DEF ShellInv, ShellType
<1>4. /\ Without(k) \in [Kinds -> Request \cup {Nix}] /\ Without(k)[k] = Nix
      /\ \A x \in Kinds \ {k, "profile"} : Without(k)[x] = flight[x]
      /\ Without(k)["profile"] = flight["profile"]
  BY <1>2, <1>3 DEF Without
<1>5. /\ Kept /\ flight'["profile"] = Without(k)["profile"] /\ screen' \in {"password", "home", "home"}
      /\ \A x \in Kinds \ {k, "me", "profile"} : flight'[x] = flight[x]
      /\ ShellType' /\ ClientFits' /\ SetupFits' /\ RequestsFit' /\ OrderFits' /\ RowsAsTold' /\ MeFits' /\ GamesFit'
  BY <1>0, <1>1, <1>2, <1>4, AppliesShows
<1>6. PageFits'
  <2>1. OrderFits /\ PageFits /\ account' = account /\ profile'.fresh \in BOOLEAN
    BY <1>1, <1>2 DEF ShellInv, server, PageFits
  <2>2. flight'["profile"] # Nix => flight'["profile"].who = profile.who
    BY <1>4, <1>5, <2>1 DEF PageFits
  <2>3. \A y \in Changers \cap Replied : y \in Replied' \/ y = k
    BY <1>5 DEF Changers, EditKinds, Replied, Kinds
  <2>4. \A e \in EditKinds \cap Replied : e \in Replied'
    BY <2>3 DEF Changers, EditKinds
  <2>5. screen' # "profile"
    BY <1>5
  <2> QED BY <1>1, <1>2, <1>5, <2>1, <2>2, <2>3, <2>4, <2>5, PageKept
<1> QED BY <1>5, <1>6 DEF ShellInv

LEMMA ProfileArrives ==
  ASSUME ShellAssumption, ShellInv, Notes("profile"), ProfileAnswered(flight["profile"])
  PROVE  ShellInv'
<1>0. PICK row : row = flight["profile"].row
  OBVIOUS
<1>1. /\ profile' = [who |-> profile.who, data |-> [nick |-> row.nick, pic |-> row.pic], fresh |-> TRUE]
      /\ flight' = Without("profile")
      /\ UNCHANGED <<cookie, me, store, screen>>
  BY <1>0 DEF ProfileAnswered
<1>2. /\ "profile" \in Replied /\ UNCHANGED server /\ Over("profile") /\ missed' = missed /\ behind' = behind
      /\ stalePage' = ("profile" \in overtaken) /\ "profile" \in Kinds
  BY DEF Notes, Kinds
<1>3. /\ flight \in [Kinds -> Request \cup {Nix}] /\ cookie \in 0..Len(sessions)
  BY DEF ShellInv, ShellType
<1>4. /\ flight' \in [Kinds -> Request \cup {Nix}] /\ flight'["profile"] = Nix
      /\ \A x \in Kinds : x # "profile" => flight'[x] = flight[x]
  BY <1>1, <1>2, <1>3 DEF Without
<1>5. Waits /\ "profile" \notin Replied' /\ flight'["me"] = flight["me"]
  BY <1>4 DEF Waits, Replied, Kinds
<1>6. Changers \cap Replied' = Changers \cap Replied
  BY <1>4 DEF Changers, EditKinds, Replied
<1>7. /\ Kept /\ ShellType' /\ RequestsFit' /\ OrderFits' /\ RowsAsTold'
      /\ (\A x \in Replied : GameFits(x))' /\ GamesInOrder' /\ (\A z \in Replied \ {"profile"} : EndHeard(z))'
  BY <1>1, <1>2, <1>3, <1>5, <1>6, NotesKeep
<1>8. ClientFits'
  BY <1>1, <1>5 DEF ShellInv, ClientFits
<1>9. SetupFits'
  BY <1>1, <1>2, <1>4 DEF ShellInv, SetupFits, server, Kinds
<1>10. MeFits'
  BY <1>1, <1>2, <1>6 DEF ShellInv, MeFits, server, Owner, AsOnServer
<1>11. PageFits'
  <2>1. flight["profile"].ok
    BY <1>2 DEF ShellInv, RequestsFit, RequestFits, Replied
  <2>2. row \in Row /\ row.who = profile.who /\ profile.who \in Persons
    <3>1. /\ row \in Row /\ row.who = About("profile", flight["profile"]) /\ row.who \in Persons
      BY <1>0, <1>2, <2>1, RowGiven DEF ShellInv
    <3>2. flight["profile"].who = profile.who
      BY <1>2 DEF ShellInv, PageFits, Replied
    <3> QED BY <3>1, <3>2 DEF About
  <2>3. /\ profile'.who = profile.who /\ profile'.data = [nick |-> row.nick, pic |-> row.pic] /\ profile'.fresh = TRUE
    BY <1>1
  <2>4. profile'.data \in Face
    BY <2>2, <2>3 DEF Row, Face
  <2>5. ASSUME ~stalePage'
        PROVE  \/ \E e \in Replied' : EditOf(e, profile.who)'
               \/ profile'.data = [nick |-> account'[profile'.who].nick, pic |-> account'[profile'.who].pic]
    <3>1. \/ \E e \in EditKinds : <<"profile", e>> \in order /\ EditOf(e, profile.who)
          \/ row.nick = account[profile.who].nick /\ row.pic = account[profile.who].pic
      BY <1>0, <1>2, <2>5 DEF ShellInv, PageFits
    <3>2. ASSUME NEW e \in EditKinds, <<"profile", e>> \in order, EditOf(e, profile.who)
          PROVE  e \in Replied' /\ EditOf(e, profile.who)'
      <4>1. e \in Replied /\ e \in Changers
        BY <3>2 DEF ShellInv, OrderFits, Changers
      <4>2. e \in Replied' /\ flight'[e] = flight[e]
        BY <1>6, <1>7, <4>1 DEF Kept
      <4> QED BY <2>3, <3>2, <4>2 DEF EditOf
    <3>3. account' = account
      BY <1>2 DEF server
    <3> QED BY <2>3, <3>1, <3>2, <3>3
  <2> QED BY <1>4, <1>5, <2>2, <2>3, <2>4, <2>5 DEF PageFits
<1>12. GamesFit'
  BY <1>1, <1>2, <1>5, <1>7 DEF ShellInv, GamesFit, server, Unaware
<1> QED BY <1>7, <1>8, <1>9, <1>10, <1>11, <1>12 DEF ShellInv

(* A form is told that its request failed; nothing else of the client changes. *)
LEMMA FormTold ==
  ASSUME ShellAssumption, ShellInv, NEW k \in Kinds \ {"me", "profile"}, flight[k] # Nix, flight' = Without(k),
         Over(k), UNCHANGED <<server, cookie, client>>, behind' \in BOOLEAN, stalePage' \in BOOLEAN,
         k \notin Replied \/ behind' \/ screen = "setup", ~behind' /\ screen # "setup" => ~behind,
         k \in EditKinds \cap Replied => stalePage', stalePage => stalePage',
         \/ missed' = missed
         \/ k \in Replied /\ flight[k].row # Nix /\ ~Unaware(flight[k].row) /\ missed' = missed \ {flight[k].row.who}
            /\ screen = "setup"
  PROVE  ShellInv'
<1>1. /\ flight \in [Kinds -> Request \cup {Nix}] /\ cookie \in 0..Len(sessions) /\ missed \subseteq Persons
      /\ "me" \in Kinds /\ "profile" \in Kinds
  BY DEF ShellInv, ShellType, Kinds
<1>2. /\ flight' \in [Kinds -> Request \cup {Nix}] /\ flight'[k] = Nix /\ \A x \in Kinds : x # k => flight'[x] = flight[x]
  BY <1>1 DEF Without
<1>3. Waits /\ k \notin Replied' /\ flight'["me"] = flight["me"] /\ flight'["profile"] = flight["profile"]
  BY <1>1, <1>2 DEF Waits, Replied
<1>4. \A y \in Replied : y \in Replied' \/ y = k
  BY <1>2 DEF Replied
<1>5. \/ missed \subseteq missed' /\ missed' \subseteq Persons
      \/ /\ k \in Replied \ {"profile"} /\ k \notin Replied' /\ flight[k].row # Nix /\ ~Unaware(flight[k].row)
         /\ missed' = missed \ {flight[k].row.who}
  BY <1>1, <1>3
<1>6. cookie' = cookie /\ me' = me /\ store' = store /\ screen' = screen /\ profile' = profile
  BY DEF client
<1>7. /\ Kept /\ ShellType' /\ RequestsFit' /\ OrderFits' /\ RowsAsTold'
      /\ (\A x \in Replied : GameFits(x))' /\ GamesInOrder' /\ (\A z \in Replied \ {"profile"} : EndHeard(z))'
  BY <1>1, <1>3, <1>4, <1>5, <1>6, ClientKeeps
<1>8. ClientFits'
  BY <1>3, <1>6 DEF ShellInv, ClientFits
<1>9. SetupFits'
  BY <1>2, <1>3, <1>6 DEF ShellInv, SetupFits, server, Kinds
<1>10. screen = "setup" => me.status # "success" /\ cookie \notin alive
  BY DEF ShellInv, SetupFits, ShellType
<1>11. MeFits'
  <2>1. CASE screen = "setup"
    BY <1>6, <1>10, <2>1 DEF MeFits, server
  <2>2. CASE screen # "setup" /\ ~behind'
    <3>1. Replied' = Replied /\ ~behind
      BY <1>4, <1>7, <2>2 DEF Kept
    <3> QED BY <1>6, <3>1 DEF ShellInv, MeFits, server, Owner, AsOnServer
  <2> QED BY <2>1, <2>2 DEF MeFits
<1>12. PageFits'
  <2>1. OrderFits /\ PageFits /\ account' = account /\ profile'.fresh \in BOOLEAN
    BY <1>6 DEF ShellInv, server, PageFits
  <2>2. /\ flight'["profile"] # Nix => flight'["profile"].who = profile.who
        /\ screen' = "profile" /\ profile.data # Nix /\ ~profile'.fresh => flight'["profile"] # Nix
    BY <1>3, <1>6, <2>1 DEF PageFits
  <2>3. \A y \in Changers \cap Replied : y \in Replied' \/ y = k
    BY <1>4
  <2>4. \A e \in EditKinds \cap Replied : e \in Replied' \/ stalePage'
    BY <1>4
  <2> QED BY <1>6, <1>7, <2>1, <2>2, <2>3, <2>4, PageKept
<1>13. GamesFit'
  <2>1. CASE screen = "setup"
    BY <1>6, <1>7, <1>10, <2>1 DEF GamesFit
  <2>2. CASE screen # "setup"
    <3>1. missed' = missed /\ (~behind' => ~behind)
      BY <2>2
    <3> QED BY <1>3, <1>6, <1>7, <3>1 DEF ShellInv, GamesFit, server, Unaware
  <2> QED BY <2>1, <2>2
<1> QED BY <1>7, <1>8, <1>9, <1>11, <1>12, <1>13 DEF ShellInv

(* An answer arrives. *)
LEMMA ArrivesKeeps ==
  ASSUME ShellAssumption, ShellInv, NEW k \in Kinds, Arrives(k)
  PROVE  ShellInv'
<1>1. Notes(k) /\ k \in Replied /\ flight[k] # Nix /\ UNCHANGED server /\ Over(k)
  BY DEF Arrives, Notes, Replied
<1>2. /\ missed' = missed
         \/ (k # "profile" /\ flight[k].row # Nix /\ ~Unaware(flight[k].row) /\ missed' = missed \ {flight[k].row.who})
      /\ behind' \in BOOLEAN /\ stalePage' \in BOOLEAN
  <2>1. behind \in BOOLEAN /\ stalePage \in BOOLEAN
    BY DEF ShellInv, ShellType
  <2>2. CASE k = "profile"
    BY <1>1, <2>1, <2>2 DEF Notes
  <2>3. CASE k # "profile"
    BY <1>1, <2>1, <2>3 DEF Notes
  <2> QED BY <2>2, <2>3
<1>3. CASE k = "me" /\ MeAnswered(flight[k].ok, flight[k].row)
  BY <1>1, <1>3, MeArrives
<1>4. CASE k = "profile" /\ ProfileAnswered(flight[k])
  BY <1>1, <1>4, ProfileArrives
<1>5. CASE k = "logout" /\ LogoutAnswered(TRUE)
  <2>1. Cleared(k) /\ cookie' = 0 /\ screen' = "login"
    BY <1>5 DEF LogoutAnswered
  <2>2. k \in Changers \cup {"logout"}
    BY <1>5
  <2> QED BY <1>1, <1>2, <2>1, <2>2, ClearedKeeps
<1>6. CASE k = "setup" /\ ~flight[k].ok /\ flight' = Without(k) /\ UNCHANGED <<cookie, client>>
  <2>1. screen = "setup"
    BY <1>1, <1>6 DEF ShellInv, SetupFits
  <2>2. k \in Kinds \ {"me", "profile"} /\ k \notin EditKinds /\ stalePage' = stalePage
    BY <1>1, <1>6 DEF EditKinds, Notes
  <2> QED BY <1>1, <1>2, <1>6, <2>1, <2>2, FormTold
<1>7. CASE Redirects(k) /\ ~flight[k].ok /\ Unauthorized(k)
  <2>1. Cleared(k) /\ cookie' = cookie /\ screen' = "login"
    BY <1>7 DEF Unauthorized
  <2>2. k \in Changers \cup {"logout"}
    BY <1>7 DEF Redirects, Changers
  <2> QED BY <1>1, <1>2, <2>1, <2>2, ClearedKeeps
<1>8. CASE k \in EditKinds /\ flight[k].ok /\ EditAnswered(k, flight[k])
  BY <1>1, <1>8, EditArrives
<1>9. CASE k \in {"login", "setup", "password"} /\ flight[k].ok /\ EntryAnswered(k, flight[k])
  BY <1>1, <1>9, EntryArrives
<1> QED BY <1>3, <1>4, <1>5, <1>6, <1>7, <1>8, <1>9 DEF Arrives

(* A request is lost, or its answer. *)
LEMMA BreaksKeeps ==
  ASSUME ShellAssumption, ShellInv, NEW k \in Kinds, Breaks(k)
  PROVE  ShellInv'
<1>1. /\ flight[k] # Nix /\ k # "profile" /\ Over(k) /\ UNCHANGED server
      /\ behind' = (behind \/ k = "me" \/ flight[k].step = "done")
      /\ stalePage' = (stalePage \/ (k \in EditKinds /\ flight[k].step = "done"))
      /\ missed' = IF k = "me" THEN missed \cup (Persons \ playing) ELSE missed
  BY DEF Breaks
<1>2. behind' \in BOOLEAN /\ stalePage' \in BOOLEAN /\ missed \subseteq Persons /\ cookie \in 0..Len(sessions)
  BY <1>1 DEF ShellInv, ShellType
<1>3. CASE k = "me" /\ MeAnswered(FALSE, Nix)
  <2>1. stalePage' = stalePage /\ behind' = TRUE
    BY <1>1, <1>2, <1>3 DEF EditKinds, ShellInv, ShellType
  <2>2. /\ Waits /\ "me" \notin Replied' /\ (\A x \in Kinds : x # "me" => flight'[x] = flight[x])
        /\ ClientFits' /\ SetupFits' /\ PageFits' /\ cookie' = cookie
    BY <1>1, <1>3, <2>1, MeShows
  <2>3. missed \subseteq missed' /\ missed' \subseteq Persons /\ Persons \ playing \subseteq missed'
    BY <1>1, <1>2, <1>3
  <2>4. \A y \in Changers \cap Replied : y \in Replied'
    BY <2>2 DEF Changers, EditKinds, Replied
  <2>5. /\ Kept /\ ShellType' /\ RequestsFit' /\ OrderFits' /\ RowsAsTold'
        /\ (\A x \in Replied : GameFits(x))' /\ GamesInOrder' /\ (\A z \in Replied \ {"profile"} : EndHeard(z))'
    BY <1>1, <1>2, <1>3, <2>2, <2>3, <2>4, ClientKeeps
  <2>6. MeFits' /\ GamesFit'
    BY <2>1, <2>5 DEF MeFits, GamesFit
  <2> QED BY <2>2, <2>5, <2>6 DEF ShellInv
<1>4. CASE k = "logout" /\ LogoutAnswered(FALSE)
  <2>1. Cleared(k) /\ cookie' = cookie /\ screen' = "login" /\ missed' = missed
    BY <1>1, <1>4 DEF LogoutAnswered
  <2> QED BY <1>1, <1>2, <1>4, <2>1, ClearedKeeps
<1>5. CASE k \notin {"me", "logout"} /\ flight' = Without(k) /\ UNCHANGED <<cookie, client>>
  <2>1. /\ k \in Kinds \ {"me", "profile"} /\ missed' = missed
        /\ (k \notin Replied \/ behind') /\ (~behind' => ~behind)
        /\ (k \in EditKinds \cap Replied => stalePage') /\ (stalePage => stalePage')
    BY <1>1, <1>5 DEF Replied
  <2>2. ~behind' => ~behind
    BY <1>1
  <2> QED BY <1>1, <1>2, <1>5, <2>1, <2>2, FormTold
<1> QED BY <1>3, <1>4, <1>5 DEF Breaks

LEMMA LobbyRefusedKeeps ==
  ASSUME ShellAssumption, ShellInv, LobbyRefused
  PROVE  ShellInv'
<1>1. /\ screen = "home" /\ SignedIn /\ Settles(me, Nix, "login", flight)
      /\ UNCHANGED <<server, cookie, profile, order, overtaken, history, trips>>
  BY DEF LobbyRefused
<1>2. me.status = "success" /\ me.data \in Row
  BY <1>1, SignedInIs DEF ShellInv
<1>3. /\ me' = me /\ screen' # "login" /\ store' = [user |-> me'.data, status |-> "authenticated"]
      /\ screen' \in {"password", "home", "login", "login"}
      /\ \/ flight' = flight
         \/ flight' = [flight EXCEPT !["me"] = Sent(cookie, Nix)] /\ flight["me"] = Nix
  BY <1>1, <1>2, SettlesTo
<1>4. /\ flight \in [Kinds -> Request \cup {Nix}] /\ cookie \in 0..Len(sessions) /\ cookie \in Nat
      /\ "me" \in Kinds /\ "profile" \in Kinds /\ "login" \in Kinds /\ "setup" \in Kinds
  BY DEF ShellInv, ShellType, Kinds
<1>5. Sent(cookie, Nix) \in Request /\ Sent(cookie, Nix) # Nix /\ Sent(cookie, Nix).step = "sent"
  <2>1. Nix \in Persons \cup {Nix}
    OBVIOUS
  <2> QED BY <1>4, <2>1, Signals
<1>6. /\ flight' \in [Kinds -> Request \cup {Nix}] /\ \A x \in Kinds : x # "me" => flight'[x] = flight[x]
      /\ flight'["me"] = flight["me"] \/ (flight'["me"] = Sent(cookie, Nix) /\ flight["me"] = Nix)
  <2>1. CASE flight' = flight
    BY <1>4, <2>1
  <2>2. CASE flight' = [flight EXCEPT !["me"] = Sent(cookie, Nix)] /\ flight["me"] = Nix
    BY <1>4, <1>5, <2>2
  <2> QED BY <1>3, <2>1, <2>2
<1>7. NewCall("me", Sent(cookie, Nix))
  BY <1>4 DEF NewCall
<1>8. Waits
  BY <1>6, <1>7 DEF Waits
<1>9. Replied' = Replied
  BY <1>5, <1>6, "sent" # "done" DEF Replied
<1>10. UNCHANGED server /\ missed' = missed /\ behind' = behind /\ stalePage' = stalePage
  BY <1>1 DEF history
<1>11. Over("profile")
  BY <1>1, <1>9, OverNothing DEF ShellInv
<1>12. missed \subseteq missed' /\ missed' \subseteq Persons /\ behind' \in BOOLEAN /\ stalePage' \in BOOLEAN
  BY <1>10 DEF ShellInv, ShellType
<1>13. flight["me"] = Nix \/ flight'["me"] = flight["me"]
  BY <1>6
<1>14. /\ Kept /\ ShellType' /\ RequestsFit' /\ OrderFits' /\ RowsAsTold'
       /\ (\A x \in Replied : GameFits(x))' /\ GamesInOrder' /\ (\A z \in Replied \ {"profile"} : EndHeard(z))'
  BY <1>1, <1>4, <1>8, <1>9, <1>10, <1>11, <1>12, <1>13, ClientKeeps
<1>15. ClientFits'
  <2>1. me'.status = "success" /\ me'.data \in Row /\ store'.status = "authenticated" /\ store'.user = me'.data
    BY <1>2, <1>3
  <2> QED BY <1>3, <2>1 DEF ClientFits
<1>16. SetupFits'
  BY <1>1, <1>3, <1>4, <1>6, <1>10 DEF ShellInv, SetupFits, server
<1>17. MeFits'
  BY <1>1, <1>3, <1>9, <1>10 DEF ShellInv, MeFits, server, Owner, AsOnServer
<1>18. PageFits'
  <2>1. OrderFits /\ PageFits /\ account' = account /\ profile' = profile /\ profile'.fresh \in BOOLEAN
    BY <1>1 DEF ShellInv, server, PageFits
  <2>2. flight'["profile"] # Nix => flight'["profile"].who = profile.who
    BY <1>4, <1>6, <2>1 DEF PageFits
  <2>3. screen' # "profile"
    BY <1>3
  <2> QED BY <1>4, <1>9, <1>10, <1>11, <1>14, <2>1, <2>2, <2>3, PageKept
<1>19. GamesFit'
  BY <1>3, <1>5, <1>6, <1>10, <1>14 DEF ShellInv, GamesFit, server, Unaware
<1> QED BY <1>14, <1>15, <1>16, <1>17, <1>18, <1>19 DEF ShellInv

LEMMA ReloadKeeps ==
  ASSUME ShellAssumption, ShellInv, Reload
  PROVE  ShellInv'
<1>1. /\ me' = NotYet /\ store' = [user |-> Nix, status |-> "loading"]
      /\ screen' \in IF setupDone THEN {"home"} ELSE {"home", "setup"}
      /\ profile' = [who |-> Nix, data |-> Nix, fresh |-> FALSE]
      /\ flight' = [k \in Kinds |-> IF k = "me" THEN Sent(cookie, Nix) ELSE Nix]
      /\ order' = {} /\ overtaken' = {} /\ behind' = FALSE /\ stalePage' = FALSE /\ missed' = {}
      /\ UNCHANGED <<account, playing, sessions, alive, setupDone>> /\ cookie' = cookie
  BY DEF Reload, server
<1>2. cookie \in 0..Len(sessions) /\ cookie \in Nat /\ Len(sessions) \in Nat /\ "me" \in Kinds
  BY DEF ShellInv, ShellType, Kinds
<1>3. /\ Sent(cookie, Nix) \in Request /\ Sent(cookie, Nix) # Nix /\ Sent(cookie, Nix).step = "sent"
      /\ Sent(cookie, Nix).carries = cookie /\ Sent(cookie, Nix).session = 0
  <2>1. Nix \in Persons \cup {Nix}
    OBVIOUS
  <2> QED BY <1>2, <2>1, Signals
<1>4. Replied' = {} /\ flight'["me"] = Sent(cookie, Nix) /\ (\A x \in Kinds : x # "me" => flight'[x] = Nix)
      /\ flight' \in [Kinds -> Request \cup {Nix}]
  BY <1>1, <1>2, <1>3, "sent" # "done" DEF Replied
<1>5. me'.status = "pending" /\ profile'.data = Nix /\ profile'.fresh = FALSE
  BY <1>1, Signals
<1>6. ShellType'
  BY <1>1, <1>4 DEF ShellInv, ShellType
<1>7. ClientFits'
  BY <1>1, <1>3, <1>4, <1>5 DEF ClientFits
<1>8. SetupFits'
  <2>1. screen' = "setup" => cookie = 0
    BY <1>1, <1>2 DEF ShellInv, SetupFits
  <2>2. "login" \in Kinds /\ "setup" \in Kinds
    BY DEF Kinds
  <2> QED BY <1>1, <1>3, <1>4, <1>5, <2>1, <2>2 DEF ShellInv, SetupFits
<1>9. RequestsFit'
  BY <1>1, <1>2, <1>3, <1>4 DEF RequestsFit, RequestFits
<1>10. OrderFits' /\ RowsAsTold' /\ MeFits'
  BY <1>1, <1>4, <1>5 DEF OrderFits, RowsAsTold, MeFits
<1>11. PageFits'
  BY <1>4, <1>5 DEF PageFits, Kinds
<1>12. GamesFit'
  BY <1>1, <1>4, <1>5 DEF GamesFit, GamesInOrder
<1> QED BY <1>6, <1>7, <1>8, <1>9, <1>10, <1>11, <1>12 DEF ShellInv

(* game:over_public. *)
LEMMA GameIsOverKeeps ==
  ASSUME ShellAssumption, ShellInv, NEW p \in Persons, GameIsOver(p)
  PROVE  ShellInv'
<1> DEFINE listens == screen = "home" /\ SignedIn
<1>1. /\ playing' = playing \ {p} /\ StillOrdered
      /\ flight' = IF listens THEN [flight EXCEPT !["me"] = Sent(cookie, Nix)] ELSE flight
      /\ missed' = IF listens THEN missed ELSE missed \cup {p}
      /\ UNCHANGED <<account, sessions, alive, setupDone, cookie, client, behind, stalePage>>
  BY DEF GameIsOver
<1> HIDE DEF listens
<1>2. /\ flight \in [Kinds -> Request \cup {Nix}] /\ cookie \in 0..Len(sessions) /\ cookie \in Nat
      /\ "me" \in Kinds /\ "profile" \in Kinds
  BY DEF ShellInv, ShellType, Kinds
<1>3. Sent(cookie, Nix) \in Request /\ Sent(cookie, Nix) # Nix /\ Sent(cookie, Nix).step = "sent"
      /\ Sent(cookie, Nix).carries = cookie
  <2>1. Nix \in Persons \cup {Nix}
    OBVIOUS
  <2> QED BY <1>2, <2>1, Signals
<1>4. /\ flight' \in [Kinds -> Request \cup {Nix}] /\ \A x \in Kinds : x # "me" => flight'[x] = flight[x]
      /\ listens => flight'["me"] = Sent(cookie, Nix)
      /\ ~listens => flight'["me"] = flight["me"]
  <2>1. CASE listens
    BY <1>1, <1>2, <1>3, <2>1
  <2>2. CASE ~listens
    BY <1>1, <1>2, <2>2
  <2> QED BY <2>1, <2>2
<1>5. NewCall("me", Sent(cookie, Nix))
  BY <1>2 DEF NewCall
<1>6. Waits
  BY <1>4, <1>5 DEF Waits
<1>7. Kept /\ Over("profile")
  BY <1>1, <1>6, WaitsKeep, Wanted DEF ShellInv
<1>8. Changers \cap Replied' = Changers \cap Replied
  BY <1>4 DEF Changers, EditKinds, Replied
<1>9. cookie' = cookie /\ me' = me /\ store' = store /\ screen' = screen /\ profile' = profile
  BY <1>1 DEF client
<1>10. ShellType'
  BY <1>1, <1>4 DEF ShellInv, ShellType
<1>11. RequestsFit' /\ OrderFits' /\ RowsAsTold'
  BY <1>1, <1>2, <1>6, <1>7, <1>8, WaitsRequests, OverOrders, OverRows DEF ShellInv
<1>12. ClientFits'
  BY <1>3, <1>4, <1>9 DEF ShellInv, ClientFits
<1>13. SetupFits'
  <2>1. listens => screen # "setup"
    BY DEF listens
  <2> QED BY <1>1, <1>4, <1>9, <2>1 DEF ShellInv, SetupFits, Kinds
<1>14. MeFits'
  BY <1>1, <1>8, <1>9 DEF ShellInv, MeFits, Owner, AsOnServer
<1>15. PageFits'
  <2>1. OrderFits /\ PageFits /\ account' = account /\ stalePage' = stalePage /\ profile'.fresh \in BOOLEAN
    BY <1>1, <1>9 DEF ShellInv, PageFits
  <2>2. flight'["profile"] = flight["profile"]
    BY <1>2, <1>4
  <2>3. /\ flight'["profile"] # Nix => flight'["profile"].who = profile.who
        /\ screen' = "profile" /\ profile.data # Nix /\ ~profile'.fresh => flight'["profile"] # Nix
    BY <1>9, <2>1, <2>2 DEF PageFits
  <2>4. EditKinds \subseteq Changers /\ (\A y \in Changers \cap Replied : y \in Replied')
    BY <1>8 DEF Changers
  <2> QED BY <1>2, <1>7, <1>9, <2>1, <2>3, <2>4, PageKept
<1>16. GamesFit'
  <2>1. ASSUME NEW x \in Replied' PROVE GameFits(x)'
    <3>1. x \in Replied /\ flight'[x] = flight[x] /\ GameFits(x)
      BY <1>7 DEF Kept, ShellInv, GamesFit
    <3> QED BY <1>1, <3>1 DEF GameFits
  <2>2. GamesInOrder'
    <3>1. ASSUME NEW x \in Replied', NEW y \in Replied', <<x, y>> \in order',
                 flight'[x].row # Nix, flight'[y].row # Nix, flight'[x].row.who = flight'[y].row.who, flight'[y].row.game
          PROVE  flight'[x].row.game
      <4>1. x \in Replied /\ flight'[x] = flight[x] /\ y \in Replied /\ flight'[y] = flight[y]
        BY <1>7 DEF Kept
      <4>2. <<x, y>> \in order
        BY <1>7, <3>1 DEF Over
      <4> QED BY <3>1, <4>1, <4>2 DEF ShellInv, GamesFit, GamesInOrder
    <3> QED BY <3>1 DEF GamesInOrder
  <2>3. ASSUME NEW z \in Replied' \ {"profile"}, flight'[z].row # Nix, Unaware(flight[z].row)'
        PROVE  \/ flight'[z].row.who \in missed' \/ z \in overtaken'
               \/ z # "me" /\ flight'["me"] # Nix /\ (flight'["me"].step = "sent" \/ <<z, "me">> \in order')
    <3>1. z \in Replied \ {"profile"} /\ flight'[z] = flight[z] /\ z \in Kinds
      BY <1>7, <2>3 DEF Kept, Replied
    <3>2. CASE listens
      <4>1. z # "me"
        BY <1>3, <1>4, <2>3, <3>2, "sent" # "done" DEF Replied
      <4> QED BY <1>3, <1>4, <3>2, <4>1
    <3>3. CASE ~listens /\ flight[z].row.who = p
      BY <1>1, <3>1, <3>3
    <3>4. CASE ~listens /\ flight[z].row.who # p
      <4>1. Unaware(flight[z].row)
        BY <1>1, <2>3, <3>1, <3>4 DEF Unaware
      <4>2. EndHeard(z)
        BY <3>1 DEF ShellInv, GamesFit
      <4>3. flight' = flight /\ missed \subseteq missed'
        BY <1>1, <3>4
      <4>4. Replied' = Replied
        BY <4>3 DEF Replied
      <4>5. order' = order /\ overtaken' = overtaken
        BY <1>1, <4>4 DEF StillOrdered, ShellInv, OrderFits
      <4> QED BY <2>3, <4>1, <4>2, <4>3, <4>5 DEF EndHeard
    <3> QED BY <3>2, <3>3, <3>4
  <2>4. ASSUME NEW z \in Replied' \ {"profile"} PROVE EndHeard(z)'
    BY <2>3 DEF EndHeard
  <2>5. ASSUME me'.status = "success", ~behind', Unaware(me.data)'
        PROVE  me'.data.who \in missed' \/ flight'["me"] # Nix
    <3>1. CASE listens
      BY <1>3, <1>4, <3>1
    <3>2. CASE ~listens /\ me.data.who = p
      BY <1>1, <1>9, <3>2
    <3>3. CASE ~listens /\ me.data.who # p
      <4>1. Unaware(me.data)
        BY <1>1, <1>9, <2>5, <3>3 DEF Unaware
      <4> QED BY <1>1, <1>9, <2>5, <3>3, <4>1 DEF ShellInv, GamesFit
    <3> QED BY <3>1, <3>2, <3>3
  <2> QED BY <2>1, <2>2, <2>4, <2>5 DEF GamesFit
<1> QED BY <1>10, <1>11, <1>12, <1>13, <1>14, <1>15, <1>16 DEF ShellInv

(* A session that ends elsewhere, with what changes of its owner's account. *)
LEMMA EndsElsewhere ==
  ASSUME ShellAssumption, ShellInv, NEW who \in Persons \cup {Nix},
         alive' \subseteq alive, \A n \in alive' : sessions[n] # who,
         account' \in [Persons -> AccountRow], \A q \in Persons : q # who => account'[q] = account[q],
         \A q \in Persons : account'[q].nick = account[q].nick /\ account'[q].pic = account[q].pic,
         UNCHANGED <<playing, sessions, setupDone, cookie, client, wire, history>>
  PROVE  ShellInv'
<1>1. UNCHANGED <<playing, sessions, setupDone, cookie, me, store, screen, profile, flight, order, overtaken,
                  behind, stalePage, missed>>
  BY DEF client, wire, history
<1>2. ShellType'
  BY <1>1 DEF ShellInv, ShellType
<1>3. ClientFits' /\ SetupFits'
  BY <1>1 DEF ShellInv, ClientFits, SetupFits
<1>4. RequestsFit'
  BY <1>1 DEF ShellInv, RequestsFit, RequestFits, Replied, About, Owner
<1>5. OrderFits' /\ GamesFit'
  BY <1>1 DEF ShellInv, OrderFits, Replied, GamesFit, GameFits, GamesInOrder, EndHeard, Unaware
<1>6. RowsAsTold'
  <2>1. ASSUME NEW x \in Replied \ {"profile"}, flight[x].ok, flight[x].row # Nix, x \notin overtaken, KeyOf(x) \in alive',
               \A y \in Changers : <<x, y>> \notin order
        PROVE  AsOnServer(flight[x].row)'
    <3>1. flight[x].row.who = sessions[KeyOf(x)] /\ flight[x].row.who # who
      BY <2>1, RowOwner DEF ShellInv
    <3>2. AsOnServer(flight[x].row)
      BY <2>1 DEF ShellInv, RowsAsTold, RowFits
    <3>3. x \in Kinds /\ flight[x].row.who \in Persons
      BY <2>1 DEF ShellInv, ShellType, Replied, Request, Row
    <3> QED BY <1>1, <3>1, <3>2, <3>3 DEF AsOnServer
  <2>2. ASSUME NEW x \in Replied' \ {"profile"} PROVE RowFits(x)'
    BY <1>1, <2>1 DEF RowFits, KeyOf, Replied
  <2> QED BY <2>2 DEF RowsAsTold
<1>7. MeFits'
  <2>1. ASSUME ~behind, me.status = "success", cookie \in alive', Changers \cap Replied = {}
        PROVE  AsOnServer(me.data)'
    <3>1. AsOnServer(me.data) /\ me.data.who = Owner(cookie) /\ me.data \in Row
      BY <2>1 DEF ShellInv, MeFits, ClientFits
    <3>2. me.data.who # who /\ me.data.who \in Persons
      BY <2>1, <3>1 DEF Owner, ShellInv, ShellType, Row
    <3> QED BY <1>1, <3>1, <3>2 DEF AsOnServer
  <2> QED BY <1>1, <2>1 DEF ShellInv, MeFits, Owner, Replied
<1>8. PageFits'
  <2>1. "profile" \in Replied => profile.who \in Persons
    BY DEF ShellInv, PageFits, RequestsFit, RequestFits, Replied
  <2> QED BY <1>1, <2>1 DEF ShellInv, PageFits, EditOf, Replied
<1> QED BY <1>2, <1>3, <1>4, <1>5, <1>6, <1>7, <1>8 DEF ShellInv

LEMMA SessionEndsKeeps ==
  ASSUME ShellAssumption, ShellInv, NEW n \in alive, SessionEnds(n)
  PROVE  ShellInv'
<1>1. /\ alive' \subseteq alive /\ account' = account
      /\ UNCHANGED <<playing, sessions, setupDone, cookie, client, wire, history>>
  BY DEF SessionEnds
<1>2. account \in [Persons -> AccountRow]
  BY DEF ShellInv, ShellType
<1>3. \A m \in alive' : sessions[m] # Nix
  BY <1>1 DEF ShellInv, ShellType, ShellAssumption
<1>4. Nix \in Persons \cup {Nix}
  OBVIOUS
<1> QED BY <1>1, <1>2, <1>3, <1>4, EndsElsewhere

LEMMA PasswordResetKeeps ==
  ASSUME ShellAssumption, ShellInv, NEW p \in Persons, PasswordReset(p)
  PROVE  ShellInv'
<1>1. /\ account' = [account EXCEPT ![p].must = TRUE]
      /\ alive' = {n \in alive : sessions[n] # p}
      /\ UNCHANGED <<playing, sessions, setupDone, cookie, client, wire, history>>
  BY DEF PasswordReset
<1>2. account \in [Persons -> [nick : Nat, pic : Nat, must : BOOLEAN]]
  BY DEF ShellInv, ShellType, AccountRow
<1>3. /\ account' \in [Persons -> [nick : Nat, pic : Nat, must : BOOLEAN]]
      /\ \A q \in Persons : q # p => account'[q] = account[q]
      /\ \A q \in Persons : account'[q].nick = account[q].nick /\ account'[q].pic = account[q].pic
  BY <1>1, <1>2
<1>4. account' \in [Persons -> AccountRow]
  BY <1>3 DEF AccountRow
<1> QED BY <1>1, <1>3, <1>4, EndsElsewhere

(* What carrying a request out does to the server. *)
LEMMA RequestServed ==
  ASSUME ShellAssumption, ShellInv, NEW k \in Kinds, NEW r, r = flight[k], r # Nix,
         IF Allowed(k, r) THEN Does(k, r) ELSE UNCHANGED server
  PROVE  /\ playing' = playing /\ sessions' \in Seq(Persons) /\ Len(sessions) <= Len(sessions')
         /\ \A i \in 1..Len(sessions) : sessions'[i] = sessions[i]
         /\ alive' \subseteq 1..Len(sessions') /\ \A n \in alive' : n \in alive \/ n = Len(sessions) + 1
         /\ setupDone' \in BOOLEAN /\ (~setupDone' => ~setupDone /\ sessions' = sessions)
         /\ account' \in [Persons -> AccountRow]
         /\ account' = account \/ (k \in Changers /\ r.carries \in alive /\ Allowed(k, r))
         /\ \A q \in Persons : account'[q] = account[q] \/ q = Owner(r.carries)
         /\ k \notin EditKinds => \A q \in Persons : account'[q].nick = account[q].nick /\ account'[q].pic = account[q].pic
         /\ k \in {"login", "setup"} /\ Allowed(k, r) =>
              Len(sessions') # 0 /\ sessions'[Len(sessions')] = r.who
         /\ ~Allowed(k, r) => alive' = alive
<1>1. /\ account \in [Persons -> [nick : Nat, pic : Nat, must : BOOLEAN]] /\ playing \subseteq Persons
      /\ setupDone \in BOOLEAN /\ sessions \in Seq(Persons) /\ alive \subseteq 1..Len(sessions) /\ Len(sessions) \in Nat
  BY DEF ShellInv, ShellType, AccountRow
<1>2. k \in {"login", "setup"} => r.who \in Persons
  BY DEF ShellInv, RequestsFit, RequestFits
<1>3. CASE ~Allowed(k, r)
  <2>1. UNCHANGED <<account, playing, sessions, alive, setupDone>>
    BY <1>3 DEF server
  <2> QED BY <1>1, <1>3, <2>1 DEF AccountRow
<1>4. CASE Allowed(k, r) /\ k \in {"me", "profile"} /\ UNCHANGED server
  <2>1. UNCHANGED <<account, playing, sessions, alive, setupDone>>
    BY <1>4 DEF server
  <2> QED BY <1>1, <1>4, <2>1 DEF AccountRow
<1>5. CASE /\ Allowed(k, r) /\ k \in {"login", "setup"} /\ Opened(r.who) /\ UNCHANGED <<account, playing>>
           /\ setupDone' = TRUE \/ (k = "login" /\ setupDone' = setupDone)
  <2>1. sessions' = Append(sessions, r.who) /\ alive' = alive \cup {Len(sessions) + 1}
    BY <1>5 DEF Opened
  <2>2. /\ sessions' \in Seq(Persons) /\ Len(sessions') = Len(sessions) + 1
        /\ \A i \in 1..Len(sessions) : sessions'[i] = sessions[i]
        /\ sessions'[Len(sessions')] = r.who
    BY <1>1, <1>2, <1>5, <2>1
  <2>3. setupDone' = TRUE
    <3>1. k = "login" => setupDone
      BY DEF ShellInv, SetupFits
    <3> QED BY <1>1, <1>5, <3>1
  <2>4. alive' \subseteq 1..Len(sessions') /\ \A n \in alive' : n \in alive \/ n = Len(sessions) + 1
    <3>1. Len(sessions) + 1 \in 1..Len(sessions')
      BY <1>1, <2>2
    <3>2. 1..Len(sessions) \subseteq 1..Len(sessions')
      BY <1>1, <2>2
    <3> QED BY <1>1, <2>1, <3>1, <3>2
  <2> QED BY <1>1, <1>5, <2>2, <2>3, <2>4 DEF AccountRow
<1>6. CASE Allowed(k, r) /\ k = "logout" /\ alive' = alive \ {r.carries} /\ UNCHANGED <<account, playing, sessions, setupDone>>
  <2>1. alive' \subseteq alive
    BY <1>6
  <2>2. k \notin {"login", "setup"}
    BY <1>6
  <2>3. UNCHANGED <<account, playing, sessions, setupDone>> /\ Allowed(k, r)
    BY <1>6
  <2> QED BY <1>1, <2>1, <2>2, <2>3 DEF AccountRow
<1>7. ASSUME Allowed(k, r), k \in Changers
      PROVE  r.carries \in alive /\ Owner(r.carries) \in Persons
  <2>1. r.carries \in alive
    BY <1>7 DEF Allowed, Changers, EditKinds
  <2>2. r.carries \in 1..Len(sessions)
    BY <1>1, <2>1
  <2> QED BY <1>1, <2>1, <2>2 DEF Owner
<1>8. CASE /\ Allowed(k, r) /\ k = "password"
           /\ account' = [account EXCEPT ![Owner(r.carries)].must = FALSE]
           /\ alive' = {s \in alive : s = r.carries \/ Owner(s) # Owner(r.carries)}
           /\ UNCHANGED <<playing, sessions, setupDone>>
  <2>1. k \in Changers /\ r.carries \in alive /\ Owner(r.carries) \in Persons
    BY <1>7, <1>8 DEF Changers
  <2>2. /\ account' \in [Persons -> [nick : Nat, pic : Nat, must : BOOLEAN]]
        /\ \A q \in Persons : account'[q] = account[q] \/ q = Owner(r.carries)
        /\ \A q \in Persons : account'[q].nick = account[q].nick /\ account'[q].pic = account[q].pic
    BY <1>1, <1>8, <2>1
  <2> QED BY <1>1, <1>8, <2>1, <2>2 DEF ShellInv, SetupFits, AccountRow
<1>9. CASE /\ Allowed(k, r) /\ k \in EditKinds
           /\ \E a \in [nick : Nat, pic : Nat, must : BOOLEAN] : account' = [account EXCEPT ![Owner(r.carries)] = a]
           /\ UNCHANGED <<playing, sessions, alive, setupDone>>
  <2>1. k \in Changers /\ r.carries \in alive /\ Owner(r.carries) \in Persons /\ k \notin {"login", "setup"}
    BY <1>7, <1>9 DEF Changers, EditKinds
  <2>2. PICK a \in [nick : Nat, pic : Nat, must : BOOLEAN] : account' = [account EXCEPT ![Owner(r.carries)] = a]
    BY <1>9
  <2>3. /\ account' \in [Persons -> [nick : Nat, pic : Nat, must : BOOLEAN]]
        /\ \A q \in Persons : account'[q] = account[q] \/ q = Owner(r.carries)
    BY <1>1, <2>1, <2>2
  <2>4. UNCHANGED <<playing, sessions, alive, setupDone>>
    BY <1>9
  <2> QED BY <1>1, <1>9, <2>1, <2>3, <2>4 DEF AccountRow
<1>10. CASE Allowed(k, r)
  <2>1. Does(k, r)
    BY <1>10
  <2>2. k = "password" \/ k = "nick" \/ k = "pic" \/ k = "logout" \/ k \in {"login", "setup"} \/ k \in {"me", "profile"}
    BY DEF Kinds, EditKinds
  <2>3. CASE k = "password"
    BY <1>8, <1>10, <2>1, <2>3 DEF Does
  <2>4. CASE k = "nick"
    <3>0. /\ account' = [account EXCEPT ![Owner(r.carries)].nick = @ + 1]
          /\ UNCHANGED <<playing, sessions, alive, setupDone>>
      BY <2>1, <2>4, Zenon DEF Does
    <3> DEFINE a == [account[Owner(r.carries)] EXCEPT !.nick = account[Owner(r.carries)].nick + 1]
    <3>1. account' = [account EXCEPT ![Owner(r.carries)] = a] /\ UNCHANGED <<playing, sessions, alive, setupDone>>
      BY <3>0
    <3>2. k \in EditKinds /\ k \in Changers
      BY <2>4 DEF EditKinds, Changers
    <3>3. account[Owner(r.carries)] \in [nick : Nat, pic : Nat, must : BOOLEAN]
      BY <1>1, <1>7, <1>10, <3>2
    <3>4. a \in [nick : Nat, pic : Nat, must : BOOLEAN]
      BY <3>3
    <3> HIDE DEF a
    <3> QED BY <1>9, <1>10, <3>1, <3>2, <3>4
  <2>5. CASE k = "pic"
    <3>0. /\ account' = [account EXCEPT ![Owner(r.carries)].pic = @ + 1]
          /\ UNCHANGED <<playing, sessions, alive, setupDone>>
      BY <2>1, <2>5, Zenon DEF Does
    <3> DEFINE a == [account[Owner(r.carries)] EXCEPT !.pic = account[Owner(r.carries)].pic + 1]
    <3>1. account' = [account EXCEPT ![Owner(r.carries)] = a] /\ UNCHANGED <<playing, sessions, alive, setupDone>>
      BY <3>0
    <3>2. k \in EditKinds /\ k \in Changers
      BY <2>5 DEF EditKinds, Changers
    <3>3. account[Owner(r.carries)] \in [nick : Nat, pic : Nat, must : BOOLEAN]
      BY <1>1, <1>7, <1>10, <3>2
    <3>4. a \in [nick : Nat, pic : Nat, must : BOOLEAN]
      BY <3>3
    <3> HIDE DEF a
    <3> QED BY <1>9, <1>10, <3>1, <3>2, <3>4
  <2>6. CASE k = "logout"
    BY <1>6, <1>10, <2>1, <2>6 DEF Does
  <2>7. CASE k \in {"login", "setup"}
    BY <1>5, <1>10, <2>1, <2>7 DEF Does
  <2>8. CASE k \in {"me", "profile"}
    BY <1>4, <1>10, <2>1, <2>8 DEF Does
  <2> QED BY <2>2, <2>3, <2>4, <2>5, <2>6, <2>7, <2>8
<1> QED BY <1>3, <1>10

(* The server answers a request. *)
LEMMA HandlesKeeps ==
  ASSUME ShellAssumption, ShellInv, NEW k \in Kinds, Handles(k)
  PROVE  ShellInv'
<1>0. PICK r : r = flight[k]
  OBVIOUS
<1> DEFINE p == About(k, r)
           new == [carries |-> r.carries, who |-> r.who, step |-> "done", ok |-> Allowed(k, r),
                   row |-> IF p = Nix THEN Nix ELSE RowAfter(p), session |-> Len(sessions')]
<1>1. /\ r # Nix /\ r.step = "sent"
      /\ IF Allowed(k, r) THEN Does(k, r) ELSE UNCHANGED server
      /\ flight' = [flight EXCEPT ![k] = new]
      /\ order' = order \cup (Replied \X {k})
      /\ UNCHANGED <<cookie, client, overtaken, history, trips>>
  BY <1>0 DEF Handles
<1>2. PICK q : q = p
  OBVIOUS
<1>3. PICK a : a = new
  OBVIOUS
<1>4. /\ r \in Request /\ RequestFits(k) /\ r.carries \in Nat /\ r.carries <= Len(sessions) /\ Len(sessions) \in Nat
      /\ k \notin Replied /\ Allowed(k, r) \in BOOLEAN
  <2>1. r \in Request /\ RequestFits(k) /\ Len(sessions) \in Nat /\ setupDone \in BOOLEAN
    BY <1>0, <1>1 DEF ShellInv, ShellType, RequestsFit
  <2>2. r.carries \in Nat /\ r.carries <= Len(sessions)
    BY <1>0, <2>1 DEF RequestFits, Request
  <2>3. k \notin Replied
    BY <1>0, <1>1, "sent" # "done" DEF Replied
  <2>4. Allowed(k, r) \in BOOLEAN
    BY <2>1 DEF Allowed
  <2> QED BY <2>1, <2>2, <2>3, <2>4
<1>5. /\ playing' = playing /\ sessions' \in Seq(Persons) /\ Len(sessions) <= Len(sessions') /\ Len(sessions') \in Nat
      /\ \A i \in 1..Len(sessions) : sessions'[i] = sessions[i]
      /\ alive' \subseteq 1..Len(sessions') /\ \A n \in alive' : n \in alive \/ n = Len(sessions) + 1
      /\ setupDone' \in BOOLEAN /\ (~setupDone' => ~setupDone /\ sessions' = sessions)
      /\ account' \in [Persons -> AccountRow]
      /\ account' = account \/ (k \in Changers /\ r.carries \in alive /\ Allowed(k, r))
      /\ \A w \in Persons : account'[w] = account[w] \/ w = Owner(r.carries)
      /\ k \notin EditKinds => \A w \in Persons : account'[w].nick = account[w].nick /\ account'[w].pic = account[w].pic
      /\ k \in {"login", "setup"} /\ Allowed(k, r) =>
           Len(sessions') # 0 /\ sessions'[Len(sessions')] = r.who
      /\ ~Allowed(k, r) => alive' = alive
  BY <1>0, <1>1, RequestServed
<1>6. q \in Persons \cup {Nix}
  <2>1. CASE k \in {"profile", "login", "setup"}
    BY <1>0, <1>2, <1>4, <2>1 DEF About, RequestFits
  <2>2. CASE k \notin {"profile", "login", "setup"}
    <3>1. r.carries = 0 \/ r.carries \in 1..Len(sessions)
      BY <1>4
    <3>2. r.carries # 0 => sessions[r.carries] \in Persons
      BY <3>1 DEF ShellInv, ShellType
    <3> QED BY <1>2, <2>2, <3>1, <3>2 DEF About, Owner
  <2> QED BY <2>1, <2>2
<1>7. q \in Persons => /\ RowAfter(q) \in Row /\ RowAfter(q).who = q /\ RowAfter(q).game = (q \in playing')
                       /\ RowAfter(q).nick = account'[q].nick /\ RowAfter(q).pic = account'[q].pic
                       /\ RowAfter(q).must = account'[q].must
  BY <1>5 DEF RowAfter, Row, AccountRow
<1>8. /\ a \in Request /\ a # Nix /\ a.step = "done" /\ a.ok = Allowed(k, r) /\ a.carries = r.carries /\ a.who = r.who
      /\ a.session = Len(sessions')
      /\ a.row = IF q = Nix THEN Nix ELSE RowAfter(q)
  <2>1. a = [carries |-> r.carries, who |-> r.who, step |-> "done", ok |-> Allowed(k, r),
             row |-> IF q = Nix THEN Nix ELSE RowAfter(q), session |-> Len(sessions')]
    BY <1>2, <1>3
  <2>2. (IF q = Nix THEN Nix ELSE RowAfter(q)) \in Row \cup {Nix}
    BY <1>6, <1>7
  <2>3. a \in Request
    BY <1>4, <1>5, <2>1, <2>2 DEF Request
  <2> QED BY <2>1, <2>3 DEF ShellAssumption
<1>9. /\ flight \in [Kinds -> Request \cup {Nix}] /\ cookie \in 0..Len(sessions)
      /\ alive \subseteq 1..Len(sessions)
  BY DEF ShellInv, ShellType
<1>10. flight' = [flight EXCEPT ![k] = a]
  BY <1>1, <1>3
<1> HIDE DEF new, p
<1>11. /\ flight' \in [Kinds -> Request \cup {Nix}] /\ flight'[k] = a
       /\ \A x \in Kinds : x # k => flight'[x] = flight[x]
       /\ \A x \in Kinds : flight'[x] = Nix <=> flight[x] = Nix
       /\ \A x \in Kinds : flight'[x] # Nix => flight'[x].carries = flight[x].carries /\ flight'[x].who = flight[x].who
  BY <1>0, <1>1, <1>8, <1>9, <1>10
<1>12. Replied' = Replied \cup {k}
  BY <1>8, <1>11 DEF Replied
<1>13. /\ cookie' = cookie /\ me' = me /\ store' = store /\ screen' = screen /\ profile' = profile
       /\ overtaken' = overtaken /\ behind' = behind /\ stalePage' = stalePage /\ missed' = missed
       /\ order' = order \cup (Replied \X {k})
  BY <1>1 DEF client, history
<1>14. \A n \in 0..Len(sessions) : n \in alive' => n \in alive
  BY <1>4, <1>5
<1>15. \A n \in 0..Len(sessions) : Owner(n)' = Owner(n)
  BY <1>4, <1>5 DEF Owner
<1>16. /\ "me" \in Kinds /\ "profile" \in Kinds /\ "login" \in Kinds /\ "setup" \in Kinds
       /\ \A x \in Replied : x \in Kinds /\ x # k /\ flight'[x] = flight[x] /\ <<x, k>> \in order'
  <2>1. \A x \in Replied : x \in Kinds /\ x # k
    BY <1>4 DEF Replied
  <2> QED BY <1>11, <1>13, <2>1 DEF Kinds
<1>17. q = About(k, r)
  BY <1>2 DEF p
<1>18. ShellType'
  BY <1>5, <1>9, <1>11, <1>13 DEF ShellInv, ShellType
<1>19. ClientFits'
  BY <1>11, <1>13, <1>16 DEF ShellInv, ClientFits
<1>20. SetupFits'
  <2>1. ~setupDone' => sessions' = <<>> /\ flight'["login"] = Nix
    BY <1>5, <1>11, <1>16 DEF ShellInv, SetupFits
  <2> QED BY <1>11, <1>13, <1>16, <2>1 DEF ShellInv, SetupFits
<1>21. RequestsFit'
  <2>1. ASSUME NEW x \in Kinds, x # k, flight'[x] # Nix
        PROVE  RequestFits(x)'
    <3>1. flight'[x] = flight[x] /\ RequestFits(x) /\ flight[x] \in Request
      BY <1>9, <1>11, <2>1 DEF ShellInv, RequestsFit
    <3>2. flight[x].carries \in 0..Len(sessions) /\ flight[x].session \in 0..Len(sessions)
      BY <1>4, <3>1 DEF RequestFits, Request
    <3>3. (x \in Replied') = (x \in Replied)
      BY <1>12, <2>1
    <3>4. About(x, flight[x])' = About(x, flight[x])
      BY <1>15, <3>1, <3>2 DEF About
    <3>5. flight[x].session # 0 => sessions'[flight[x].session] = sessions[flight[x].session]
      BY <1>4, <1>5, <3>2
    <3>6. flight[x].carries \notin alive => flight[x].carries \notin alive'
      BY <1>14, <3>2
    <3>7. flight[x].carries <= Len(sessions') /\ flight[x].session <= Len(sessions')
      BY <1>4, <1>5, <3>2
    <3> QED BY <3>1, <3>3, <3>4, <3>5, <3>6, <3>7 DEF RequestFits
  <2>2. RequestFits(k)'
    <3>1. About(k, flight[k])' = q
      <4>1. r.carries \in 0..Len(sessions)
        BY <1>4
      <4> QED BY <1>8, <1>11, <1>15, <1>17, <4>1 DEF About
    <3>2. /\ a.row # Nix => a.row.who = q
          /\ a.row = Nix => q = Nix
      <4>1. Nix \notin Row
        BY DEF ShellAssumption
      <4> QED BY <1>6, <1>7, <1>8, <4>1
    <3>3. k \in EditKinds \cup {"me", "password"} => IF a.ok THEN a.carries # 0 ELSE a.carries \notin alive'
      <4>1. k \in EditKinds \cup {"me", "password"} => (Allowed(k, r) <=> r.carries \in alive)
        BY DEF Allowed, EditKinds
      <4> QED BY <1>4, <1>5, <1>8, <1>9, <4>1
    <3>4. k \in {"login", "setup"} /\ a.ok => a.session # 0 /\ sessions'[a.session] = a.who
      BY <1>5, <1>8
    <3>5. k \in {"profile", "login"} => a.ok
      BY <1>8 DEF Allowed
    <3>6. a.carries <= Len(sessions') /\ a.session <= Len(sessions')
      BY <1>4, <1>5, <1>8
    <3>7. k \in {"profile", "login", "setup"} => a.who \in Persons
      BY <1>0, <1>4, <1>8 DEF RequestFits
    <3> QED BY <1>11, <3>1, <3>2, <3>3, <3>4, <3>5, <3>6, <3>7 DEF RequestFits
  <2> QED BY <2>1, <2>2 DEF RequestsFit
<1>22. OrderFits'
  <2>1. OrderFits
    BY DEF ShellInv
  <2> QED BY <1>4, <1>12, <1>13, <1>16, <2>1 DEF OrderFits
<1>23. RowsAsTold'
  <2>1. ASSUME NEW x \in Replied \ {"profile"}, flight'[x].ok, flight'[x].row # Nix, x \notin overtaken',
               KeyOf(x)' \in alive', \A y \in Changers : <<x, y>> \notin order'
        PROVE  AsOnServer(flight[x].row)'
    <3>1. flight'[x] = flight[x] /\ k \notin Changers /\ account' = account /\ x \in Kinds
      BY <1>5, <1>16, <2>1
    <3>2. KeyOf(x)' = KeyOf(x) /\ KeyOf(x) \in 0..Len(sessions)
      BY <1>4, <1>9, <3>1, <1>16 DEF KeyOf, ShellInv, RequestsFit, RequestFits, Request, Replied
    <3>3. KeyOf(x) \in alive /\ \A y \in Changers : <<x, y>> \notin order
      BY <1>13, <1>14, <2>1, <3>2
    <3>4. AsOnServer(flight[x].row)
      BY <1>13, <2>1, <3>1, <3>3 DEF ShellInv, RowsAsTold, RowFits
    <3> QED BY <3>1, <3>4 DEF AsOnServer
  <2>2. a.row # Nix => AsOnServer(a.row)'
    BY <1>6, <1>7, <1>8 DEF AsOnServer
  <2>3. ASSUME NEW x \in Replied' \ {"profile"} PROVE RowFits(x)'
    <3>1. CASE x = k
      BY <1>11, <2>2, <3>1 DEF RowFits, AsOnServer
    <3>2. CASE x # k
      BY <1>12, <2>1, <3>2 DEF RowFits
    <3> QED BY <3>1, <3>2
  <2> QED BY <2>3 DEF RowsAsTold
<1>24. MeFits'
  <2>1. ~behind /\ me.status = "error" => cookie \notin alive'
    BY <1>9, <1>14 DEF ShellInv, MeFits
  <2>2. ASSUME ~behind, me.status = "success"
        PROVE  me.data.who = Owner(cookie)' /\ (cookie \in alive' /\ Changers \cap Replied' = {} => AsOnServer(me.data)')
    <3>1. me.data.who = Owner(cookie) /\ (cookie \in alive /\ Changers \cap Replied = {} => AsOnServer(me.data))
      BY <2>2 DEF ShellInv, MeFits
    <3>2. Owner(cookie)' = Owner(cookie)
      BY <1>9, <1>13, <1>15 DEF Owner
    <3>3. ASSUME cookie \in alive', Changers \cap Replied' = {}
          PROVE  AsOnServer(me.data)'
      <4>1. cookie \in alive /\ account' = account /\ Changers \cap Replied = {}
        BY <1>5, <1>9, <1>12, <1>14, <3>3
      <4> QED BY <1>13, <3>1, <4>1 DEF AsOnServer
    <3> QED BY <3>1, <3>2, <3>3
  <2> QED BY <1>13, <2>1, <2>2 DEF MeFits
<1>25. PageFits'
  <2>1. flight["profile"] # Nix => flight["profile"].who = profile.who /\ profile.who \in Persons
    BY <1>16 DEF ShellInv, PageFits, RequestsFit, RequestFits
  <2>2. profile.fresh \in BOOLEAN /\ (profile.data # Nix => profile.who \in Persons /\ profile.data \in Face)
    BY DEF ShellInv, PageFits
  <2>3. flight'["profile"] # Nix => flight'["profile"].who = profile.who
    BY <1>11, <1>16, <2>1
  <2>4. ASSUME profile.who \in Persons, ~(/\ account'[profile.who].nick = account[profile.who].nick
                                       /\ account'[profile.who].pic = account[profile.who].pic)
        PROVE  k \in EditKinds /\ EditOf(k, profile.who)'
    <3>1. k \in EditKinds /\ q = profile.who /\ Allowed(k, r)
      <4>1. k \in EditKinds /\ account' # account /\ profile.who = Owner(r.carries)
        BY <1>5, <2>4
      <4> QED BY <1>5, <1>17, <4>1 DEF About, EditKinds
    <3>2. a.ok /\ a.row = RowAfter(q) /\ a.row # Nix /\ a.row.who = q
      BY <1>7, <1>8, <2>4, <3>1 DEF ShellAssumption
    <3> QED BY <1>11, <1>13, <3>1, <3>2 DEF EditOf
  <2>5. \A e \in Replied : EditOf(e, profile.who) => EditOf(e, profile.who)'
    BY <1>13, <1>16 DEF EditOf
  <2>6. ASSUME "profile" \in Replied' \ overtaken'
        PROVE  \/ \E e \in EditKinds : <<"profile", e>> \in order' /\ EditOf(e, profile.who)'
               \/ /\ flight'["profile"].row.nick = account'[profile.who].nick
                  /\ flight'["profile"].row.pic = account'[profile.who].pic
    <3>1. CASE k = "profile"
      <4>1. r.who = profile.who /\ profile.who \in Persons /\ q = r.who
        BY <1>0, <1>1, <1>17, <2>1, <3>1 DEF About
      <4> QED BY <1>7, <1>8, <1>11, <3>1, <4>1 DEF ShellAssumption
    <3>2. CASE k # "profile"
      <4>1. "profile" \in Replied \ overtaken /\ profile.who \in Persons
        BY <1>12, <1>13, <2>1, <2>6, <3>2 DEF Replied
      <4>2. CASE \E e \in EditKinds : <<"profile", e>> \in order /\ EditOf(e, profile.who)
        <5>1. PICK e \in EditKinds : <<"profile", e>> \in order /\ EditOf(e, profile.who)
          BY <4>2
        <5>2. e \in Replied
          BY <5>1 DEF ShellInv, OrderFits
        <5> QED BY <1>13, <2>5, <5>1, <5>2
      <4>3. CASE /\ flight["profile"].row.nick = account[profile.who].nick
                 /\ flight["profile"].row.pic = account[profile.who].pic
        <5>1. flight'["profile"] = flight["profile"] /\ <<"profile", k>> \in order'
          BY <1>16, <4>1
        <5> QED BY <2>4, <4>1, <4>3, <5>1
      <4> QED BY <4>1, <4>2, <4>3 DEF ShellInv, PageFits
    <3> QED BY <3>1, <3>2
  <2>7. ASSUME profile.data # Nix, ~stalePage, profile.fresh
        PROVE  \/ \E e \in Replied' : EditOf(e, profile.who)'
               \/ profile.data = [nick |-> account'[profile.who].nick, pic |-> account'[profile.who].pic]
    <3>1. CASE \E e \in Replied : EditOf(e, profile.who)
      BY <1>12, <2>5, <3>1
    <3>2. CASE profile.data = [nick |-> account[profile.who].nick, pic |-> account[profile.who].pic]
      BY <1>12, <2>2, <2>4, <2>7, <3>2
    <3> QED BY <2>7, <3>1, <3>2 DEF ShellInv, PageFits
  <2>8. screen = "profile" /\ profile.data # Nix /\ ~profile.fresh => flight'["profile"] # Nix
    BY <1>11, <1>16 DEF ShellInv, PageFits
  <2> QED BY <1>13, <2>2, <2>3, <2>6, <2>7, <2>8 DEF PageFits, EditOf
<1>26. GamesFit'
  <2>1. ASSUME NEW x \in Replied' PROVE GameFits(x)'
    <3>1. CASE x = k
      BY <1>6, <1>7, <1>8, <1>11, <3>1 DEF GameFits
    <3>2. CASE x # k
      <4>1. x \in Replied /\ flight'[x] = flight[x]
        BY <1>12, <1>16, <3>2
      <4> QED BY <1>5, <4>1 DEF GameFits, ShellInv, GamesFit
    <3> QED BY <3>1, <3>2
  <2>2. ASSUME NEW x \in Replied', NEW y \in Replied', <<x, y>> \in order',
               flight'[x].row # Nix, flight'[y].row # Nix, flight'[x].row.who = flight'[y].row.who, flight'[y].row.game
        PROVE  flight'[x].row.game
    <3>1. CASE <<x, y>> \in order
      <4>1. x \in Replied /\ y \in Replied
        BY <3>1 DEF ShellInv, OrderFits
      <4> QED BY <1>16, <2>2, <3>1, <4>1 DEF ShellInv, GamesFit, GamesInOrder
    <3>2. CASE x \in Replied /\ y = k
      <4>1. flight'[x].row.who \in playing'
        <5>1. a.row # Nix /\ a.row.game /\ flight'[x].row.who = a.row.who
          BY <1>11, <2>2, <3>2
        <5>2. a.row = RowAfter(q) /\ q \in Persons
          BY <1>6, <1>8, <5>1
        <5> QED BY <1>7, <5>1, <5>2
      <4> QED BY <2>1, <2>2, <4>1 DEF GameFits
    <3> QED BY <1>13, <2>2, <3>1, <3>2
  <2>3. GamesInOrder'
    BY <2>2 DEF GamesInOrder
  <2>4. ASSUME NEW z \in Replied' \ {"profile"}, flight'[z].row # Nix, Unaware(flight[z].row)'
        PROVE  \/ flight'[z].row.who \in missed' \/ z \in overtaken'
               \/ z # "me" /\ flight'["me"] # Nix /\ (flight'["me"].step = "sent" \/ <<z, "me">> \in order')
    <3>1. z # k
      BY ZenonT(30), <1>6, <1>7, <1>8, <1>11, <2>4 DEF Unaware
    <3>2. z \in Replied \ {"profile"} /\ flight'[z] = flight[z] /\ <<z, k>> \in order'
      BY <1>12, <1>16, <2>4, <3>1
    <3>3. Unaware(flight[z].row)
      BY <1>5, <2>4, <3>2 DEF Unaware
    <3>4. EndHeard(z)
      BY <3>2 DEF ShellInv, GamesFit
    <3>5. flight["me"] # Nix => flight'["me"] # Nix
      BY <1>11, <1>16
    <3>6. CASE k = "me"
      BY <1>13, <2>4, <3>2, <3>3, <3>4, <3>5, <3>6, <3>1 DEF EndHeard
    <3>7. CASE k # "me"
      <4>1. flight'["me"] = flight["me"]
        BY <1>11, <1>16, <3>7
      <4> QED BY <1>13, <2>4, <3>2, <3>3, <3>4, <4>1 DEF EndHeard
    <3> QED BY <3>6, <3>7
  <2>5. ASSUME NEW z \in Replied' \ {"profile"} PROVE EndHeard(z)'
    BY <2>4 DEF EndHeard
  <2>6. me.status = "success" /\ ~behind /\ Unaware(me.data)' => me.data.who \in missed \/ flight'["me"] # Nix
    <3>1. Unaware(me.data)' = Unaware(me.data)
      BY <1>5, <1>13 DEF Unaware
    <3> QED BY <1>11, <1>16, <3>1 DEF ShellInv, GamesFit
  <2> QED BY <1>13, <2>1, <2>3, <2>5, <2>6 DEF GamesFit
<1> QED BY <1>18, <1>19, <1>20, <1>21, <1>22, <1>23, <1>24, <1>25, <1>26 DEF ShellInv

LEMMA ShellStarts ==
  ASSUME ShellAssumption, ShellInit
  PROVE  ShellInv
<1>1. /\ account = [p \in Persons |-> [nick |-> 0, pic |-> 0, must |-> FALSE]]
      /\ playing \in SUBSET Persons /\ setupDone \in BOOLEAN
      /\ sessions \in {<<>>} \cup {<<p>> : p \in Persons} /\ (sessions # <<>> \/ playing # {} => setupDone)
      /\ alive = 1..Len(sessions) /\ cookie = Len(sessions)
      /\ me = NotYet /\ store = [user |-> Nix, status |-> "loading"]
      /\ screen = IF setupDone THEN "home" ELSE "setup"
      /\ profile = [who |-> Nix, data |-> Nix, fresh |-> FALSE]
      /\ flight = [k \in Kinds |-> IF k = "me" THEN Sent(cookie, Nix) ELSE Nix]
      /\ order = {} /\ overtaken = {} /\ behind = FALSE /\ stalePage = FALSE /\ missed = {}
  BY DEF ShellInit
<1>2. sessions \in Seq(Persons) /\ Len(sessions) \in Nat /\ (~setupDone => sessions = <<>>)
  <2>1. sessions = <<>> \/ \E p \in Persons : sessions = <<p>>
    BY <1>1
  <2>2. sessions \in Seq(Persons)
    <3>1. CASE sessions = <<>>
      BY <3>1
    <3>2. ASSUME NEW p \in Persons, sessions = <<p>> PROVE sessions \in Seq(Persons)
      BY <3>2
    <3> QED BY <2>1, <3>1, <3>2
  <2> QED BY <1>1, <2>2
<1>3. /\ Sent(cookie, Nix) \in Request /\ Sent(cookie, Nix) # Nix /\ Sent(cookie, Nix).step = "sent"
      /\ Sent(cookie, Nix).carries = cookie /\ Sent(cookie, Nix).session = 0
  <2>1. Nix \in Persons \cup {Nix} /\ cookie \in Nat
    BY <1>1, <1>2
  <2> QED BY <2>1, Signals
<1>4. "me" \in Kinds /\ "login" \in Kinds /\ "setup" \in Kinds /\ "profile" \in Kinds
  BY DEF Kinds
<1>5. Replied = {} /\ flight["me"] = Sent(cookie, Nix) /\ (\A x \in Kinds : x # "me" => flight[x] = Nix)
      /\ flight \in [Kinds -> Request \cup {Nix}]
  BY <1>1, <1>3, <1>4, "sent" # "done" DEF Replied
<1>6. me.status = "pending" /\ profile.data = Nix /\ profile.fresh = FALSE
  BY <1>1, Signals
<1>7. ShellType
  <2>1. account \in [Persons -> AccountRow]
    BY <1>1 DEF AccountRow
  <2>2. cookie \in 0..Len(sessions) /\ alive \subseteq 1..Len(sessions)
    BY <1>1, <1>2
  <2> QED BY <1>1, <1>2, <1>5, <2>1, <2>2 DEF ShellType
<1>8. ClientFits
  BY <1>1, <1>3, <1>5, <1>6 DEF ClientFits
<1>9. SetupFits
  <2>1. screen = "setup" => cookie = 0
    <3>1. Len(<<>>) = 0
      OBVIOUS
    <3> QED BY <1>1, <1>2, <3>1
  <2> QED BY <1>1, <1>2, <1>3, <1>4, <1>5, <1>6, <2>1 DEF SetupFits
<1>10. RequestsFit
  BY <1>1, <1>2, <1>3, <1>5 DEF RequestsFit, RequestFits
<1>11. OrderFits /\ RowsAsTold /\ MeFits
  BY <1>1, <1>5, <1>6 DEF OrderFits, RowsAsTold, MeFits
<1>12. PageFits
  BY <1>4, <1>5, <1>6 DEF PageFits
<1>13. GamesFit
  BY <1>1, <1>5, <1>6 DEF GamesFit, GamesInOrder
<1> QED BY <1>7, <1>8, <1>9, <1>10, <1>11, <1>12, <1>13 DEF ShellInv

(* The invariant says what is promised when all is answered. *)
LEMMA ShellTells ==
  ASSUME ShellAssumption, ShellInv
  PROVE  ShellAgrees
<1>1. CASE ~AllAnswered
  BY <1>1 DEF ShellAgrees, RightPerson, LetIn, EditsShown, BannerGone
<1>2. CASE AllAnswered
  <2>1. Replied = {} /\ flight["me"] = Nix /\ flight["profile"] = Nix
    BY <1>2 DEF AllAnswered, Replied, Kinds
  <2>2. RightPerson
    BY <2>1 DEF RightPerson, ShellInv, MeFits
  <2>3. LetIn
    BY <2>1 DEF LetIn, ShellInv, ClientFits, MeFits
  <2>4. EditsShown
    BY <2>1 DEF EditsShown, ShellInv, PageFits
  <2>5. BannerGone
    BY <2>1 DEF BannerGone, ActiveGameBanner, ShellInv, GamesFit, Unaware
  <2> QED BY <2>2, <2>3, <2>4, <2>5 DEF ShellAgrees
<1> QED BY <1>1, <1>2

LEMMA ShellSteps ==
  ASSUME ShellAssumption, ShellInv, [ShellNext]_shellVars
  PROVE  ShellInv'
<1>1. CASE UNCHANGED shellVars
  <2>1. UNCHANGED <<account, playing, sessions, alive, setupDone, cookie, me, store, screen, profile, flight, order,
                    overtaken, behind, stalePage, missed>>
    BY <1>1 DEF shellVars, server, client, wire, history
  <2>2. (ShellType /\ ClientFits /\ SetupFits)'
    BY <2>1 DEF ShellInv, ShellType, ClientFits, SetupFits
  <2>3. (RequestsFit /\ OrderFits /\ RowsAsTold /\ MeFits)'
    BY <2>1 DEF ShellInv, RequestsFit, RequestFits, OrderFits, RowsAsTold, RowFits, MeFits, Replied, About, Owner,
       KeyOf, AsOnServer
  <2>4. (PageFits /\ GamesFit)'
    BY <2>1 DEF ShellInv, PageFits, EditOf, GamesFit, GameFits, GamesInOrder, EndHeard, Unaware, Replied
  <2> QED BY <2>2, <2>3, <2>4 DEF ShellInv
<1>2. ASSUME NEW p \in Persons, LogIn(p) PROVE ShellInv'
  <2>1. Submits("login", p) /\ setupDone /\ screen = "login" /\ "login" \in Kinds \ {"me", "profile"}
    BY <1>2 DEF LogIn, Kinds
  <2> QED BY <2>1, SubmitKeeps
<1>3. ASSUME NEW p \in Persons, Setup(p) PROVE ShellInv'
  <2>1. Submits("setup", p) /\ screen = "setup" /\ "setup" \in Kinds \ {"me", "profile"}
    BY <1>3 DEF Setup, Kinds
  <2> QED BY <2>1, SubmitKeeps
<1>4. CASE LogOut
  <2>1. Submits("logout", store.user.who) /\ screen \in {"home", "profile"} /\ "logout" \in Kinds \ {"me", "profile"} /\ SignedIn
    BY <1>4 DEF LogOut, Kinds
  <2>2. store.user.who \in Persons
    BY <2>1, SignedInIs DEF ShellInv
  <2> QED BY <2>1, <2>2, SubmitKeeps
<1>5. CASE ChangePassword
  <2>1. Submits("password", store.user.who) /\ screen = "password" /\ "password" \in Kinds \ {"me", "profile"} /\ SignedIn
    BY <1>5 DEF ChangePassword, Kinds
  <2>2. store.user.who \in Persons
    BY <2>1, SignedInIs DEF ShellInv
  <2> QED BY <2>1, <2>2, SubmitKeeps
<1>6. CASE EditAccount \/ EditPicture
  <2>1. PICK k \in EditKinds : Submits(k, profile.who)
    BY <1>6 DEF EditAccount, EditPicture, EditKinds
  <2>2. screen = "profile" /\ SignedIn /\ profile.who = store.user.who
    BY <1>6 DEF EditAccount, EditPicture, OwnSettings
  <2>3. profile.who \in Persons
    BY <2>2, SignedInIs DEF ShellInv
  <2>4. k \in Kinds \ {"me", "profile"} /\ k # "login" /\ k # "setup"
    BY DEF Kinds, EditKinds
  <2> QED BY <2>1, <2>2, <2>3, <2>4, SubmitKeeps
<1>7. ASSUME NEW k \in Kinds, Handles(k) \/ Arrives(k) \/ Breaks(k) PROVE ShellInv'
  BY <1>7, HandlesKeeps, ArrivesKeeps, BreaksKeeps
<1>8. CASE OpenProfile \/ LobbyRefused \/ Reload
  BY <1>8, OpenProfileKeeps, LobbyRefusedKeeps, ReloadKeeps
<1>9. ASSUME NEW p \in Persons, PasswordReset(p) \/ GameIsOver(p) PROVE ShellInv'
  BY <1>9, PasswordResetKeeps, GameIsOverKeeps
<1>10. ASSUME NEW p \in {"home", "password"}, Opens(p) PROVE ShellInv'
  BY <1>10, OpensKeeps
<1>11. ASSUME NEW n \in alive, SessionEnds(n) PROVE ShellInv'
  BY <1>11, SessionEndsKeeps
<1> QED BY <1>1, <1>2, <1>3, <1>4, <1>5, <1>6, <1>7, <1>8, <1>9, <1>10, <1>11 DEF ShellNext

(* Once every request is answered, the caches of the site agree with the server about
   who is signed in, what is on their account and whether they play, in whatever order
   the answers came, unless the last of them came late or was lost: for any number of
   calls, faults, reloads and events elsewhere (lib/api.ts, auth/hooks.ts, App.tsx). *)
THEOREM ShellHolds == ShellSpec => []ShellAgrees
<1> USE ShellAssumption
<1>1. ShellInit => ShellInv
  BY ShellStarts
<1>2. ShellInv /\ [ShellNext]_shellVars => ShellInv'
  BY ShellSteps
<1>3. ShellInv => ShellAgrees
  BY ShellTells
<1> QED BY <1>1, <1>2, <1>3, PTL DEF ShellSpec

=============================================================================
