------------------------------ MODULE Effects -------------------------------
(***************************************************************************)
(* What a game page shows for a moment: the bubbles of the players'        *)
(* reactions (hooks.ts, games.service.ts, the phrases of                   *)
(* admin-text-reactions and user-text-reactions) and the cards that fly    *)
(* from a seat to the table (useCardThrowAnimation.ts).  A bubble lives    *)
(* as long as its timer, a flight is started by comparing what the page    *)
(* draws with what it has drawn before.  The page stays mounted when the   *)
(* player goes from one game to the next.                                  *)
(***************************************************************************)
EXTENDS Naturals, FiniteSets, SequencesExt

CONSTANTS Speakers,      \* players that react
          Speeches,      \* calls of recordTextReaction that may be under way
          Seats,         \* players at the table, the defender is one
          Cap,           \* USER_TEXT_REACTION_MAX_PER_USER
          Nil,           \* no row, no call, no bubble, no card
          Shows          \* bound: [speak, throw] how many events a behaviour has

(* Calls under way, the cards of a snapshot, and snapshots.  A beat has a number of
   its own, `turn`: after a caught cheat the same card may be beaten again. *)
Speech == [who : Speakers, what : {"create", "say"}]
Laid == [id : Nat, by : Seats, beater : Seats \cup {Nil}, turn : Nat]
Snapshot == [cards : Seq(Laid), defender : Seats, next : Nat]
Bubbles == {"emoji", "text"}

(* A play is a card laid or beaten: <<kind, card, by, number of the play>>.  What
   flies is a play. *)
Play == {"attack", "beat"} \X Nat \X Seats \X Nat

ASSUME EffectsAssumption ==
  /\ Cap \in Nat /\ Nil \notin Seats /\ Nil \notin Speech
  /\ \A b \in Shows : b.speak \in Nat /\ b.throw \in Nat

VARIABLES
  preset,    \* the admin's phrase: "none", "off" or "on"
  own,       \* number of a player's own phrases
  paced,     \* players whose window of PLAYER_REACTION_RATE_LIMIT_MS is open
  speech,    \* calls under way: [who, what]
  bubble,    \* what floats over a seat: [Speakers -> [emoji, text]], the number
             \* of the reaction
  timer,     \* the pending timers of the page: <<who, kind, number>>
  spoken,    \* reactions so far
  crowded,   \* history: players two of whose creates counted before either wrote
  moved,     \* history: bubbles that were shown when the page went to another game
  tables,    \* the snapshots of the table so far: [cards, defender]
  drawn,     \* the snapshot the page shows, 0 for none
  seen,      \* seenTokensRef: cards that need no flight any more
  flown,     \* history: the flights of the game on the page
  older,     \* history: a snapshot older than the shown one was drawn
  old,       \* history: the plays the page found and took for seen
  skipped,   \* history: beats whose card was beaten, taken back and beaten again
             \* between two snapshots that were drawn
  showing    \* events left

phraseVars == <<preset, own, paced, speech, crowded>>
bubbleVars == <<bubble, timer, spoken, moved>>
tableVars == <<tables, drawn, seen, flown, older, old, skipped>>
shownVars == <<drawn, seen, flown, older, old, skipped>>
effectVars == <<phraseVars, bubbleVars, tableVars, showing>>

Occurs(kind) == showing[kind] > 0 /\ showing' = [showing EXCEPT ![kind] = @ - 1]

-----------------------------------------------------------------------------
(* The phrases. *)
Speaks(r, call) ==
  /\ speech[r] = Nil
  /\ speech' = [speech EXCEPT ![r] = call]
Ended(r) == speech' = [speech EXCEPT ![r] = Nil]

(* create, update, remove of AdminTextReactionsService; the update finds the row
   before it writes it. *)
PresetChanges ==
  /\ Occurs("speak")
  /\ preset' \in {"none", "off", "on"}
  /\ UNCHANGED <<own, paced, speech, crowded, bubbleVars, tableVars>>

(* create of UserTextReactionsService: the rows are counted, then one is added. *)
CreateCounts(r, u) ==
  /\ Occurs("speak")
  /\ own[u] < Cap
  /\ Speaks(r, [who |-> u, what |-> "create"])
  /\ crowded' = IF \E q \in Speeches : speech[q] # Nil /\ speech[q].what = "create" /\ speech[q].who = u
                THEN crowded \cup {u} ELSE crowded
  /\ UNCHANGED <<preset, own, paced, bubbleVars, tableVars>>

CreateWrites(r) ==
  /\ speech[r] # Nil /\ speech[r].what = "create"
  /\ own' = [own EXCEPT ![speech[r].who] = @ + 1]
  /\ Ended(r)
  /\ UNCHANGED <<preset, paced, crowded, bubbleVars, tableVars, showing>>

PhraseRemoved(u) ==
  /\ own[u] > 0
  /\ own' = [own EXCEPT ![u] = @ - 1]
  /\ UNCHANGED <<preset, paced, speech, crowded, bubbleVars, tableVars, showing>>

(* onReaction of both hooks: the bubble replaces the one over the seat, whose
   timer is cancelled. *)
Floats(u, kind) ==
  /\ bubble' = [bubble EXCEPT ![u][kind] = spoken + 1]
  /\ timer' = {t \in timer : ~(t[1] = u /\ t[2] = kind)} \cup {<<u, kind, spoken + 1>>}
  /\ spoken' = spoken + 1

(* recordReaction: one window for both kinds of reaction; a second one in the
   window is refused. *)
recordReaction(u) ==
  /\ Occurs("speak")
  /\ u \notin paced
  /\ paced' = paced \cup {u}
  /\ Floats(u, "emoji")
  /\ UNCHANGED <<preset, own, speech, crowded, moved, tableVars>>

(* recordTextReaction: the text is looked up, the admin's phrases first, then the
   speaker's own; what is not found is not said. *)
TextResolves(r, u) ==
  /\ Occurs("speak")
  /\ preset = "on" \/ own[u] > 0
  /\ Speaks(r, [who |-> u, what |-> "say"])
  /\ UNCHANGED <<preset, own, paced, crowded, bubbleVars, tableVars>>

(* Then the window decides, for both kinds alike. *)
recordTextReaction(r) ==
  /\ speech[r] # Nil /\ speech[r].what = "say"
  /\ Ended(r)
  /\ IF speech[r].who \in paced
     THEN UNCHANGED <<paced, bubble, timer, spoken>>
     ELSE /\ paced' = paced \cup {speech[r].who}
          /\ Floats(speech[r].who, "text")
  /\ UNCHANGED <<preset, own, crowded, moved, tableVars, showing>>

WindowEnds(u) ==
  /\ u \in paced
  /\ paced' = paced \ {u}
  /\ UNCHANGED <<preset, own, speech, crowded, bubbleVars, tableVars, showing>>

(* The timer takes the bubble away if it is still the one it was set for. *)
BubbleEnds(t) ==
  /\ t \in timer
  /\ timer' = timer \ {t}
  /\ bubble' = IF bubble[t[1]][t[2]] = t[3] THEN [bubble EXCEPT ![t[1]][t[2]] = 0] ELSE bubble
  /\ UNCHANGED <<phraseVars, spoken, moved, tableVars, showing>>

-----------------------------------------------------------------------------
(* The table. *)
OnTable == tables[Len(tables)]
Plays(snapshot) ==
       {<<"attack", c.id, c.by, c.id>> : c \in ToSet(snapshot.cards)}
  \cup {<<"beat", c.id, c.beater, c.turn>> : c \in {d \in ToSet(snapshot.cards) : d.beater # Nil}}

(* The token of a play names the card, not the play. *)
Token(play) == <<play[1], play[2]>>
Tokens(snapshot) == {Token(play) : play \in Plays(snapshot)}

Serves(snapshot) == tables' = Append(tables, snapshot)
Lays(id, by) == [id |-> id, by |-> by, beater |-> Nil, turn |-> 0]

(* The engine: a card is thrown, beaten by the defender, the attack passed on
   while none is beaten, the table cleared and the roles moved on. *)
CardThrown(by) ==
  /\ Occurs("throw")
  /\ by # OnTable.defender
  /\ Serves([cards |-> Append(OnTable.cards, Lays(OnTable.next, by)),
             defender |-> OnTable.defender, next |-> OnTable.next + 1])
  /\ UNCHANGED <<phraseVars, bubbleVars, shownVars>>

CardBeaten(i) ==
  /\ Occurs("throw")
  /\ OnTable.cards[i].beater = Nil
  /\ Serves([cards |-> [OnTable.cards EXCEPT ![i].beater = OnTable.defender, ![i].turn = OnTable.next],
             defender |-> OnTable.defender, next |-> OnTable.next + 1])
  /\ UNCHANGED <<phraseVars, bubbleVars, shownVars>>

CardPassedOn(to) ==
  /\ Occurs("throw")
  /\ OnTable.cards # <<>> /\ \A i \in 1..Len(OnTable.cards) : OnTable.cards[i].beater = Nil
  /\ to # OnTable.defender
  /\ Serves([cards |-> Append(OnTable.cards, Lays(OnTable.next, OnTable.defender)),
             defender |-> to, next |-> OnTable.next + 1])
  /\ UNCHANGED <<phraseVars, bubbleVars, shownVars>>

TableCleared(next) ==
  /\ Occurs("throw")
  /\ OnTable.cards # <<>>
  /\ Serves([cards |-> <<>>, defender |-> next, next |-> OnTable.next])
  /\ UNCHANGED <<phraseVars, bubbleVars, shownVars>>

(* A caught cheat is rolled back: a beat leaves its card unbeaten, a card thrown in,
   never the first, leaves the table. *)
BeatTakenBack(i) ==
  /\ Occurs("throw")
  /\ OnTable.cards[i].beater # Nil
  /\ Serves([OnTable EXCEPT !.cards[i].beater = Nil])
  /\ UNCHANGED <<phraseVars, bubbleVars, shownVars>>

CardTakenBack(i) ==
  /\ Occurs("throw")
  /\ i > 1 /\ OnTable.cards[i].beater = Nil
  /\ Serves([OnTable EXCEPT !.cards = RemoveAt(@, i)])
  /\ UNCHANGED <<phraseVars, bubbleVars, shownVars>>

(* diffNewThrows: what the page has no token of; a beat is the defender's who is
   drawn with it. *)
diffNewThrows(snapshot, known) ==
  {<<p[1], p[2], IF p[1] = "beat" THEN snapshot.defender ELSE p[3], p[4]>> :
     p \in {q \in Plays(snapshot) : Token(q) \notin known}}

(* The beats of s on cards that t shows beaten by an earlier beat. *)
BeatenAgain(t, s) ==
  {p \in Plays(s) : p[1] = "beat" /\ \E q \in Plays(t) : Token(q) = Token(p) /\ q[4] # p[4]}

(* Mutant: the tokens are kept per card, not per card and kind. *)
TableDrawn_PerCard(i) ==
  /\ i \in 1..Len(tables)
  /\ i > drawn \/ (i < drawn /\ ~older)     \* bound: one late answer
  /\ LET known == seen \cup {<<"beat", t[2]>> : t \in seen}
     IN  flown' = flown \o SetToSeq(IF drawn = 0 THEN {} ELSE diffNewThrows(tables[i], known))
  /\ seen' = Tokens(tables[i])
  /\ old' = IF drawn = 0 THEN Plays(tables[i]) ELSE old
  /\ skipped' = IF drawn = 0 THEN {} ELSE skipped \cup BeatenAgain(tables[drawn], tables[i])
  /\ older' = (older \/ i < drawn)
  /\ drawn' = i
  /\ UNCHANGED <<phraseVars, bubbleVars, tables, showing>>

(* A snapshot is drawn.  The first time everything counts as seen; later each card
   whose slot registers flies once, and what left the table is forgotten.
   Broadcasts are drawn in order, some never; a late answer may be older. *)
TableDrawn(i) ==
  /\ i \in 1..Len(tables)
  /\ i > drawn \/ (i < drawn /\ ~older)     \* bound: one late answer
  /\ flown' = flown \o SetToSeq(IF drawn = 0 THEN {} ELSE diffNewThrows(tables[i], seen))
  /\ seen' = Tokens(tables[i])
  /\ old' = IF drawn = 0 THEN Plays(tables[i]) ELSE old
  /\ skipped' = IF drawn = 0 THEN {} ELSE skipped \cup BeatenAgain(tables[drawn], tables[i])
  /\ older' = (older \/ i < drawn)
  /\ drawn' = i
  /\ UNCHANGED <<phraseVars, bubbleVars, tables, showing>>

-----------------------------------------------------------------------------
(* Another game's table, with a card or none; its cards are numbered from one too. *)
OtherTables ==
       {[cards |-> <<>>, defender |-> d, next |-> 1] : d \in Seats}
  \cup {[cards |-> <<Lays(1, p[1])>>, defender |-> p[2], next |-> 2] :
          p \in {q \in Seats \X Seats : q[1] # q[2]}}

(* The page goes to another game it has a copy of and stays mounted: the effect's
   cleanup cancels the timers, and the other table is compared with the tokens of
   the table that was left. *)
GoesToGame(snapshot) ==
  /\ Occurs("speak")
  /\ drawn # 0
  /\ timer' = {}
  /\ moved' = moved \cup {t[3] : t \in timer}
  /\ tables' = <<snapshot>>
  /\ drawn' = 1
  /\ flown' = SetToSeq(diffNewThrows(snapshot, seen))
  /\ old' = {p \in Plays(snapshot) : Token(p) \in seen}
  /\ seen' = Tokens(snapshot)
  /\ older' = FALSE /\ skipped' = {}
  /\ UNCHANGED <<phraseVars, bubble, spoken>>

-----------------------------------------------------------------------------
EffectsInit ==
  /\ preset = "none" /\ own = [u \in Speakers |-> 0] /\ paced = {}
  /\ speech = [r \in Speeches |-> Nil]
  /\ bubble = [u \in Speakers |-> [kind \in Bubbles |-> 0]]
  /\ timer = {} /\ spoken = 0 /\ crowded = {} /\ moved = {}
  /\ \E s \in Seats : tables = <<[cards |-> <<>>, defender |-> s, next |-> 1]>>
  /\ drawn = 0 /\ seen = {} /\ flown = <<>> /\ older = FALSE /\ old = {} /\ skipped = {}
  /\ showing \in Shows

EffectsNext ==
  \/ PresetChanges
  \/ \E u \in Speakers : PhraseRemoved(u) \/ recordReaction(u) \/ WindowEnds(u)
  \/ \E u \in Speakers, r \in Speeches : CreateCounts(r, u) \/ TextResolves(r, u)
  \/ \E r \in Speeches : CreateWrites(r) \/ recordTextReaction(r)
  \/ \E t \in timer : BubbleEnds(t)
  \/ \E s \in Seats : CardThrown(s) \/ CardPassedOn(s) \/ TableCleared(s)
  \/ \E i \in 1..Len(OnTable.cards) : CardBeaten(i) \/ BeatTakenBack(i) \/ CardTakenBack(i)
  \/ \E i \in 1..Len(tables) : TableDrawn(i)
  \/ \E snapshot \in OtherTables : GoesToGame(snapshot)

EffectsSpec == EffectsInit /\ [][EffectsNext]_effectVars
-----------------------------------------------------------------------------
(* A bubble that is shown has the timer that will take it away, unless the page
   left the game under it. *)
BubbleFades ==
  \A u \in Speakers, kind \in Bubbles :
    bubble[u][kind] > 0 => bubble[u][kind] \in moved \/ <<u, kind, bubble[u][kind]>> \in timer

(* A player keeps no more phrases than allowed, unless two creates of the player's
   counted before either wrote. *)
CapKept == \A u \in Speakers : own[u] <= Cap \/ u \in crowded

(* A play flies once, from the seat of the player who made it, and never if the page
   found it there; a beat that was taken back and made again flies again.  Unless an
   older snapshot put the page back. *)
FliesOnce ==
  older \/
    /\ \A i, j \in 1..Len(flown) : flown[i][1] = flown[j][1] /\ flown[i][4] = flown[j][4] => i = j
    /\ \A i \in 1..Len(flown) :
         /\ flown[i] \notin old
         /\ \A k \in 1..Len(tables) : \A p \in Plays(tables[k]) :
              p[1] = flown[i][1] /\ p[4] = flown[i][4] => p[3] = flown[i][3]

(* Every play the page shows was found there or has flown, but for a beat on a card
   the page never saw unbeaten in between. *)
NoneAppears ==
  drawn # 0 /\ ~older => Plays(tables[drawn]) \subseteq old \cup ToSet(flown) \cup skipped

(* The four together: bubbles go, own phrases stay within their number, and cards
   and beats fly once (useGameReactions, useCardThrowAnimation). *)
EffectsAgree == BubbleFades /\ CapKept /\ FliesOnce /\ NoneAppears
=============================================================================
