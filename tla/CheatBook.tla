----------------------------- MODULE CheatBook ------------------------------
(***************************************************************************)
(* The book of illegal plays that metrics-collector.ts keeps beside a game *)
(* with cheating: at each command the service hands it the state before    *)
(* and the events, and it notes who has cheated on which entry.  A play    *)
(* that is called out leaves the book as caught; what is in it when the    *)
(* bout ends counts as escaped.  Here the book is laid over the engine,    *)
(* command by command; an entry is named by the card it was opened with.   *)
(*                                                                         *)
(* The counters themselves only grow and are left out.                     *)
(***************************************************************************)
EXTENDS DurakEngine

VARIABLES
  book,      \* illegal:<game>: entry -> who cheated on it
  tainted,   \* history: <<card, player>> that were illegal when they were played
  twice      \* history: entries both cards of which were

bookVars == <<book, tainted, twice>>

NoEntries == [e \in {} |-> NoSeat]

-----------------------------------------------------------------------------
(* By the state before the command: a throw-in whose rank is not on the table, a
   beat that does not beat.  The opening card and jokers never are illegal. *)
isAttackIllegal(c) == table # <<>> /\ ~matchesAnyRankOnTable(c)
isBeatIllegal(i, c) == ~beats(c, table[i].card, trumpSuit)

(* History: what lies on the table after the command. *)
Lying(plays) == {t \in plays : t[1] \in TableCards(table')}
Entries(t) == {t[i].card : i \in DOMAIN t}

(* hset: a second note on an entry replaces the first. *)
Noted(e, p) == book' = [x \in DOMAIN book \cup {e} |-> IF x = e THEN p ELSE book[x]]

CardAttacked(p, c) ==
  IF isAttackIllegal(c)
  THEN Noted(c, p) /\ tainted' = Lying(tainted \cup {<<c, p>>}) /\ UNCHANGED twice
  ELSE UNCHANGED bookVars

CardBeaten(i, c) ==
  IF isBeatIllegal(i, c)
  THEN /\ Noted(table[i].card, defender)
       /\ tainted' = Lying(tainted \cup {<<c, defender>>})
       /\ twice' = IF <<table[i].card, table[i].by>> \in tainted THEN twice \cup {table[i].card} ELSE twice
  ELSE UNCHANGED bookVars

(* Mutant: what was called out stays in the book. *)
CheatNoticed_Kept(i) ==
  /\ tainted' = Lying(tainted)
  /\ UNCHANGED <<book, twice>>

(* A call that succeeds takes the entry out, whichever of its cards it was. *)
CheatNoticed(i) ==
  /\ book' = [e \in DOMAIN book \ {table[i].card} |-> book[e]]
  /\ tainted' = Lying(tainted)
  /\ twice' = twice \cap Entries(table')

(* The end of a bout clears it. *)
BoutEnded ==
  /\ book' = NoEntries /\ twice' = {}
  /\ tainted' = {}

-----------------------------------------------------------------------------
BookInit == Init /\ book = NoEntries /\ tainted = {} /\ twice = {}

BookNext ==
  \/ \E p \in Seats : \E c \in hands[p] : Attack(p, c) /\ CardAttacked(p, c)
  \/ \E i \in DOMAIN table : \E c \in hands[defender] : Beat(i, c) /\ CardBeaten(i, c)
  \/ \E c \in hands[defender] : Translate(c) /\ UNCHANGED bookVars
  \/ Take /\ UNCHANGED bookVars
  \/ \E p \in Seats : Pass(p) /\ IF table' = <<>> THEN BoutEnded ELSE UNCHANGED bookVars
  \/ \E p \in Seats, i \in DOMAIN table : (NoticeBeat(p, i) \/ NoticeAttack(p, i)) /\ CheatNoticed(i)
  \/ GameOver /\ UNCHANGED bookVars

BookSpec == BookInit /\ [][BookNext]_<<vars, bookVars>>
-----------------------------------------------------------------------------
(* Who the book would count as escaped has a card on that very entry that was
   illegal when it was played, through beats, calls and rolled-back cards in any
   order; and an illegal play on the table is in the book, unless its entry was
   cheated on twice, when the second note replaced the first. *)
Plays(i) == {<<table[i].card, table[i].by>>} \cup
            (IF i \in Beaten(table) THEN {<<table[i].beatenBy, defender>>} ELSE {})

CheatHistory ==
  /\ \A e \in DOMAIN book : \E i \in DOMAIN table :
       table[i].card = e /\ \E t \in Plays(i) \cap tainted : t[2] = book[e]
  /\ \A i \in DOMAIN table :
       Plays(i) \cap tainted # {} => table[i].card \in DOMAIN book \cup twice
=============================================================================
