------------------------------ MODULE GamePage ------------------------------
(***************************************************************************)
(* The table as a player sees and plays it: the snapshot that              *)
(* game-redactor.ts cuts out of the game for one viewer, the rules the     *)
(* client repeats in legality.ts, and what GamePage.tsx makes of a card    *)
(* that is dropped and of the buttons it shows.  The client decides from   *)
(* the snapshot alone; the engine decides again from the game.             *)
(***************************************************************************)
EXTENDS DurakEngine

-----------------------------------------------------------------------------
(* The snapshot for a viewer, seated or not.  Hands of others appear as their
   size only, the draw pile and the discard pile too. *)
redactForPlayer(viewer) ==
  [me                    |-> viewer,
   isSpectator           |-> viewer \notin Seats,
   hand                  |-> IF viewer \in Seats THEN hands[viewer] ELSE {},
   handSize              |-> [p \in Seats |-> Cardinality(hands[p])],
   isFinished            |-> [p \in Seats |-> Finished(p)],
   isPassed              |-> [p \in Seats |-> p \in passed],
   status                |-> status,
   table                 |-> table,
   trumpSuit             |-> trumpSuit,
   currentAttackerId     |-> attacker,
   currentDefenderId     |-> defender,
   exclusiveLockReleased |-> exclusiveLockReleased]

-----------------------------------------------------------------------------
(* legality.ts. *)

(* Mutant: a trump beats every card, also a higher trump. *)
canBeatCard_AnyTrump(defense, attack, trump) ==
  /\ isStandard(attack)
  /\ IF isJoker(defense) THEN defense.color = suitColor(attack.suit)
     ELSE \/ defense.suit = trump
          \/ defense.suit = attack.suit /\ defense.rank > attack.rank

(* A joker beats a standard card of its colour; trumps beat what is no trump;
   else the same suit and a higher rank. *)
canBeatCard(defense, attack, trump) ==
  /\ isStandard(attack)
  /\ IF isJoker(defense) THEN defense.color = suitColor(attack.suit)
     ELSE \/ defense.suit = trump /\ attack.suit # trump
          \/ defense.suit = attack.suit /\ defense.rank > attack.rank

(* The rank of a card on the table, or 'joker', which is none: -1 here. *)
RankKey(c) == IF isJoker(c) THEN -1 ELSE c.rank
collectTableRanks(attacks) == {RankKey(c) : c \in TableCards(attacks)}

canAttackWith(c, attacks) ==
  attacks = <<>> \/ RankKey(c) \in collectTableRanks(attacks)

(* Mutant: without the latch, the lock is read off the list of passes. *)
isExclusiveThrowInLocked_ByPasses(v) ==
  /\ ExclusiveThrowIn
  /\ v.me \notin {v.currentDefenderId, v.currentAttackerId}
  /\ v.status # "game_over"
  /\ ~v.isPassed[v.currentAttackerId]
  /\ ~v.isFinished[v.currentAttackerId]
  /\ v.handSize[v.currentAttackerId] > 0

isExclusiveThrowInLocked(v) ==
  /\ ExclusiveThrowIn
  /\ v.me \notin {v.currentDefenderId, v.currentAttackerId}
  /\ v.status # "game_over"
  /\ ~v.exclusiveLockReleased
  /\ ~v.isFinished[v.currentAttackerId]
  /\ v.handSize[v.currentAttackerId] > 0

canTranslateWith(c, attacks) ==
  /\ attacks # <<>>
  /\ \A i \in DOMAIN attacks : /\ attacks[i].beatenBy = NoCard
                               /\ RankKey(attacks[i].card) = RankKey(c)

(* Mutant: with the scope `defender_only' a beat too is for the defender. *)
canPlayerNoticeEntry_OneScope(v, i) ==
  /\ CheatingEnabled
  /\ IF v.table[i].beatenBy # NoCard THEN v.me # v.currentDefenderId /\ v.me # v.currentAttackerId
     ELSE v.me # v.table[i].by
          /\ (CheatNoticeScope = "defender_only" => v.me = v.currentDefenderId)

(* Who gets a flag on an entry: a beat is accused by anybody but the defender,
   an open card by anybody but its thrower, as far as the settings allow. *)
canPlayerNoticeEntry(v, i) ==
  /\ CheatingEnabled
  /\ IF v.table[i].beatenBy # NoCard THEN v.me # v.currentDefenderId
     ELSE v.me # v.table[i].by
          /\ (CheatNoticeScope = "defender_only" => v.me = v.currentDefenderId)

-----------------------------------------------------------------------------
(* GamePage.tsx. *)

playerCanPass(v) ==
  /\ ~v.isFinished[v.me] /\ ~v.isPassed[v.me]
  /\ v.status \in {"bout_settle", "bout_take_pending"}
  /\ v.me # v.currentDefenderId
  /\ AttackerScope = "attacker_only" => v.me = v.currentAttackerId

showTake(v) ==
  /\ v.status = "bout_defense"
  /\ v.me = v.currentDefenderId
  /\ Unbeaten(v.table) # {}

(* Whether the middle of the table takes a card. *)
canDropOnCenter(v) ==
  \/ v.me = v.currentDefenderId /\ v.status = "bout_defense"
  \/ /\ v.me # v.currentDefenderId
     /\ \/ v.status = "bout_attack" /\ v.me = v.currentAttackerId
        \/ /\ v.status \in {"bout_defense", "bout_settle", "bout_take_pending"}
           /\ AttackerScope = "all" \/ v.me = v.currentAttackerId

(* The entries a card may be dropped on. *)
droppableAttackIds(v) ==
  IF v.me = v.currentDefenderId /\ v.status = "bout_defense" THEN Unbeaten(v.table)
                                                            ELSE {}

(* The commands a drop of card c sends: a beat on an entry; in the middle a
   translate for the defender, a throw for the others.  With cheating on the
   client's own rules are not asked. *)
onDragEnd(v, c) ==
  {[type |-> "beat", player |-> v.me, card |-> c, entry |-> i] : i \in
     {i \in droppableAttackIds(v) :
        CheatingEnabled \/ canBeatCard(c, v.table[i].card, v.trumpSuit)}}
  \cup
  {[type |-> type, player |-> v.me, card |-> c, entry |-> 0] : type \in
     {type \in {"translate", "attack"} :
        /\ canDropOnCenter(v)
        /\ IF v.me = v.currentDefenderId /\ v.status = "bout_defense"
           THEN /\ type = "translate"
                /\ CheatingEnabled \/ canTranslateWith(c, v.table)
           ELSE /\ type = "attack"
                /\ ~isExclusiveThrowInLocked(v)
                /\ CheatingEnabled \/ canAttackWith(c, v.table)}}

(* Everything the page lets its viewer send: drops, buttons and cheat flags. *)
Offered(v) ==
  LET send(type, i) == [type |-> type, player |-> v.me, card |-> NoCard, entry |-> i]
  IN  IF v.isSpectator THEN {}
      ELSE (UNION {onDragEnd(v, c) : c \in v.hand})
           \cup (IF showTake(v) THEN {send("take", 0)} ELSE {})
           \cup (IF playerCanPass(v) THEN {send("pass", 0)} ELSE {})
           \cup {send("notice_cheat", i) : i \in {i \in DOMAIN v.table : canPlayerNoticeEntry(v, i)}}

-----------------------------------------------------------------------------
(* What the engine asks of a command before it applies it: the guards of the
   actions of DurakEngine. *)
Accepts(cmd) ==
  LET p == cmd.player
      c == cmd.card
      i == cmd.entry
  IN  CASE cmd.type = "attack" ->
             /\ canThrow(p) /\ status # "game_over" /\ attacksRemaining(table) > 0
             /\ IF table = <<>> THEN p = attacker
                ELSE CheatingEnabled \/ matchesAnyRankOnTable(c)
        [] cmd.type = "beat" ->
             /\ p = defender /\ status = "bout_defense" /\ i \in Unbeaten(table)
             /\ CheatingEnabled \/ beats(c, table[i].card, trumpSuit)
        [] cmd.type = "translate" ->
             /\ p = defender /\ status \notin {"game_over", "bout_take_pending"}
             /\ canTranslate(c)
             /\ Len(table) + 1 <= limit(firstDefenseHappened, initialDefenderHandSize)
        [] cmd.type = "take" ->
             p = defender /\ status \in {"bout_defense", "bout_settle"} /\ table # <<>>
        [] cmd.type = "pass" ->
             status \in {"bout_settle", "bout_take_pending"} /\ baseCanThrow(p) /\ p \notin passed
        [] OTHER ->
             /\ status # "game_over"
             /\ \/ FakeBeat(i) /\ canNotice(p, defender, TRUE)
                \/ FakeThrow(i) /\ canNotice(p, table[i].by, FALSE)

Commands(p) ==
  {[type |-> type, player |-> p, card |-> c, entry |-> 0] :
     type \in {"attack", "translate"}, c \in hands[p]}
  \cup {[type |-> "beat", player |-> p, card |-> c, entry |-> i] :
          c \in hands[p], i \in DOMAIN table}
  \cup {[type |-> type, player |-> p, card |-> NoCard, entry |-> 0] :
          type \in {"take", "pass"}}
  \cup {[type |-> "notice_cheat", player |-> p, card |-> NoCard, entry |-> i] :
          i \in DOMAIN table}

(* The page keeps no move from a player: what the engine would accept, the page
   offers, whatever throws, beats, translates, passes and caught cheats led
   there.  Two exceptions are the client's own: a joker among standard cards is
   not thrown in (legality.ts:57), and a take once everything is beaten has no
   button (GamePage.tsx:637). *)
MovesOffered ==
  \A p \in Seats : \A cmd \in Commands(p) :
    Accepts(cmd) =>
      \/ cmd \in Offered(redactForPlayer(p))
      \/ cmd.type = "take" /\ Unbeaten(table) = {}
      \/ cmd.type = "attack" /\ isJoker(cmd.card) /\ ~canAttackWith(cmd.card, table)

(* And it offers no move the rules forbid: what it offers, the engine accepts,
   except where the cap on throws, the hand of the next player or the merit of
   an accusation decides, which the client leaves to the server, and jokers
   translated by jokers. *)
MovesAccepted ==
  \A p \in Seats : \A cmd \in Offered(redactForPlayer(p)) :
    \/ Accepts(cmd)
    \/ cmd.type = "attack" /\ attacksRemaining(table) = 0
    \/ cmd.type = "translate" /\ \/ isJoker(cmd.card)
                                 \/ Len(table) + 1 > limit(firstDefenseHappened, initialDefenderHandSize)
                                 \/ Len(table) + 1 > Cardinality(hands[nextActivePlayerIndex(place, defender)])
    \/ CheatingEnabled

=============================================================================
