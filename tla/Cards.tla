------------------------------- MODULE Cards -------------------------------
(***************************************************************************)
(* The cards of packages/game-engine/src/deck/card.ts and the choice of    *)
(* the trump (strategies/trump.ts).  A card is the record its makers build; *)
(* its id is a function of its suit and rank, or of its colour, so the     *)
(* record itself stands for the id.                                        *)
(***************************************************************************)
EXTENDS Integers, Sequences, FiniteSetsExt

Suits   == {"spades", "hearts", "diamonds", "clubs"}
Colours == {"red", "black"}

StandardCard == [kind : {"standard"}, suit : Suits, rank : Nat]
JokerCard    == [kind : {"joker"}, color : Colours]

isStandard(c) == c.kind = "standard"
isJoker(c)    == c.kind = "joker"

Standard(suit, rank) == [kind |-> "standard", suit |-> suit, rank |-> rank]
Joker(color)         == [kind |-> "joker", color |-> color]

suitColor(suit) == IF suit \in {"hearts", "diamonds"} THEN "red" ELSE "black"

(***************************************************************************)
(* Does card d beat card a?  A joker beats the standard cards of its own   *)
(* colour, nothing beats a joker, and between standard cards the higher    *)
(* card of the suit or a trump on a plain suit wins.                       *)
(***************************************************************************)
beats(d, a, trumpSuit) ==
  /\ isStandard(a)
  /\ \/ isJoker(d) /\ suitColor(a.suit) = d.color
     \/ isStandard(d) /\ d.suit = a.suit /\ d.rank > a.rank
     \/ isStandard(d) /\ d.suit # a.suit /\ d.suit = trumpSuit

SameRank(c, d) == isStandard(c) /\ isStandard(d) /\ c.rank = d.rank

(***************************************************************************)
(* The trump is the first standard card counted from the bottom (index 1)  *)
(* of the shuffled deck; createGame then moves it to the very bottom.      *)
(* A deck of jokers only has no trump card and falls back to clubs.        *)
(***************************************************************************)
TrumpPositions(order) == {i \in DOMAIN order : isStandard(order[i])}

SelectTrump(order) ==
  IF TrumpPositions(order) = {} THEN "clubs" ELSE order[Min(TrumpPositions(order))].suit

TrumpToBottom(order) ==
  IF TrumpPositions(order) = {} THEN order
  ELSE LET t == Min(TrumpPositions(order))
       IN  [i \in DOMAIN order |-> IF i = 1 THEN order[t]
                                   ELSE IF i <= t THEN order[i - 1] ELSE order[i]]
=============================================================================
