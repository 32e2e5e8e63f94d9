--------------------------- MODULE MCDurakEngine ---------------------------
(***************************************************************************)
(* Small decks for TLC.  Ranks repeat across suits so that throw-ins and   *)
(* translates happen; the shuffles are strides through the listed deck.    *)
(***************************************************************************)
EXTENDS GamePage

(* The listed deck and the deck turned over. *)
TwoOrders(listed) == {listed, Reverse(listed)}

DeckOfSix == <<Standard("hearts", 6), Standard("spades", 6), Standard("hearts", 7),
               Standard("spades", 7), Standard("clubs", 6), Standard("clubs", 7)>>
SixCards  == Range(DeckOfSix)
SixOrders == TwoOrders(DeckOfSix)

DeckOfSeven == <<Standard("hearts", 6), Standard("spades", 6), Standard("clubs", 6),
                 Standard("hearts", 7), Standard("spades", 7), Standard("clubs", 7),
                 Joker("black")>>
SevenCards  == Range(DeckOfSeven)
SevenOrders == TwoOrders(DeckOfSeven)
=============================================================================
