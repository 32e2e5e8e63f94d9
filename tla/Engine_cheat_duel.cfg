\* Two players who may cheat, with a pile to draw from, and the book of their cheats.
SPECIFICATION BookSpec
CONSTANTS
  N = 2
  Deck <- SevenCards
  DeckOrders <- SevenOrders
  NoCard = NoCard
  HandSize = 2
  BoutCap = 3
  FirstBoutLimit = 2
  AttackerScope = "all"
  ExclusiveThrowIn = FALSE
  CheatingEnabled = TRUE
  CheatNoticeScope = "defender_only"
  CheatAttempts = 1
  FirstTurn = "random"
INVARIANTS HandsRefilled CheatHistory
