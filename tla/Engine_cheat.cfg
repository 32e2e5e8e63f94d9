\* Three players who may cheat, and call each other out.
SPECIFICATION Spec
CONSTANTS
  N = 3
  Deck <- SixCards
  DeckOrders <- SixOrders
  NoCard = NoCard
  HandSize = 2
  BoutCap = 3
  FirstBoutLimit = 2
  AttackerScope = "all"
  ExclusiveThrowIn = FALSE
  CheatingEnabled = TRUE
  CheatNoticeScope = "all"
  CheatAttempts = 1
  FirstTurn = "lowest_trump"
INVARIANTS TypeOK DefenderCanAnswer PhaseAlive MovesOffered
