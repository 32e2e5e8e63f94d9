\* Three players, no cheating, everybody may throw once the primary attacker has.
SPECIFICATION Spec
CONSTANTS
  N = 3
  Deck <- SevenCards
  DeckOrders <- SevenOrders
  NoCard = NoCard
  HandSize = 2
  BoutCap = 3
  FirstBoutLimit = 0
  AttackerScope = "all"
  ExclusiveThrowIn = TRUE
  CheatingEnabled = FALSE
  CheatNoticeScope = "all"
  CheatAttempts = 1
  FirstTurn = "lowest_trump"
INVARIANTS CardsConserved SomebodyCanMove ResultHonest FlagsHold MovesOffered MovesAccepted
PROPERTIES RolesRotate BoutProgress ImplementsBoutProtocol
