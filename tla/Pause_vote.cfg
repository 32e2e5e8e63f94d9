SPECIFICATION Spec
CONSTANTS
  a = a
  b = b
  c = c
  Players <- Three
  Timer = Timer
  MaxDrops = 2
SYMMETRY Symmetry
INVARIANTS TypeOK RecordMatchesRoom PauseHasEnd VoteWaits
PROPERTIES BallotsFresh
CHECK_DEADLOCK FALSE
