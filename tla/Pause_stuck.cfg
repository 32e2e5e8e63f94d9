SPECIFICATION Spec
CONSTANTS
  a = a
  b = b
  c = c
  Players <- Two
  Timer = Timer
  MaxDrops = 2
INVARIANTS VoteNeverStuck
CHECK_DEADLOCK FALSE
