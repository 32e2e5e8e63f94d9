SPECIFICATION LiveSpec
CONSTANTS
  a = a
  b = b
  c = c
  Players <- Three
  Nobody = Nobody
  Attempts = 3
  MaxDrops = 0
  MaxFaults = 0
PROPERTIES AnswerForced
