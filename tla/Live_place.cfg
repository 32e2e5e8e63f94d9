SPECIFICATION Spec
CONSTANTS
  a = a
  b = b
  c = c
  Players <- Three
  Nobody = Nobody
  Attempts = 3
  MaxDrops = 1
  MaxFaults = 0
PROPERTIES FinishedKeepPlace
