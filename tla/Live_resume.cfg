SPECIFICATION LiveSpec
CONSTANTS
  a = a
  b = b
  c = c
  Players <- Two
  Nobody = Nobody
  Attempts = 3
  MaxDrops = 1
  MaxFaults = 0
PROPERTIES ClockForcesMove
