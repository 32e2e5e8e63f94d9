SPECIFICATION Spec
CONSTANTS
  a = a
  b = b
  c = c
  Players <- Three
  Nobody = Nobody
  Attempts = 3
  MaxDrops = 1
  MaxFaults = 1
SYMMETRY Symmetry
INVARIANTS TypeOK OneWriter ResultKept ClockAgrees PauseStopsPlay
