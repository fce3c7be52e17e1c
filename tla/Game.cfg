SPECIFICATION Spec
CONSTANTS
  b1 = b1
  b2 = b2
  b3 = b3
  Boxes = {b1, b2, b3}
  Penalty = 3
  MaxTime = 7
  MaxHandlers = 3
  MaxIntervals = 3
  MaxGames = 3
SYMMETRY BoxSymmetry
INVARIANTS
  TypeOK
  TimersHeld
  ScoresMatchBoxes
  ResultsKept
