SPECIFICATION Spec
CONSTANTS
  Nothing = Nothing
  Dice = 2
  MaxRounds = 1
  MaxTurns = 1
  MaxEvents = 1
  MaxLost = 0
  MaxBurst = 1
CHECK_DEADLOCK FALSE
INVARIANTS
  ScoreboardInSight
