SPECIFICATION MCSpec
CONSTANTS
  Nothing = Nothing
  Dice = 2
  MaxRounds = 2
  MaxTurns = 2
  MaxEvents = 1
  MaxLost = 1
  MaxBurst = 1
CHECK_DEADLOCK FALSE
INVARIANTS
  TypeOK
  RollHasTimer
  ButtonBack
  LatestShown
  DialogsTrue
PROPERTIES
  RollSettles
