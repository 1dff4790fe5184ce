SPECIFICATION Spec
CONSTANTS
  ch = ch
  cg = cg
  h = h
  g = g
  None = None
  Conns = {ch, cg}
  Players = {h, g}
  Owner <- OwnerPairs
  Host = h
  Dice = {1, 2}
  MaxRounds = 3
  MaxToggles = 0
  MaxFails = 0
CHECK_DEADLOCK FALSE
PROPERTIES
  WinnerHasTarget
