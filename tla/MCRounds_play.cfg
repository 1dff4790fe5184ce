SPECIFICATION FairSpec
CONSTANTS
  ch = ch
  cg = cg
  h = h
  g = g
  None = None
  Conns = {ch, cg}
  Players = {h, g}
  Owner <- OwnerPairs
  Host = h
  Dice = {1, 2}
  MaxRounds = 3
  MaxToggles = 2
  MaxFails = 1
CHECK_DEADLOCK FALSE
INVARIANTS
  TypeOK
  Credited
PROPERTIES
  ClockSpec
  LocksKept
  WonIsAdvanced
