SPECIFICATION Spec
CONSTANTS
  s1 = s1
  s2 = s2
  s3 = s3
  a = a
  i1 = i1
  i2 = i2
  None = None
  Socks = {s1, s2}
  Accounts = {}
  Insts = {i1}
  MaxPlayers = 2
  MaxToggles = 0
  MaxCalls = 1
CHECK_DEADLOCK FALSE
SYMMETRY Symmetry
PROPERTIES
  ReconnectKeepsSeat
