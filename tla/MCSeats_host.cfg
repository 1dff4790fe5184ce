SPECIFICATION Spec
CONSTANTS
  s1 = s1
  s2 = s2
  s3 = s3
  a = a
  i1 = i1
  i2 = i2
  None = None
  Socks = {s1, s2, s3}
  Accounts = {}
  Insts = {i1}
  MaxPlayers = 3
  MaxToggles = 2
  MaxCalls = 1
CHECK_DEADLOCK FALSE
SYMMETRY Symmetry
INVARIANTS
  HostSeated
