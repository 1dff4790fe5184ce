SPECIFICATION Spec
CONSTANTS
  s1 = s1
  s2 = s2
  s3 = s3
  a = a
  i1 = i1
  i2 = i2
  None = None
  Socks = {s1, s2}
  Accounts = {a}
  Insts = {i1}
  MaxPlayers = 3
  MaxToggles = 2
  MaxCalls = 2
CHECK_DEADLOCK FALSE
SYMMETRY Symmetry
INVARIANTS
  TypeOK
  OneOwner
PROPERTIES
  SupersededCloseIsNoop
  LedgerSpec
