SPECIFICATION Spec
CONSTANTS
  Codes <- MCCodes
  MaxNoise = 2
  Nearby = {"a", "b"}
  MaxEntries = 2
  MaxLists = 2
  Queries = {"q1", "q2"}
  MaxOpens = 2
  MaxTyped = 3
  Guests = {"b", "c", "d"}
  MaxFrames = 4
  Users = {"ann", "bob"}
  Headers = {"landing", "lobby"}
  MaxSignIns = 3
  MaxLookups = 3
  MaxHistory = 3
  MaxMoves = 4
  MaxArrivals = 3
  MaxWires = 3
  MaxHandlers = 3
  Instances = {"x", "y"}
  Players = {"p", "q"}
  MaxSockets = 3
  MaxRolls = 2
  MaxWrites = 2
  Pids = {guest}
  Names = {"m", "n"}
  MaxSignups = 3
  Hosts = {"x", "y"}
  Cap = 1
  MaxPeers = 3
CHECK_DEADLOCK FALSE
INVARIANTS
  DegradesSilently
