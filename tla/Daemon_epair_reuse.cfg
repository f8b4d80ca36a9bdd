SPECIFICATION Spec
CONSTANTS
  Names = {n1, n2}
  Unleased = Unleased
  Blank = Blank
  Start = 10
  End = 11
  Unusable = {}
  Workers = {w1}
  Main = Main
  Nobody = Nobody
  Pids = {10, 20}
  Uid <- MCUid
  Kinds = {"jail"}
  Backends = {"zvol-clone"}
  HostAddress = 1
  Epairs = {e1}
  Mds = {}
  NoUnit = NoUnit
  NoRecord = NoRecord
  NoName = NoName
  NoPid = NoPid
  Reconciles = {TRUE}
  MaxRequests = 4
  MaxFaults = 1
  MaxCrashes = 0
  MaxInc = 1
PROPERTIES
  DestroySparesOthers
CHECK_DEADLOCK FALSE
