SPECIFICATION FairSpec
CONSTANTS
  Names = {n1}
  Unleased = Unleased
  Blank = Blank
  Start = 10
  End = 10
  Unusable = {}
  Workers = {w1}
  Main = Main
  Nobody = Nobody
  Pids = {10}
  Uid <- MCUid
  Kinds = {"jail"}
  Backends = {"zvol-clone"}
  HostAddress = 1
  Epairs = {e1, e2}
  Mds = {}
  NoUnit = NoUnit
  NoRecord = NoRecord
  NoName = NoName
  NoPid = NoPid
  Reconciles = {TRUE}
  MaxRequests = 2
  MaxFaults = 0
  MaxCrashes = 0
  MaxInc = 1
PROPERTIES
  ReconcileCompletes
CHECK_DEADLOCK FALSE
