SPECIFICATION FairSpec
CONSTANTS
  Names = {n1}
  Unleased = Unleased
  Blank = Blank
  Start = 10
  End = 10
  Unusable = {}
  Workers = {w1, w2}
  Main = Main
  Nobody = Nobody
  Pids = {10}
  Uid <- MCUid
  Kinds = {"jail", "bhyve"}
  Backends = {"legacy"}
  HostAddress = 1
  Epairs = {e1, e2}
  Mds = {}
  NoUnit = NoUnit
  NoRecord = NoRecord
  NoName = NoName
  NoPid = NoPid
  Reconciles = {TRUE}
  MaxRequests = 2
  MaxFaults = 2
  MaxCrashes = 1
  MaxInc = 2
PROPERTIES
  StartupSparesLiveOwners
  StartupReclaimsLeftovers
  StartupReclaimsStale
  RequestsAnswered
CHECK_DEADLOCK FALSE
