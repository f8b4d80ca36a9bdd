SPECIFICATION Spec
CONSTANTS
  Names = {n1}
  Unleased = Unleased
  Blank = Blank
  Start = 10
  End = 10
  Unusable = {}
  Workers = {w1, w2}
  Main = Main
  Nobody = Nobody
  Pids = {10, 20}
  Uid <- MCUid
  Kinds = {"jail", "bhyve"}
  Backends = {"zvol-clone", "memdisk"}
  HostAddress = 1
  Epairs = {e1, e2}
  Mds = {m1, m2}
  NoUnit = NoUnit
  NoRecord = NoRecord
  NoName = NoName
  NoPid = NoPid
  Reconciles = {TRUE}
  MaxRequests = 4
  MaxFaults = 0
  MaxCrashes = 0
  MaxInc = 1
SYMMETRY Symmetry1
INVARIANTS
  AllOrNothing
  OnlyKnownDeadlocks
PROPERTIES
  OnlyOwnerUnregisters
CHECK_DEADLOCK FALSE
