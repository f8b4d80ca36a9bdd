SPECIFICATION Spec
CONSTANTS
  Names = {n1, n2}
  Unleased = Unleased
  Blank = Blank
  Start = 10
  End = 11
  Unusable = {}
  Workers = {w1, w2}
  Main = Main
  Nobody = Nobody
  Pids = {10}
  Uid <- MCUid
  Kinds = {"jail"}
  Backends = {"zvol-clone"}
  HostAddress = 1
  Epairs = {e1, e2}
  Mds = {}
  NoUnit = NoUnit
  NoRecord = NoRecord
  NoName = NoName
  NoPid = NoPid
  Reconciles = {TRUE, FALSE}
  MaxRequests = 3
  MaxFaults = 1
  MaxCrashes = 1
  MaxInc = 1
SYMMETRY JailSymmetry
INVARIANTS
  AddressesDistinct
CHECK_DEADLOCK FALSE
