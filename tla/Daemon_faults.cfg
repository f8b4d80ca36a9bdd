SPECIFICATION Spec
CONSTANTS
  Names = {n1}
  Unleased = Unleased
  Blank = Blank
  Start = 10
  End = 11
  Unusable = {}
  Workers = {w1, w2}
  Main = Main
  Nobody = Nobody
  Pids = {5, 10}
  Uid <- MCUid
  Kinds = {"jail", "bhyve"}
  Backends = {"zvol-clone", "none"}
  HostAddress = 11
  Epairs = {e1, e2}
  Mds = {}
  NoUnit = NoUnit
  NoRecord = NoRecord
  NoName = NoName
  NoPid = NoPid
  Reconciles = {TRUE}
  MaxRequests = 2
  MaxFaults = 2
  MaxCrashes = 1
  MaxInc = 1
SYMMETRY JailSymmetry1
INVARIANTS
  TypeOK
  RegisteredWhileExisting
PROPERTIES
  ImplementsLifecycle
CHECK_DEADLOCK FALSE
