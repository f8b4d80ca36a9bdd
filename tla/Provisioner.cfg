SPECIFICATION Spec
CONSTANTS
  s1 = s1
  s2 = s2
  q1 = q1
  q2 = q2
  Sessions = {s1, s2}
  Procs = {q1, q2}
  ProcOf <- OneEach
  Tasks = {k1, k2}
  Start = 30000
  Capacity = 3
  Offset <- Offsets
  Need = 2
  Free = Free
  Host = Host
  Nobody = Nobody
  NoRuntime = NoRuntime
  MaxFaults = 2
  MaxInc = 2
  MaxLaunches = 2
INVARIANTS TypeOK PortsExclusive Wired NothingLeft
PROPERTY LaunchEnds
CHECK_DEADLOCK FALSE
