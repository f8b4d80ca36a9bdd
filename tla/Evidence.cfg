SPECIFICATION Spec
CONSTANTS
  Requests = {1, 2, 3}
  Payloads <- MCPayloads
  MaxEvents = 2
  FsyncEvents = TRUE
  SigningModes = {TRUE, FALSE}
  Absent = Absent
  Torn = Torn
  NoRequest = NoRequest
  NoState = NoState
  MaxSessions = 2
  MaxFaults = 1
  MessageIds = {m1, m2, m3}
  Window = 2
  Notebooks = {b1}
SYMMETRY MessageSymmetry
INVARIANTS
  TypeOK
  LastLineWins
  PanelTruthful
  SuppressedInWindow
PROPERTIES
  ImplementsStream
  ExportVerifies
CHECK_DEADLOCK FALSE
