SPECIFICATION Spec
CONSTANTS
  Names = {n1, n2}
  Callers = {c1, c2}
  Nobody = Nobody
  Unleased = Unleased
  Blank = Blank
  Start = 10
  End = 12
  Unusable = {11}
INVARIANT TypeOK
PROPERTY ImplementsAddressPool
CHECK_DEADLOCK TRUE
