SPECIFICATION Spec
CONSTANTS
  Jobs = {j1, j2}
  Developer = Developer
  MaxTries = 3
  LateLandings = TRUE
  MaxCheckpoints = 2
  MaxForeign = 2
INVARIANTS ReadyIsDurable AckedIsDurable BasisIsOwn
PROPERTIES ImplementsStore
CHECK_DEADLOCK FALSE
