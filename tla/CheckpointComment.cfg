SPECIFICATION Spec
CONSTANTS
  Jobs = {j1}
  Developer = Developer
  MaxTries = 2
  LateLandings = FALSE
  MaxCheckpoints = 1
  MaxForeign = 0
INVARIANTS UncertainPushIsResolved
CHECK_DEADLOCK FALSE
