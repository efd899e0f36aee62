SPECIFICATION Spec
CONSTANTS
  Leases = {"m", "p"}
  Scopes = {"all", "x"}
  Full = {"all"}
  GroupOf <- OneGroup
  ScopesOf <- EachOne
  MaxActions = 3
  MaxEpoch = 3
  MaxFaults = 1
INVARIANTS
  OneActionPerScope
  NoStray
  ConfirmedIsCovered
  DispatchedUnlessSkipped
PROPERTIES
  CoverageIsKept
CHECK_DEADLOCK FALSE
