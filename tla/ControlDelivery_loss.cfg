SPECIFICATION FairSpec
CONSTANTS
  Scopes = {"s1", "s2"}
  Callers = {"c1", "c2"}
  Ids = {"r1"}
  None = "none"
  Capacity = 1
  ScopeCapacity = 1
  MaxSignals = 3
INVARIANTS
  AuthorisedIsTold
  UnackedIsOutstanding
PROPERTIES
  KeepsContract
  LossIsTold
CHECK_DEADLOCK FALSE
