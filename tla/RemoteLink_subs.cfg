SPECIFICATION Spec
CONSTANTS
  Calls = {"s1", "s2", "u"}
  Resub = "resub"
  Kind <- SubKinds
  Key <- SubKey
  Want <- SubWant
  Keys = {"k"}
  Symbols = {"x", "y"}
  MaxConns = 4
  MaxDrops = 1
  MaxSubs = 2
  SlowClose = TRUE
INVARIANTS
  AwaitedIsRead
  SubscribedIsServed
  ClosedIsForgotten
CHECK_DEADLOCK FALSE
