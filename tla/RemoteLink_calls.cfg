SPECIFICATION FairSpec
CONSTANTS
  Calls = {"w", "i"}
  Resub = "resub"
  Kind <- CallKinds
  Key <- CallKey
  Want <- CallWant
  Keys = {"k"}
  Symbols = {"x"}
  MaxConns = 4
  MaxDrops = 1
  MaxSubs = 1
  SlowClose = TRUE
INVARIANTS
  WritesAreNotRepeated
PROPERTIES
  LinkComesBack
  CallsEnd
CHECK_DEADLOCK FALSE
