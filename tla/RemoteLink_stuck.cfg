SPECIFICATION FairSpec
CONSTANTS
  Calls = {"s1"}
  Resub = "resub"
  Kind <- OneKinds
  Key <- OneKey
  Want <- OneWant
  Keys = {"k"}
  Symbols = {"x"}
  MaxConns = 4
  MaxDrops = 2
  MaxSubs = 2
  SlowClose = FALSE
PROPERTIES
  LinkComesBack
CHECK_DEADLOCK FALSE
