SPECIFICATION FairSpec
CONSTANTS
  Requests = {"p1", "p2", "p3"}
  Sessions = {"s1", "s2"}
  Keys = {"k1", "k2"}
  Bodies = {"buy", "sell", "-"}
  Contract <- ReuseContract
  Accounts = {"acc"}
  Req <- ReuseReq
  NoReq = "nobody"
  NoBody = "-"
  MaxEntries = 1
  RiskOn = {"acc"}
  MaxTrades = 1
  MaxCancels = 1
  MarkInThread = FALSE
  SingleWorker = FALSE
  NativeErrors = {"coded"}
  MaxEpoch = 1
INVARIANTS
  AtMostOneNativeCall
PROPERTIES
  KeepsPromise
  LockIsReleased
CHECK_DEADLOCK FALSE
