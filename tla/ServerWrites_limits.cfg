SPECIFICATION Spec
CONSTANTS
  Requests = {"p1", "p2", "p3", "c1", "q1"}
  Sessions = {"s1", "s2"}
  Keys = {"k1", "k2", "k3"}
  Bodies = {"buy at 10", "buy at 11", "sell", "p1", "-"}
  Contract <- LimitContract
  Accounts = {"acc"}
  Req <- LimitReq
  NoReq = "nobody"
  NoBody = "-"
  MaxEntries = 2
  RiskOn = {"acc"}
  MaxTrades = 1
  MaxCancels = 1
  MarkInThread = TRUE
  SingleWorker = TRUE
  NativeErrors = {"coded"}
  MaxEpoch = 0
INVARIANTS
  NotCalledIsTrue
  PlaceAnswerTrue
  RejectedStaysDead
  CancelAnswerTrue
  CountsWithinLimits
CHECK_DEADLOCK FALSE
