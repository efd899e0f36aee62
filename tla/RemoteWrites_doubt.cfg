SPECIFICATION CallSpec
CONSTANTS
  Requests = {"p", "c", "qp", "qc"}
  Sessions = {"s1", "s2"}
  Keys = {"k1", "k2"}
  Bodies = {"buy", "p", "-"}
  Contract <- CallContract
  Accounts = {"acc"}
  Req <- CallReq
  Resolve <- CallResolve
  NoReq = "nobody"
  NoBody = "-"
  MaxEntries = 2
  RiskOn = {"acc"}
  MaxTrades = 1
  MaxCancels = 1
  MarkInThread = FALSE
  SingleWorker = FALSE
  NativeErrors = {"failed", "coded"}
  MaxEpoch = 1
INVARIANTS
  PlaceAnswerTrue
  DoneIsReal
  FailedIsDead
CHECK_DEADLOCK FALSE
