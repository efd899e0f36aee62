SPECIFICATION FairSpec
CONSTANTS
  Assets <- TwoAssets
  Rank <- TwoRanks
  Securities = {"pos", "fund"}
  KeyOf <- TwoKeys
  Holdings <- TwoHoldings
  Base <- TwoBase
  Modes = {"full", "canary", "dry_run"}
  CanaryVolume = 1
  StableSamples = 2
  MaxDay = 2
  MaxFaults = 2
  MaxLate = 1
  MaxOrders = 1
  MaxAmount = 4
INVARIANTS
  AtMostOneTransfer
  OneAtATime
  JournalIsTrue
CHECK_DEADLOCK FALSE
PROPERTIES
  OrdersOnlyWhenComplete
  DayCompletes
