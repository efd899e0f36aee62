SPECIFICATION Spec
CONSTANTS
  Orders = {o1, o2}
  LastMinute = 2
  MaxTasks = 2
  MaxBacks = 1
  MaxOutlived = 1
  Modes <- SwitchModes
  None = None
  NoFile = NoFile
SYMMETRY Symmetry
INVARIANTS
  SentIsSaved
  RestartAccepted
PROPERTIES
  DoneNotRepeated
  GateHolds
  KeptUnlessCrossed
CHECK_DEADLOCK FALSE
