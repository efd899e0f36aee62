SPECIFICATION Spec
CONSTANTS
  Orders = {o1, o2}
  LastMinute = 2
  MaxTasks = 1
  MaxBacks = 0
  MaxOutlived = 1
  Modes <- StrictModes
  None = None
  NoFile = NoFile
SYMMETRY Symmetry
PROPERTIES
  NothingIsForgotten
CHECK_DEADLOCK FALSE
