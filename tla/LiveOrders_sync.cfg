SPECIFICATION FairSpec
CONSTANTS
  Orders = {o1, o2}
  Size = 2
  Readers = {r1}
  Sync = sync
  MaxCancels = 1
  None = None
INVARIANTS
  FinalIsTrue
  AliveIsOpen
  FillsAreReal
PROPERTIES
  StatusSettles
CHECK_DEADLOCK FALSE
