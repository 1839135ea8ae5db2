CONSTANTS
  LastMonth = 2
  MaxPosts = 1
  CheckinValues = {}
  CheckinMonths = {}
  CheckinIds = {}
  Modes = {"ready"}
  Procs = {p1, p2}
SPECIFICATION Spec
INVARIANTS FrozenAllocationsHold
CHECK_DEADLOCK FALSE
