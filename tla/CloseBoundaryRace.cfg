CONSTANTS
  LastMonth = 2
  MaxPosts = 1
  CheckinValues = {}
  CheckinMonths = {}
  CheckinIds = {}
  Modes = {"disabled"}
  Procs = {p1, p2}
SPECIFICATION Spec
INVARIANTS BoundaryHolds
CHECK_DEADLOCK FALSE
