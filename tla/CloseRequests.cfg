CONSTANTS
  LastMonth = 2
  MaxPosts = 1
  CheckinValues = {}
  CheckinMonths = {}
  CheckinIds = {}
  Modes = {"ready"}
  Procs = {p1, p2}
  solo = solo
SPECIFICATION CloseSpec
SYMMETRY Interchangeable
INVARIANTS CloseTypeOK NoClosesWaiting ChainHolds ClosedCheckinsSeen
PROPERTIES ClosedStay
CHECK_DEADLOCK FALSE
