CONSTANTS
  Closes = {1, 2}
  Recs = {1}
  TxIds = {1, 2, 3}
  Amounts = {1}
  ClientKeys = {"k"}
  Procs = {p1, p2}
  Routes = {"operating to ana"}
  CloseOf <- LaterClose
  Amount <- AmountTwo
  Route <- SharedRoute
SPECIFICATION Spec
SYMMETRY Interchangeable
INVARIANTS TypeOK RecommendationsStand OneMovementPerKey
PROPERTIES CancelledIsFinal SettlesObligations OnlyOldRequestsAfterLock
CHECK_DEADLOCK FALSE
