CONSTANTS
  Closes = {1}
  Recs = {1, 2}
  TxIds = {1, 2, 3}
  Amounts = {}
  ClientKeys = {}
  Procs = {p1, p2}
  Routes = {"operating to ana", "operating to ben"}
  CloseOf <- OneClose
  Amount <- AmountOne
  Route <- OwnRoutes
SPECIFICATION FairSpec
INVARIANTS OwnRouteConserves
PROPERTIES RequestsEnd
CHECK_DEADLOCK FALSE
