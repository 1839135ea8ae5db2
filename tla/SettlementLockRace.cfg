CONSTANTS
  Closes = {1}
  Recs = {1}
  TxIds = {1}
  Amounts = {}
  ClientKeys = {}
  Procs = {p1}
  Routes = {"operating to ana"}
  CloseOf <- OneClose
  Amount <- AmountOne
  Route <- SharedRoute
SPECIFICATION Spec
PROPERTIES LockedCloseIsFrozen
CHECK_DEADLOCK FALSE
