CONSTANTS
  Closes = {1}
  Recs = {1, 2}
  TxIds = {1, 2}
  Amounts = {1}
  ClientKeys = {}
  Procs = {p1, p2}
  Routes = {"operating to ana"}
  CloseOf <- OneClose
  Amount <- AmountOne
  Route <- SharedRoute
SPECIFICATION Spec
INVARIANTS TransferSettlesOnce
CHECK_DEADLOCK FALSE
