SPECIFICATION Spec
CONSTANTS
  Requests <- MCRequests
  MaxXfers = 1
  TxDepth = 2
  RxDepth = 2
  InflightMax = 2
  SpinLimit = 1
  SpinBudget = 2
INVARIANTS
  AbortsAreReported
