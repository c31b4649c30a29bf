SPECIFICATION FairSpec
CONSTANTS
  Requests <- MCRequests
  MaxXfers = 3
  TxDepth = 2
  RxDepth = 2
  InflightMax = 2
  SpinLimit = 1
  SpinBudget = 2
INVARIANTS
  TypeOK
  NoOverflow
  OneTransferOnWire
PROPERTY
  TransferSpec
