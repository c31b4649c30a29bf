SPECIFICATION FairSpec
CONSTANTS
  Requests <- MCRequests
  PageSize = 2
  Budget = 1
  MaxXfers = 3
  MaxFaults = 1
INVARIANTS
  TypeOK
  NaksAreReported
  RepeatedOnce
  SpeedKept
PROPERTY
  TransferSpec
