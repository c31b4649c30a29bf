SPECIFICATION Spec
CONSTANTS
  RetryMax = 2
  InputLens = {1, 2}
  MaxFaults = 2
  EbsMayPreempt = FALSE
INVARIANTS
  BusIdleAtHandoff
