SPECIFICATION Spec
CONSTANTS
  RetryMax = 4
  InputLens = {1, 2}
  MaxFaults = 2
  EbsMayPreempt = TRUE
INVARIANTS
  RetryHandleOpen
