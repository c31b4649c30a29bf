SPECIFICATION FairSpec
CONSTANTS
  RetryMax = 4
  InputLens = {1, 2}
  MaxFaults = 2
  EbsMayPreempt = FALSE
INVARIANTS
  TypeOK
  PollBufferFits
  NoBringUpWhenLive
  HandlesOpen
  DevOutlivesEvents
  QuietHandoff
PROPERTIES
  ServiceSpec
  LatePanelIsBroughtUp
