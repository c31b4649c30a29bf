SPECIFICATION Spec
CONSTANTS
  XMax = 1
  YMax = 2
  Contacts <- MCContacts
  GopModes = {"portrait"}
  VideoSwitch = TRUE
  QueueMax = 2
  MaxFaults = 0
INVARIANTS
  ReleaseLandsInRange
