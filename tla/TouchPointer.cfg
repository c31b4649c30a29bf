SPECIFICATION FairSpec
CONSTANTS
  XMax = 1
  YMax = 2
  Contacts <- MCContacts
  GopModes = {"none", "portrait", "landscape"}
  VideoSwitch = TRUE
  QueueMax = 2
  MaxFaults = 1
INVARIANTS
  TypeOK
  NoLostUpdate
  PositionInRange
PROPERTIES
  SlotSpec
  ReleaseArrives
