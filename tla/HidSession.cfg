SPECIFICATION Spec
CONSTANTS
  Kinds <- MCKinds
  AckTries = 3
  FirmwareStatuses <- MCFirmwareStatuses
INVARIANTS
  TypeOK
  AcceptedIsOwn
PROPERTY
  TouchComesBack
