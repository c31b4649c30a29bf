SPECIFICATION Spec
CONSTANTS
  Profiles <- MCProfiles
  Addrs <- MCAddrs
  Regs <- MCRegs
  Settings <- MCSettings
  MaxAttempts = 2
INVARIANTS
  TypeOK
  IdentityGate
  IdentityIsRead
  KickOnce
  FailureLeavesIdle
  NoMissedPanel
  PromptTimingProgrammed
  PanelAttributed
  TransportMatches
  PoweredBeforeUse
