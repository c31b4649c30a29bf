SPECIFICATION Spec
CONSTANTS
  Profiles <- MCProfiles
  Addrs <- MCAddrs
  Regs <- MCRegs
  Settings <- MCSlowSettings
  MaxAttempts = 2
INVARIANT
  FreshTimingProgrammed
