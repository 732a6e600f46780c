SPECIFICATION Spec
CONSTANTS
  builtin = builtin
  bash = bash
  series = series
  c1 = c1
  Handlers <- MCHandlers
  Builtin = builtin
  Series <- MCSeries
  Clients <- MCClients
  MaxCycles = 2
  MaxRequests = 0
  SlowDisk = FALSE
  DiskFaults = FALSE
INVARIANT AbortedCycleKeepsCache
CHECK_DEADLOCK FALSE
