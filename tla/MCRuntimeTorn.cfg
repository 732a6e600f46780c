SPECIFICATION Spec
CONSTANTS
  builtin = builtin
  bash = bash
  series = series
  c1 = c1
  Handlers <- MCHandlers
  Builtin = builtin
  Series <- MCSeries
  Clients <- MCClients
  MaxCycles = 3
  MaxRequests = 1
  SlowDisk = TRUE
  DiskFaults = FALSE
INVARIANT RepliesWhole
CHECK_DEADLOCK FALSE
