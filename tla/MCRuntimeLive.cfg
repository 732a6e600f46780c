SPECIFICATION FairSpec
CONSTANTS
  builtin = builtin
  bash = bash
  series = series
  c1 = c1
  Handlers <- MCHandlers
  Builtin = builtin
  Series <- MCSeries
  Clients <- MCClients
  MaxCycles = 3
  MaxRequests = 0
  SlowDisk = TRUE
  DiskFaults = TRUE
PROPERTIES CycleEnds NextCycleComes
CHECK_DEADLOCK FALSE
