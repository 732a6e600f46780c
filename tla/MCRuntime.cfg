SPECIFICATION Spec
CONSTANTS
  builtin = builtin
  bash = bash
  series = series
  c1 = c1
  Handlers <- MCHandlers
  Builtin = builtin
  Series <- MCSeries
  Clients <- MCClients
  MaxCycles = 3
  MaxRequests = 2
  SlowDisk = FALSE
  DiskFaults = TRUE
INVARIANTS TypeOK OneWriter FreshCache CacheWhole ServesOwnScrapes ExportedLag NoSeriesTwice
PROPERTIES CountedIsPublished ServedNeverBack KeepsContract
CHECK_DEADLOCK FALSE
