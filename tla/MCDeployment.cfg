CONSTANTS
  None = None
  MaxCommands = 4
  MaxFaults = 3
  MaxEdits = 2
SPECIFICATION FairSpec
INVARIANTS
  TypeOK
  RemovedMeansStopped
  InstalledServes
  GeneratedPairMatches
PROPERTIES
  KeepsFiles
  InstalledComesUp
CHECK_DEADLOCK FALSE
