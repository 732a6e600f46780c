SPECIFICATION FairSpec
CONSTANTS
  who = who
  df = df
  Cmds <- MCCmds
  Elevated <- MCElevated
  MayCancel = TRUE
INVARIANTS TypeOK OwnCommandsEnd GroupKilled ResultsAreComplete
PROPERTIES RunManyEnds
CHECK_DEADLOCK FALSE
