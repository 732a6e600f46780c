SPECIFICATION Spec
CONSTANTS
  who = who
  df = df
  Cmds <- MCCmds
  Elevated <- MCElevated
  MayCancel = TRUE
INVARIANT GroupEnds
CHECK_DEADLOCK FALSE
