SPECIFICATION Spec
CONSTANTS
  who = who
  df = df
  Cmds <- MCCmds
  Elevated <- MCElevated
  MayCancel = FALSE
INVARIANT NoStragglers
CHECK_DEADLOCK FALSE
