CONSTANTS
  BuiltinConfigs <- MCBuiltinConfigs
  Active = {"Bash", "Builtin"}
  Users = {"alice", "bob"}
  Numbers = {0, 1, 3}
  MaxLines = 3
  AmdConfigs <- MCAmdConfigs
  NA = NA
  MaxCards = 2
  Paths <- MCPaths
  VpnConfigs <- MCVpnConfigs
  Statuses <- MCStatuses
  VpnCommands <- MCVpnCommands
  None = None
SPECIFICATION Spec
INVARIANT StatusFaultTolerated
CHECK_DEADLOCK FALSE
