SPECIFICATION Spec
CONSTANTS
  Cli = cli_task
  Network = network_task
  Switch = switch_task
  NULL = NULL
  Durations = {1}
  NoPress = NoPress
INVARIANT TasksMakeOneQueue
CHECK_DEADLOCK FALSE
