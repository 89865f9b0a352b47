SPECIFICATION FairSpec
CONSTANTS
  Cli = cli_task
  Network = network_task
  Switch = switch_task
  NULL = NULL
  Durations = {0, 2}
  NoPress = NoPress
INVARIANTS
  TypeOK
  WarmBootIsNotRaced
PROPERTIES
  UnracedIsPowerSwitch
  ToggleIsPressed
CONSTRAINT Unraced
CHECK_DEADLOCK FALSE
