SPECIFICATION FairSpec
CONSTANTS
  Senders = {cli_task, network_task}
  Receiver = switch_task
  NULL = NULL
INVARIANTS
  TypeOK
  SerialTasksShareOneQueue
  SerialGetMakesOneQueue
PROPERTIES
  HandleSettles
  SerialItemsAreReceived
CHECK_DEADLOCK FALSE
