SPECIFICATION FairSpec
CONSTANTS
  c1 = c1
  c2 = c2
  Clients <- MCClients
  Messages <- MCMessages
  BufferSize = 16
  ZeroReads = 1
PROPERTY ErrorsRestartTheServer
CHECK_DEADLOCK FALSE
