SPECIFICATION FileSpec
CONSTANTS
  cli_task = cli_task
  network_task = network_task
  Users <- MCUsers
  Host = usb_task
  Selects = {1031}
  HostTexts <- MCHostTexts
  Sizes = {18}
SYMMETRY UserSymmetry
INVARIANTS
  TypeOK
  WholeWritesStay
PROPERTIES
  CleanGetIsLastSet
  CleanHostReadIsLast
  FileIsTheLine
