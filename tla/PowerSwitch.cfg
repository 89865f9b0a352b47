SPECIFICATION StatusFairSpec
CONSTANTS
  Durations = {0, 1, 3}
  QueueLength = 1
  NoPress = NoPress
INVARIANTS
  TypeOK
  ReleasedBetweenPresses
  SettledPressIsWhole
  PinIsOutput
  LedNeedsWifi
PROPERTIES
  ButtonPromise
  QueuedRequestIsPressed
  PressEnds
  SenseFollows
  StatusAfterBootIsRight
