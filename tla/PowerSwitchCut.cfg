SPECIFICATION Spec
CONSTANTS
  Durations = {0, 1, 3}
  QueueLength = 1
  NoPress = NoPress
INVARIANT TogglesForTheWholeTime
