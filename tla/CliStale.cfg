SPECIFICATION Spec
CONSTANTS
  Words <- MCWords
  Value <- MCValue
  LineSize = 3
PROPERTY AnnouncedToggleHappens
CHECK_DEADLOCK FALSE
