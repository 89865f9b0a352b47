SPECIFICATION Spec
CONSTANTS
  Words <- MCWords
  Value <- MCValue
  LineSize = 3
INVARIANT TypeOK
PROPERTIES
  RunsWhatIsShown
  EffectsAreAnnounced
CHECK_DEADLOCK FALSE
