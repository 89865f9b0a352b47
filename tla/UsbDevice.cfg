SPECIFICATION Spec
CONSTANTS
  Indices = {0, 1, 2, 3, 4, 5, 6, 7, 8, 238}
  NoString = NoString
INVARIANTS
  TypeOK
  StringsAreAnswered
PROPERTIES
  ResetsAreObeyed
CHECK_DEADLOCK FALSE
