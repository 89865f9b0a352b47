SPECIFICATION FairSpec
CONSTANT MaxBehind = 20
INVARIANTS
  TypeOK
  SleepsConnected
PROPERTIES
  Released
  OutagesEnd
  StaysConnected
  CatchesUp
