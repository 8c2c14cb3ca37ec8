CONSTANTS
  r1 = r1
  r2 = r2
  e1 = e1
  e2 = e2
  Restarters <- OneRestarter
  Editors <- TwoEditors
  MaxStart = 3
SPECIFICATION FairSpec
INVARIANTS
  TypeOK
  RestartedIsTrue
PROPERTIES
  NoneCutOff
  EveryCallEnds
