CONSTANTS
  Tries <- MCTries
  Never = Never
SPECIFICATION Spec
INVARIANTS
  TypeOK
  WriteLandsOnce
  SentNoMoreThanTries
CHECK_DEADLOCK FALSE
