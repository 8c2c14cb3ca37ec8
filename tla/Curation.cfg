CONSTANTS
  i1 = i1
  i2 = i2
  a1 = a1
  a2 = a2
  p1 = p1
  p2 = p2
  x1 = x1
  c1 = c1
  n1 = n1
  t1 = t1
  t2 = t2
  f1 = f1
  f2 = f2
  f3 = f3
  f4 = f4
  Gone = Gone
  Things <- Everything
  Before <- Ahead
  Forms <- MayBe
  Start <- AllWell
  Families <- ToolFamilies
  Tellings <- News
  Asks <- Limits
  Selections <- Curations
  MaxCalls = 1
  DefaultLimit = 2
  MaxLimit = 3
SPECIFICATION Spec
INVARIANT
  CurationFixes
CHECK_DEADLOCK FALSE
