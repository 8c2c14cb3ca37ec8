CONSTANTS
  r1 = r1
  r2 = r2
  e1 = e1
  e2 = e2
  Restarters <- TwoRestarters
  Editors <- NoEditors
  MaxStart = 3
SPECIFICATION Spec
INVARIANT
  RestartedIsTrue
