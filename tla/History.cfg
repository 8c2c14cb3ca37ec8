CONSTANTS
  g1 = g1
  g2 = g2
  g3 = g3
  Size = 2
  MaxEvents = 5
  Cutoff = 3
  Starts <- MCStarts
  MaxLast = 10
  Owned <- MCOwned
  Releases <- MCReleases
  Theirs = Theirs
SPECIFICATION Spec
INVARIANTS
  TypeOK
  MissedAreFew
  ReadsAreBounded
  GrabNamesOwn
CHECK_DEADLOCK FALSE
