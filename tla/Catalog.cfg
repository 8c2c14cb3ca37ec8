CONSTANTS
  r1 = r1
  a1 = a1
  t1 = t1
  x1 = x1
  Readers <- MCReader
  Adders <- MCAdders
  Runners <- MCRunners
  Cancellers <- MCCancellers
  Commands <- MCCommands
  Nobody = Nobody
  MaxDefs <- MCMaxDefs
SPECIFICATION FairSpec
INVARIANTS
  TypeOK
  NeverOlder
  CancelledNeverRuns
PROPERTY
  EveryCallEnds
