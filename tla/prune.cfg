SPECIFICATION FairSpec
CONSTANTS
  Root = {r1}
  Name = {n1, n2}
  Runner = {a1, a2}
  Pruner = {p1}
  Nobody = Nobody
  MaxInodes = 2
  MaxRuns = 2
  MaxRootChanges = 1
  MaxCrashes = 1
INVARIANTS
  TypeOK
  LocksComeFirst
  BackrefLast
PROPERTIES
  NoRemovalUnderRun
  WaitingRunsGo
