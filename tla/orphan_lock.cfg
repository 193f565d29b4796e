SPECIFICATION Spec
CONSTANTS
  Root = {r1}
  Name = {n1}
  Runner = {a1, a2}
  Pruner = {p1}
  Nobody = Nobody
  MaxInodes = 3
  MaxRuns = 2
  MaxRootChanges = 1
  MaxCrashes = 0
SYMMETRY Processes
INVARIANTS
  OneRunPerProfile
