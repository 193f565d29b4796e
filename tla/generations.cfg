SPECIFICATION Spec
CONSTANTS
  Farm = {f1, f2}
  None = None
  Runner = {a1, a2}
  Nobody = Nobody
  Skips = TRUE
  MaxGen = 3
  MaxCrashes = 1
  MaxOutside = 1
SYMMETRY Alike
INVARIANTS
  TypeOK
  NeverDangles
  SettledAgrees
  ReportsItsMove
PROPERTIES
  
  RollbackOneBack
