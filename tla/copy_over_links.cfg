SPECIFICATION Spec
CONSTANTS
  s1 = s1
  s2 = s2
  sd = sd
  Path <- NestedPaths
  Target <- Nested
  Src = {s1, s2, sd}
  DirSrc = {sd}
  Leaf = "x"
  Foreign = {f1}
  User = {u1}
  Partial = Partial
  None = None
  BackupOf <- MCBackupOf
  AsideOf <- MCAsideOf
  Manifests <- CopyOverLinks
  OutOfStore = {}
  UserPath <- Nested
  RootKind = "home"
  Modifiers <- PlainOnly
  UserDuringRun = FALSE
  MaxGens = 2
  MaxFaults = 0
  MaxCrashes = 0
  MaxEdits = 0
INVARIANTS
  PlacedWhenRecorded
