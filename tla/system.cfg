SPECIFICATION Spec
CONSTANTS
  s1 = s1
  s2 = s2
  sd = sd
  Path <- NestedPaths
  Target <- Nested
  Src = {s1, s2, sd}
  DirSrc = {sd}
  Leaf = "x"
  Foreign = {f1}
  User = {u1}
  Partial = Partial
  None = None
  BackupOf <- MCBackupOf
  AsideOf <- MCAsideOf
  Manifests <- SkipManifests
  OutOfStore = {}
  UserPath <- SkipPaths
  RootKind = "system"
  Modifiers <- PlainOnly
  UserDuringRun = FALSE
  MaxGens = 3
  MaxFaults = 1
  MaxCrashes = 1
  MaxEdits = 2
INVARIANTS
  PlacedWhenRecorded
  StaleGone
  EveryLinkKnown
