SPECIFICATION FairSpec
CONSTANTS
  s1 = s1
  s2 = s2
  sd = sd
  Path <- NestedPaths
  Target <- Nested
  Src = {s1, s2, sd}
  DirSrc = {sd}
  Leaf = "x"
  Foreign = {f1}
  User = {}
  Partial = Partial
  None = None
  BackupOf <- MCBackupOf
  AsideOf <- MCAsideOf
  Manifests <- MixedManifests
  OutOfStore = {s2}
  UserPath <- Nested
  RootKind = "home"
  Modifiers <- EveryModifier
  UserDuringRun = TRUE
  MaxGens = 2
  MaxFaults = 0
  MaxCrashes = 0
  MaxEdits = 2
PROPERTIES
  RunsEnd
