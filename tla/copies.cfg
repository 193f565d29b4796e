SPECIFICATION ReportSpec
CONSTANTS
  s1 = s1
  s2 = s2
  sd = sd
  Path <- NestedPaths
  Target <- Nested
  Src = {s1, s2, sd}
  DirSrc = {sd}
  Leaf = "x"
  Foreign = {f1}
  User = {u1}
  Partial = Partial
  None = None
  BackupOf <- MCBackupOf
  AsideOf <- MCAsideOf
  Manifests <- CopyManifests
  OutOfStore = {}
  UserPath <- Nested
  RootKind = "project"
  Modifiers <- EveryModifier
  UserDuringRun = FALSE
  MaxGens = 2
  MaxFaults = 1
  MaxCrashes = 0
  MaxEdits = 1
INVARIANTS
  UserDataKept
  UnwindRestores
  PlacedWhenRecorded
  ChangesTellTheTree
  NothingSilent
  DryRunTells
  SkippedUntouched
PROPERTIES
  SuccessIsInPlace
