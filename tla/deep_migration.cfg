SPECIFICATION Spec
CONSTANTS
  s1 = s1
  s2 = s2
  sd = sd
  Path <- DeepPaths
  Target <- Deep
  Src = {s1, s2, sd}
  DirSrc = {sd}
  Leaf = "x"
  Foreign = {}
  User = {}
  Partial = Partial
  None = None
  BackupOf <- MCBackupOf
  AsideOf <- MCAsideOf
  Manifests <- DeepManifests
  OutOfStore = {}
  UserPath <- Deep
  RootKind = "home"
  Modifiers <- PlainOnly
  UserDuringRun = FALSE
  MaxGens = 2
  MaxFaults = 1
  MaxCrashes = 0
  MaxEdits = 0
INVARIANTS
  UnwindRestores
