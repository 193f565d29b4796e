SPECIFICATION Spec
CONSTANTS
  Path <- SharedPaths
  Target <- Shared
  Src = {"old1", "old2", "new1", "new2"}
  DirSrc = {}
  Leaf = "x"
  Foreign = {}
  User = {u1}
  Partial = Partial
  None = None
  BackupOf <- NoBackup
  Config = {1, 2}
  Jobs = 2
  Disk = {"h", "p"}
  DirOf <- EachItsDir
  Override = "over"
  Candidates <- AnyRoots
  Filters = {None, "home"}
  Strays <- MaybeStray
  Mine = u1
  MaxFaults = 1
INVARIANTS
  TypeOK
  AppliedIsPlaced
  ExitCodeTells
  BystandersKeep
  BuildsComeFirst
