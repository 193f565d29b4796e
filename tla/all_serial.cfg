SPECIFICATION FairSpec
CONSTANTS
  Path <- OverlaidPaths
  Target <- Overlaid
  Src = {"old1", "old2", "new1", "new2"}
  DirSrc = {}
  Leaf = "x"
  Foreign = {}
  User = {u1}
  Partial = Partial
  None = None
  BackupOf <- NoBackup
  Config = {1, 2}
  Jobs = 1
  Disk = {"h"}
  DirOf <- HomeDir
  Override = "home"
  Candidates <- Nested
  Filters = {None}
  Strays <- MaybeStray
  Mine = u1
  MaxFaults = 1
INVARIANTS
  OwnFailuresOnly
  FailedLeavesOwn
  AppliedIsPlaced
PROPERTIES
  EveryConfigSettles
