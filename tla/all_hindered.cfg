SPECIFICATION Spec
CONSTANTS
  Path <- SharedPaths
  Target <- Shared
  Src = {"old1", "old2", "new1", "new2"}
  DirSrc = {}
  Leaf = "x"
  Foreign = {}
  User = {u1}
  Partial = Partial
  None = None
  BackupOf <- NoBackup
  Config = {1, 2}
  Jobs = 2
  Disk = {"h"}
  DirOf <- HomeDir
  Override = "home"
  Candidates <- Neighbours
  Filters = {None}
  Strays <- NoStray
  Mine = u1
  MaxFaults = 0
INVARIANTS
  OwnFailuresOnly
