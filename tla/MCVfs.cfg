SPECIFICATION Spec
CONSTANTS
  NClus = 7
  SEC = 4
  spc = 2
  MAX_TAIL = 1
  CHARS = 2
  STEM = 1
  NBlocks = 10
  NInodes = 5
  first_inode = 4
  BS = 2
  DIRLEN = 48
  PER = 2
  NDIRECT = 3
  MountPoints <- MCMountPoints
  Paths <- MCPaths
  Lengths = {3, 9}
  MaxMounts = 2
  MaxCalls = 4
  MaxCuts = 1
INVARIANTS
  VolumesSound
  ResolvesToDeepest
  AccountsAgree
PROPERTIES
  OnlyKnownDamage
  ImplementsStore
CHECK_DEADLOCK FALSE
