SPECIFICATION Spec
CONSTANTS
  FRAME_SIZE = 2
  MAX_BITS = 50
  MemMap <- Map
  ArenaPages = 32
  PT = 4
  PAGE = 2
  USER_STACK_BASE = 14
  USER_STACK_PAGES = 1
  USER_SHM_BASE = 4
  SHM_STRIDE = 2
  USER_PAGES = 16
  USER_FB_BASE = 10
  FB_PAGES = 1
  Qsz = 4
  IdxMod = 8
  SEC = 2
  Sectors = 2
  Calls <- SomeCalls
  HEAP_PAGES = 5
  QUEUE_PAGES = 2
  KSTACK_PAGES = 1
  InitProgram <- Hello
  Programs <- Files
  ShmSizes = {2}
  ShmPlaces = {0, 2, 15}
  MaxCalls = 1
  MaxOps = 4
INVARIANTS
  FramesSound RunsSound
  StuckAtTableOrGap TransferRight ProcessesSound
PROPERTIES
  SpacesGrow TransferEnds
CHECK_DEADLOCK FALSE
