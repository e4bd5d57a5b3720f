CONSTANTS
  PAGE_SIZE = 16
  ALIGN = 2
  HEADER_SIZE = 2
  FOOTER_SIZE = 1
  MIN_PAYLOAD = 2
  ArenaPages = 3
  MAX_REGIONS = 2
  InitialPages = 1
  Layouts <- MCLayouts
SPECIFICATION Spec
INVARIANTS
  BlocksSound
  TagsSound
CHECK_DEADLOCK FALSE
