CONSTANTS
  Data <- MCData
  Lens <- MCLens
  MAX_MSG = 4
  MAX_QUEUE_MSGS = 2
  MaxChan = 12
  MaxSent = 6
  Srv = {s1, s2}
  Others = {9}
  MaxTick = 4
  MaxShm = 2
  MaxBoots = 2
  MSG_SIZE = 2
  BUF_SIZE = 4
SPECIFICATION FairSpec
INVARIANTS
  ClientsSound
PROPERTY
  TicksInOrder
  FirstTick
CHECK_DEADLOCK FALSE
