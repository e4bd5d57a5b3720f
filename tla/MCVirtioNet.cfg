CONSTANTS
  short = short
  long = long
  Frame <- MCFrame
  FrameLen <- MCFrameLen
  None = None
  MAX_FRAME_LEN = 2
  Caps = {1, 4}
  Qsz = 2
  IdxMod = 4
  MaxSends = 3
  MaxArrivals = 2
SPECIFICATION FairSpec
INVARIANTS
  ReceivedIntact
  QueuesSound
  SentOnce
PROPERTIES
  SendReturns
CHECK_DEADLOCK FALSE
