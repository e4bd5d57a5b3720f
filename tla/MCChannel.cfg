CONSTANTS
  Data = {a}
  Lens <- MCLens
  MAX_MSG = 2
  MAX_QUEUE_MSGS = 2
  MaxChan = 2
  MaxSent = 3
SPECIFICATION ChanFairSpec
INVARIANTS
  ChanSound
PROPERTY
  Drained
