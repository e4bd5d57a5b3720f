CONSTANTS
  MaxConns = 2
  PeerLen = 2
  MaxSnd = 2
  MaxRcv = 4
  MAX_TCP_SEGMENT = 2
  Lens <- MCLens
  Caps <- MCCaps
  Polls = 2
SPECIFICATION Spec
INVARIANTS
  ConnsSound
  StreamSound
  SendSpace
CHECK_DEADLOCK FALSE
