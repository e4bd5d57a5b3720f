\* Two processes, two names, three hosts and a cache of two entries, a queue of
\* two datagrams, two query ids on one port.
CONSTANTS
  Procs = {p1, p2}
  Names = {a, b}
  BadName = "bad"
  Gateway = "gateway"
  Dns = "dns"
  Host = "host"
  Far = "site"
  OurIp = "us"
  ARP_CAP = 2
  MAX_UDP_QUEUE = 2
  IdMod = 2
  PortMod = 1
  Polls = 2
  MaxLookups = 2
  PageLen = 2
  BodyCap = 2
  ReqLen = 2
SPECIFICATION Spec
INVARIANTS  AnswerForName TimeoutMissesLast GetsSound
SYMMETRY Symmetry
