SPECIFICATION BoardSpec
CONSTANTS
  TicksPer10ms = 2
  ClockMod = 5
  Interval = 2
  Period = 3
  Delays = {0, 1, 3}
  MaxStall = 3
  KeyIds = {k1}
  KEY_FILTER_TIME = 2
  KEY_FIFO_SIZE = 3
  LongTime = 1
  RepeatSpeed = 2
  Hosts = {a, b, c}
  Self = self
  NoAddr = any
  ARP_TABLE_SIZE = 2
  ARP_MAXAGE = 2
  ARP_MAXPENDING = 2
  MEMP_NUM_ARP_QUEUE = 2
  PBUF_POOL_SIZE = 1
  Other = other
  IpIds = {d1, d2, d3}
  IpLength = 3
  Recut = {d1}
  MEMP_NUM_REASSDATA = 2
  IP_REASS_MAX_PBUFS = 3
  IP_REASS_MAXAGE = 2
  RXSTOP_INIT = 11
  FrameSizes = {4, 6}
  EPKTCNT_MAX = 2
  ENC28J60_BREAKDOWN_THRESHOLD = 2
INVARIANTS
  BoardTypeOK
  TimersExact
  KeysInOrder
  ArpTableSound SentRightly
  ReassAccounted
  RingInStep
PROPERTIES
  ClockServes
  KeysFiltered
  QueuesDrain
  RightOneEvicted DatagramsExpire
  ReceiverServes
