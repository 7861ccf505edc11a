SPECIFICATION ResourcesSpec
CONSTANTS
  TCP_WND = 6
  MSS = 2
  MaxSeq = 9
  Blocks = {p, q, r}
  NoBlock = null
  TimeWait = 0
  Reconnects = FALSE
  MEM_SIZE = 12
  SIZEOF_STRUCT_MEM = 1
  MIN_SIZE = 2
  Sizes = {1, 3, 4}
  PoolBufs = {p1, p2}
  RamBufs = {}
  RomBufs = {m1}
  NoPbuf = nopbuf
  PBUF_POOL_BUFSIZE = 1
  Offsets = {0}
  Lengths = {1, 2}
  MaxHeld = 1
  Names = {host, host_lan, ftp}
  Zero = zero
  Old = old
  NamePrefixes = {host}
  LongerNames = {host_lan}
  Ttls = {0, 1}
  AskAgainOn = {"timeout", "found", "error"}
  DNS_TABLE_SIZE = 2
  DNS_MAX_SERVERS = 2
  DNS_MAX_RETRIES = 2
  DNS_MAX_TTL = 1
  DnsSeqMod = 2
  TtlMod = 2
  MaxAsked = 1
INVARIANTS
  ResourcesTypeOK
  WindowConserved PromiseKept NothingUnsaid
  PoolSound
  PbufsSound
PROPERTIES
  EdgeNeverRetreats
  ImplementsHeap
  AddressesRight
  RequestsEnd
  AckEventually
