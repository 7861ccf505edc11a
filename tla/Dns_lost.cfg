\* The callback for an error asks again when the table is full.
SPECIFICATION DnsSpec
CONSTANTS
  Names = {host, ftp}
  Zero = zero
  Old = old
  NamePrefixes = {}
  LongerNames = {}
  Ttls = {1}
  AskAgainOn = {"error"}
  DNS_TABLE_SIZE = 1
  DNS_MAX_SERVERS = 2
  DNS_MAX_RETRIES = 2
  DNS_MAX_TTL = 1
  DnsSeqMod = 2
  TtlMod = 3
  MaxAsked = 1
INVARIANT CallbackComes
