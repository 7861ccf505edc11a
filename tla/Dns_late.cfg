\* An answer to an earlier request, for a name that begins with the one that is
\* asked for now.
SPECIFICATION DnsSpec
CONSTANTS
  Names = {host, host_lan}
  Zero = zero
  Old = old
  NamePrefixes = {host}
  LongerNames = {host_lan}
  Ttls = {1}
  AskAgainOn = {}
  DNS_TABLE_SIZE = 1
  DNS_MAX_SERVERS = 2
  DNS_MAX_RETRIES = 2
  DNS_MAX_TTL = 1
  DnsSeqMod = 2
  TtlMod = 3
  MaxAsked = 2
INVARIANT AnswersMatch
