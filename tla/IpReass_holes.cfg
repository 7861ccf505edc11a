SPECIFICATION ReassSpec
CONSTANTS
  IpIds = {d1}
  IpLength = 4
  Recut = {}
  MEMP_NUM_REASSDATA = 2
  IP_REASS_MAX_PBUFS = 4
  IP_REASS_MAXAGE = 2
INVARIANT DatagramWhole
