SPECIFICATION DnsSpec
CONSTANTS
  Lookups = {"k1"}
  HostsOf <- SearchHosts
  SearchList <- SearchDomain
  NDots = 0
  Nameservers = 2
  Attempts = 1
  QueryTimeout = 1
  NegativeTtl = 1
  MinTtl = 1
  MaxTtl = 1
  TTLs = {0, 2}
  SoftCap = 1
  Zones <- SearchZones
  Changing = {}
  EndOfTime = 2
  MaxLookups = 2
  MaxChanges = 0
CHECK_DEADLOCK FALSE
INVARIANT NotFoundIsAuthoritative
