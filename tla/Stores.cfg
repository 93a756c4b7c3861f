SPECIFICATION StoresSpec
CONSTANTS
  \* Sessions
  Callers = {k1, k2}
  Sids = {"s1", "s2", "s3"}
  UsedUp <- MCUsedUp
  Users = {u1}
  MaxSessions = 1
  TokenTtl = 2
  AbsoluteTimeout = 2
  IdleTimeout = 1
  TouchSlack = 0
  Horizon = 1
  MaxVersion = 1
  MaxCalls = 4
  \* Throttle
  Requests = {r1, r2, r3}
  ClientAddrs = {"1.1.1.1"}
  Proxies = {"10.0.0.1", "10.0.0.2"}
  Fakes <- MCFakes
  Capacity = 2
  RefillPer = 1
  Whole = 1
  SweepEvery = 2
  IdleEvict = 2
  BanAfter = 1
  MaxFailures = 2
  Lockout = 2
  Window = 3
  MaxTick = 3
  MaxLate = 1
  MaxArrivals = 4
  MaxHops = 2
  \* RedisClient
  RedisCallers = {a1, a2}
  BanCallers = {a2}
  Links = {l1, l2}
  MaxIdle = 1
  WithAuth = TRUE
  MaxCommands = 3
  \* Bans
  Admins = {d1, d2}
  Spellings <- MCSpellings
  Width = 2
  Bare = 99
  MaxAdminCalls = 3
  \* Presence
  Visitors = {v1}
  Readers = {q1, q2}
  Recorders = {g1, g2}
  OnlineWindow = 2
  ClockLag = 1
  LastTime = 4
  \* Cache
  CacheKeys = {y1, y2}
  Loaders = {o1, o2}
  CacheCap = 1
  EntryTtl = 1
  LastInstant = 2
  MaxWrites = 1
  \* Jwks
  Verifiers = {w1, w2}
  Bearers <- MCBearers
  Rotation <- MCRotation
  Expected <- MCExpected
  Leeway = 1
  LastSecond = 2
  MaxVerifies = 2
  \* Credentials
  ByteValues = {0, 255, 104}
  MaxOctets = 4
  JwtClaims <- MCJwtClaims
  Algs = {"HS256", "none"}
  OwnKey = "own"
  OtherKey = "other"
  NoTime <- MCNoTime
  TokenLeeway = 1
  MaxClock = 4
  UserTexts <- MCUserTexts
  RoleTexts <- MCRoleTexts
  CookiePairs <- MCCookiePairs
  FormPairs <- MCFormPairs
  Submits <- MCSubmits
  \* SignIn
  Browsers = {"b1", "b2"}
  Accounts = {"u", "v"}
  MaxLogins = 3
  \* Records
  Radix = 8
  LenBytes = 2
  TimeBytes = 2
  NotText = {0, 7}
  EntryTexts <- MCEntryTexts
  Seen <- MCSeen
  Stamps = {0, 9}
  CheckpointEvery = 2
  MaxRecordWrites = 3
  MaxRestarts = 1
  \* Cookies
  CookieCalls = {"c1", "c2"}
  CookieUrls <- MCCookieUrls
  CookieAnswers <- MCCookieAnswers
  LastSec = 3
  MaxCookieCalls = 2
  \* HttpClient
  Calls = {"h1", "h2"}
  HomeShard <- MCHomeShard
  Streaming = {"h2"}
  Origins = {"oa", "ob"}
  UrlOrigins = {"oa"}
  Conns = {"n1", "n2"}
  MaxIdlePerHost = 1
  MaxRedirects = 1
  ReadSizes = {3}
  MaxSends = 1
  \* Dns
  Lookups = {"k1", "k2"}
  HostsOf <- MCHostsOf
  SearchList <- MCSearchList
  NDots = 0
  Nameservers = 1
  Attempts = 1
  QueryTimeout = 1
  NegativeTtl = 1
  MinTtl = 1
  MaxTtl = 1
  TTLs = {2}
  SoftCap = 1
  Zones <- MCZones
  Changing <- MCChanging
  EndOfTime = 3
  MaxLookups = 2
  MaxChanges = 1
  \* LogScope
  LogTasks = {"p", "q", "r"}
  ThreadOf <- MCThreadOf
  Contexts = {"c1", "c2"}
  MaxScopes = 2
  MaxLogPolls = 3
  MaxLines = 2
INVARIANTS StoresTypeOK  GateHolds   TextsHold
CHECK_DEADLOCK FALSE
