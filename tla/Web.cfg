SPECIFICATION WebSpec
CONSTANTS
  Texts <- MCTexts
  NumberOf <- MCNumberOf
  Columns <- MCColumns
  Tables <- MCTables
  Operands = {"9", "x"}
  Upper = "10"
  SpecOps = {"eq", "lte", "ne", "notnull"}
  Sizes = {1, 2, 3}
  MaxBuild = 2

  RepoCallers = {"e1", "e2"}
  EntityIds = {1, 2}
  Vals = {7, 8}
  PageLimit = 1
  MaxPolls = 1
  MaxRepoCalls = 2

  MeiliFields = {"f"}
  Values <- MCValues
  NumberValues <- MCNumberValues
  MaxCalls = 2
  MaxParts = 4
  MaxFound = 3
  PageSizes = {2}

  Fetchers = {"f1", "f2"}
  Routed <- MCRouted
  Trees <- MCTrees
  Root <- MCRoot
  Compressible = {"app", "index"}
  Wanted <- MCWanted
  Precompressed = TRUE
  FileSizes = {2}
  MaxFetches = 2
  MaxDeploys = 1
  Deployed <- MCDeployed

  Components = {"a", "b", "c"}
  Traits = {"T"}
  Setups <- MCSetups

  Patterns <- MCPatterns
  Paths <- MCPaths
  Methods = {"GET"}
  Chains <- MCChains
  Policies <- MCPolicies
  Asks <- MCAsks
  GuardRole = "none"
  MaxRoutes = 3
  Apps <- MCApps

  WireBytes = {0, 1, 2, 64, 97, 192}
  MaxPacket = 5
  Labels <- MCLabels
  MAX_LABEL = 2
  MAX_NAME = 5
  MAX_JUMPS = 2
  Records <- MCRecords
  MaxRecords = 3
  Flags = {0, 3, 512, 515}

  Tokens <- MCTokens
  MaxTokens = 6
  Literals <- MCLiterals
  Envs <- MCEnvs
  Bases <- MCBases
  Names = {"a", "b"}
  ParamTexts <- MCParamTexts
  MaxParams = 2

  Nodes <- MCNodes
  Sources <- MCSources
  Elements <- MCElements
  Models <- MCModels
  Visitors = {{}, {"user"}, {"admin"}}
  MaxFragmentDepth = 3
  MaxAdds = 3

  Tags = {"div", "p", "script"}
  RawTags = {"script"}
  MaxMarks = 5

  Heads <- MCHeads
  BodySymbols = {"a", "N", "B", "--"}
  MaxBytes = 3
  MaxFields = 3
  MAX_PARTS = 2

  Profiles = {"dev", "prod"}
  PlainKeys = {"server.port", "server.address"}
  PlainValues = {"1", "2"}
  LogPrefixes <- MCLogPrefixes
  Targets <- MCTargets
  MaxSettings = 2
  MaxEntries = 3

  Cells = {"CR", "LF", "SP", "cl1", "x", "HTTP/1.0"}
  FirstLines <- MCFirstLines
  HeaderWords <- MCHeaderWords
  Lower <- MCLower
  SizeOf <- MCSizeOf
  MAX_HEAD_BYTES = 7
  MAX_BODY_BYTES = 1
  MaxCells = 8
  MaxHeaderCalls = 3
INVARIANTS WebTypeOK   StartupHolds 
CHECK_DEADLOCK FALSE
