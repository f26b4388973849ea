SPECIFICATION Spec
CONSTANTS
  Unused = Unused
  Keys = {"a", "ab"}
  Values = {"1", "2"}
  Like <- MCLike
  MaxHooks = 2
  Settings = {"key"}
  Contents = {"1", "2"}
  PeerUnits = {"p", "q"}
  StoredKeys = {"k", "l"}
  MaxStores = 3
  Vaults <- MCVaults
  Remotes = {"r1", "r2"}
  RequiredKeys = {"host", "port"}
  ConfigOptions = {"", "null", "a"}
  DefaultOption = ""
  Blank = {"", "null"}
  MaxChanges = 4
  MaxDrawn = 3
  Zips <- PolicyZips
  Docs <- MCDocs
  Blacklisted = {"x"}
  Always = {"admin"}
  CharmFiles = {"own"}
  MaxAttached = 3
  MySQLUnits = {"d0", "d1"}
  Requests <- DbRequests
  MaxPasswords = 5
  PoolRequests <- PoolWishes
  Algorithms = {"lz4", "zlib"}
  PgsPerOSD = 100
  ExpectedOSDs = 0
  MaxOSDs = 2
  MaxAsks = 2
  ApiUnits = {"a", "b", "c"}
  First = {"a", "b"}
  DbUnits = {"d"}
  Units <- MCUnits
  SubNames <- MCSubNames
  VipOptions <- MCVipOptions
  NetOf <- MCNetOf
  Nics = {"n1", "n2"}
  EndpointNet <- MCEndpointNet
  MaxMoves = 2
  CheckedServices = {"api", "haproxy"}
  Hostnames = {"h", "i"}
  MaxNrMoves = 3
  Volumes = {"vdb", "vdc"}
  Writes = {"w1", "w2"}
  MaxOperated = 3
  SshUnits = {"u", "v", "w"}
  Addresses = {"u", "v", "w", "x"}
  ComputeKeys = {"k", "l"}
  SshUsers = {"root", "nova"}
  MaxSshMoves = 2
  MaxSshHosts = 3
  Cards = {"m1", "m2"}
  Slots = {"s1", "s2", "s3"}
  Bridges = {"b1", "b2"}
  TotalVFs <- CardVFs
  NumVFs <- SriovOptions
  MaxNetChanges = 3
  Series = "jammy"
  Distro <- MCDistro
  Pockets <- MCPockets
  Sources <- OriginSources
  ReleasePackage = 2
  MaxRetries = 1
  MaxOptions = 3
  Bindings <- MCBindings
  IpOf <- MCIpOf
  VipOf <- MCVipOf
  Private = "i0"
  OsHostNames = {"h1"}
  Host = "host"
  Custom = "novnc"
  Providers <- MCProviders
  MaxIssues = 2
  MaxCertChanges = 3
INVARIANT HistoryTrue
INVARIANT FreshReads
INVARIANT RetrievesLatest
INVARIANT SecretsKept
INVARIANT OverridesAsTold
 
INVARIANT PoolsAsAsked
INVARIANT ReadyTogether
INVARIANT OneElected
INVARIANT AdvertisedIsServed
INVARIANT ChecksAgree
 
INVARIANT KeysReach
INVARIANT DevicesAsNamed
INVARIANT UpgradeSeen
INVARIANT EachAddressServed
 
CHECK_DEADLOCK FALSE
