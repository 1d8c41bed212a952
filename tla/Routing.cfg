SPECIFICATION FairSpec
CONSTANTS
  Profiles <- MCProfiles
  Subscriptions <- MCProfiles
  Selectors <- MCSelectors
  Names <- MCNames
  Entries <- MCEntries
  Policies <- MCPolicies
  RuleSets <- MCRuleSets
  Domains <- MCDomains
  Steam = {"steam"}
  SteamProcs = {"steam.exe"}
  DefaultDirect = {"ru", "2ip.ru"}
  Marker = "2ip.ru"
  Geosite = {"geo"}
  Geoip = {"abroad"}
  Unsupported = {"torrent"}
  Procs = {"app", "steam.exe", "other"}
  Addresses = {"unknown", "private", "office", "abroad", "public"}
  None = None
INVARIANTS TypeOK PolicyHolds SplitIsSymmetric FailsClosed RulesNameOutbounds StatsReachApi
PROPERTY PacketsLeave
CHECK_DEADLOCK FALSE
