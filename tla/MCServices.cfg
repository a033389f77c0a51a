SPECIFICATION ServicesSpec
CONSTANTS
  None = None
  Bad = Bad
  CoveredBy <- MCCoveredBy
  MatchedBy <- MCMatchedBy
  Compared <- MCVersions
  Cases <- MCCases
  PoliciesAsked <- MCPolicies
  Worse <- MCWorse
  Targets <- MCTargets
  ProfilesAsked <- MCProfiles
  Chosen <- MCChosen
  Alarms <- MCAlarms
  Traced <- MCTraced
  Bundles <- MCBundles
  Sources <- MCSources
  Locks <- MCLocks
  Histories <- MCHistories
  Installed <- MCInstalled
  InstalledLists <- MCInstalledLists
  AdvisoryLists <- MCAdvisoryLists
  FilingPolicies <- MCFilingPolicies
  Exploited = {{}}
  FindingLists <- MCFindingLists
  MAX_INLINE_FINDINGS = 1
  Ranges <- MCRanges
  Specifiers <- MCSpecifiers
  Releases <- MCReleases
  LineLists <- MCLineLists
  Named <- MCNamed
  Popular <- MCPopular
  KnownDistinct <- MCKnownDistinct
  MIN_LENGTH = 3
  SEPARATORS <- MCSeparators
  CONFUSABLE <- MCConfusable
  MaxWalkDepth = 3
  MaxEvents = 4
  Asked = {"order", "events", "triage", "layers", "gate", "filing", "sources", "names", "range", "specifier", "lock", "manifest"}
  Parts = {"triage", "accounts", "projects", "keys", "profiles", "sign-in", "web scan", "mirror", "feeds", "panel", "bootstrap", "showcase", "backups"}
  one = one
  two = two
  three = three
  Client = {one, two}
  PerIp = 2
  PerAccount = 1
  PerHour = 1
  Drift = 1
  Rehashes = FALSE
  MaxCalls = 3
  MaxClock = 1
  File <- MCFile
  EcoOf <- MCEcoOf
  PathOf <- MCPathOf
  Pusher = {one, two}
  WebTab = {"tab"}
  api_scan_rate_limit_per_hour = 1
  Profile = {"production", "internal"}
  Request = {one, two}
  ScanJob = {"scan"}
  MAX_PROFILES = 2
  MAX_ACTIVE_KEYS_PER_TARGET = 1
  Terminal = {"terminal"}
  Poller = {one, two}
  Tab = {"tab"}
  MAX_TOKENS_PER_ACCOUNT = 1
  Machines = 1
  WebMachines = 1
  MaxPolls = 0
  Finding = {one, two}
  Advisory = {one, two, three}
  MIRRORED_ECOSYSTEMS <- MCMirrored
  Package = {"n1", "n2"}
  EcosystemOf <- MCEcosystemOf
  UPSERT_CHUNK = 2
  MaxRevisions = 1
  MaxSyncs = 2
  Scheduler = {"worker"}
  kev_refresh_hours = 6
  epss_refresh_hours = 24
  mirror_refresh_hours = 12
  KevStaleAfter = 24
  mirror_stale_after_hours = 48
  Faults = {"kev", "epss", "corrupt", "osv", "stop"}
  Step = 6
  User = {"root", "admin", "deputy"}
  Configured = "root"
  Clerk = {one, two}
  Process = {one, two}
  Name = {"old", "new"}
  Editor = {one, two}
  Runner = {"worker", "shell"}
  BACKUP_KEEP = 1
  HasBucket = TRUE
  MaxScripts = 3
INVARIANTS
  SemVerIsAnOrder
  NothingAffectedIsMissed
  DangerIsMonotone
  EngineAgrees
  NothingSilencesTheWorst
  NothingIsHidden
  MoreSourceNeverHides
  InstalledIsPlaced
  ImitationsAreSeen
  LowestIsChosen
  NoSessionOutlivesItsPassword
  RecoveryCodesAreSpent
  CapsHold
  NothingIsReinterpreted
  ProfilesApply
  HalfScansAreMended
  FeedsKeepUp
  NamesAreChecked
  DumpsAreKept
PROPERTIES
  DeniedMeansDenied
  WebScanKeepsTheLife
  SyncsHideNothing
  SomebodyAdministers
SYMMETRY ServicesSymmetry
CHECK_DEADLOCK FALSE
