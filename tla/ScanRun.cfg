CONSTANTS
  Collectors <- MCCollectors
  FansOut <- MCFansOut
  RepoPool <- MCRepoPool
  Pool <- MCPool
  Size <- MCSize
  Limit <- MCLimit
  Result <- MCResult
  Skipped = Skipped
  Undecided = Undecided
  Flag = 2
  RepoLimit = 1
  NumRepos = 2
  NumCollectors = 3
  PageSize = 2
  MaxPages = 2
  Lookback = 5
  Account <- MCAccount
  Newcomer = {"n1", "n2"}
  MaxMoves = 2
SPECIFICATION MCSpec
INVARIANTS
  CommandTypeOK
  LimitRespected
  NothingLeftBehind
  AtMostOneLateStart
  NoPackFromInterruptedScan
  EveryCollectorAccounted
  NoOrphanGoroutines
  SettingsDecide
  ListingIsFaithful
PROPERTIES
  DecidedOnce
  ImplementsFanOut
  ScanEnds
CHECK_DEADLOCK FALSE
