SPECIFICATION ServicesSpec
CONSTANTS
  q1 = q1
  q2 = q2
  Searchers = {"turn", "idle"}
  Providers = {"python_org", "brave", "tavily", "html", "lite"}
  DuckDuckGo = {"html", "lite"}
  Routes <- MCRoutes
  RequestBudget = 3
  MaxSearches = 1
  WatchQueries = {q1, q2}
  ExactQueries = {}
  BatchLimit = 1
  MaxNews = 2
  SourcesOf <- MCSources
  MaxAsks = 2
  MaxEvents = 1
  Requests <- MCRequests
  Limits = {1200, 2200, 4000, 5200}
  MaxSaves = 1
  MaxLaunches = 1
  MaxTasks = 1
  MaxCancels = 1
  MaxDays = 2
  MaxStops = 1
  Drafts <- MCDrafts
  OpenMarker <- MCOpenMarker
  CloseMarker <- MCCloseMarker
  HiddenLimit = 4
  LegacyMessages <- MCCandidates
  Long = {"A", "B", "C"}
  Talk = {"A", "C"}
  Window = 2
  MaxImports = 3
  MaxTalk = 3
INVARIANTS
  ServicesTypeOK
  CompactionIsSound
  HiddenStaysHidden
  RecoveredOnce
  VerifiedHasProvenance
  PublishedIsTrue
PROPERTIES
  FailedServiceRests
  RemovalHolds
  DueIsChecked
  IdleWorkYields
CHECK_DEADLOCK FALSE
