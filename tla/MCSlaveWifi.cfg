\* Three builds, two station configurations, every order of requests, driver
\* events and steps of the event handler.
SPECIFICATION WifiSpec
CONSTANTS
  Config = {c1, c2}
  NoConfig = NoConfig
  InitConfigs <- HostInits
  CacheTx = TRUE
  MaxRetry = 1
  Builds <- AllBuilds
  MaxReq = 5
  MaxAir = 3
SYMMETRY ConfigSymmetry
CHECK_DEADLOCK FALSE
INVARIANTS
  HostKnowsLink
  SuppressHasItsEvent
  FlagsTrue
  ConfigsApplied
