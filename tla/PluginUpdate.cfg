SPECIFICATION FairSpec
CONSTANTS
  Posters = {p1}
  Runners = {r1, r2}
  Pids = {n1, n2}
  NoPid = none
  alpha = alpha
  beta = beta
  Listings <- SmallListings
  MaxRuns = 2
  MaxKills = 2
  ExitsMidSpawn = FALSE
  NumberGoesAtOnce = FALSE
INVARIANTS
  RunningHasOneOwner
  DoneCoversTheListing
  KillsOnlyItsOwn
  NoChildOutlivesTheServer
PROPERTIES
  EveryRunEnds
  ImplementsRunRecord
CHECK_DEADLOCK FALSE
