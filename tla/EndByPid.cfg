SPECIFICATION Spec
CONSTANTS
  Threads = {t1}
  Ticker = ticker
  Pids = {p1, p2}
  NoPid = none
  AgentsReusePids = FALSE
  MaxRequests = 2
  MaxBirths = 2
SYMMETRY Symmetry
PROPERTIES
  OnlyDetachedAgentsAreSignalled
  EndAnywayEndsWhoAsked
CHECK_DEADLOCK FALSE
