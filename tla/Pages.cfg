SPECIFICATION PagesSpec
CONSTANTS
  Capacity = 1
  MaxInFlight = 2
  MaxSeq = 2
  MaxReads = 3
  MaxRestarts = 1
  MaxBoots = 2
  MaxTogether = 4
  MaxChanges = 2
  MaxAsks = 1
  MaxBreaks = 1
  MaxFetches = 2
INVARIANTS
  SilentOnlyWhenLive
PROPERTIES
  ShownNeverGoesBack
  PageCatchesUp
  LandingNeverGoesBack
  LaterListingWins
  ListCatchesUp
CHECK_DEADLOCK FALSE
