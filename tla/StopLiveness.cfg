SPECIFICATION FairSpec
CONSTANTS
  Threads = {t1}
  Ticker = ticker
  Wrapper = wrapper
  Markers = {m1, m2}
  NoMarker = none
  Routes = {"stop", "restart", "kill"}
  StopPrompt = TRUE
  EndAnyway = FALSE
  TypingCanOutlastWait = FALSE
  KillsOverlap = FALSE
  StartOvertakes = FALSE
  MaxPresses = 2

  
PROPERTIES
  EveryStopEnds
  EveryRestartSettles
