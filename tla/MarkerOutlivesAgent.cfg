SPECIFICATION Spec
CONSTANTS
  Threads = {t1, t2}
  Ticker = ticker
  Wrapper = wrapper
  Markers = {m1, m2}
  NoMarker = none
  Routes = {"stop", "start"}
  StopPrompt = FALSE
  EndAnyway = FALSE
  TypingCanOutlastWait = FALSE
  KillsOverlap = FALSE
  StartOvertakes = FALSE
  MaxPresses = 2
PROPERTY
  NewAgentIsNotStopping
