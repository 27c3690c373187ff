SPECIFICATION Spec
CONSTANTS
  Threads = {t1, t2, t3}
  Ticker = ticker
  Wrapper = wrapper
  Markers = {m1, m2, m3}
  NoMarker = none
  Routes = {"stop", "kill", "start", "signal", "list"}
  StopPrompt = TRUE
  EndAnyway = TRUE
  TypingCanOutlastWait = FALSE
  KillsOverlap = FALSE
  StartOvertakes = FALSE
  MaxPresses = 3
SYMMETRY Symmetry
VIEW View
INVARIANTS
  OneTypistPerAgent
  NoStrandedMarker
  WithdrawnStaysOut
