SPECIFICATION Spec
CONSTANTS
  Names = {1, 2}
  Scanner = scanner
  Expiry = expiry
  Wrapper = wrapper
  Reporters = {expiry, wrapper}
  Hands = {h1}
  NoName = none
  MaxCaptures = 2
  FoundRows = {"stale", "bare"}
  EndAnyway = FALSE
  MaxPresses = 2
  MaxChanges = 0
VIEW View
INVARIANTS
  NoClaimOutlivesItsClear
PROPERTIES
  ReportOutlivesOthersPresses
CHECK_DEADLOCK FALSE
