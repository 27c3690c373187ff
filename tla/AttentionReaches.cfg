SPECIFICATION FairSpec
CONSTANTS
  Names = {1}
  Scanner = scanner
  Expiry = expiry
  Wrapper = wrapper
  Reporters = {expiry}
  Hands = {h1}
  NoName = none
  MaxCaptures = 1
  FoundRows = {"bare"}
  EndAnyway = TRUE
  MaxPresses = 1
  MaxChanges = 2
PROPERTIES
  QuestionReachesThePage
CHECK_DEADLOCK FALSE
