SPECIFICATION KeysSpec
CONSTANTS
  Adapters = {"claude", "agy"}
  MODAL_TAIL_ROWS = 3
  SETTLE_TRIES = 2
  MENU_TRIES = 2
  SETTLE_DONE = 2
  MaxGap = 1
  MaxStart = 3
  AnswersOvertake = FALSE
  SlowCaptures = FALSE
  QueuedLookMisses = FALSE
  MaxQueue = 1
  MaxMoves = 2
  MaxAnswers = 1
CHECK_DEADLOCK FALSE
INVARIANTS
  
  EnterAnswersOnlyTheExitMenu
  WrapUpJumpsNoQueue
  
  WrapUpIsOver
  RestIsReadAsIdle
