SPECIFICATION Spec
CONSTANTS
  Threads = {t1, t2, t3}
  Folders = {alpha}
  Agents = {a1, a2, a3}
  NoAgent = none
  Room = 2
  SoftRoom = 1
  StartsSlowly = FALSE
  OtherWindows = FALSE
  MaxRequests = 4
SYMMETRY Symmetry
INVARIANTS
  OneAgentPerFolder
  FailedStartEndsNobody
  LockedWhileStarting
CHECK_DEADLOCK FALSE
