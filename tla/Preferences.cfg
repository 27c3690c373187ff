SPECIFICATION FairSpec
CONSTANTS
  Threads = {t1, t2}
  NoThread = nobody
  work = work
  play = play
  short = short
  long = long
  endAnyway = endAnyway
  Labels = {work, play}
  Timeouts = {short, long}
  Policies = {endAnyway}
  None = none
  Invalid = invalid
  Patches <- SmallPatches
  Operators <- SmallOperators
  MaxPatches = 3
  MaxEdits = 2
  MaxStarts = 1
INVARIANTS
  InForceIsOnDisk
  AnsweredIsKept
PROPERTIES
  EveryPatchEnds
CHECK_DEADLOCK FALSE
