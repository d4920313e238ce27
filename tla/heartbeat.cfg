CONSTANTS
  Interval = 1
  MaxMillis = 31
  MaxLate = 2
  MaxDelay = 3
  MaxRounds = 2
  MaxBlocked = 2
  MaxBacklog = 1
SPECIFICATION Spec
INVARIANTS
  LiveClientKept
  SilenceBounded
CHECK_DEADLOCK FALSE
