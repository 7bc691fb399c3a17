SPECIFICATION Spec
CONSTANTS
  Last = 1
  Guard = 2
  Pause = 3
  WakePeriod = 4
  Capacity = 2
  LogFails = FALSE
CHECK_DEADLOCK FALSE
INVARIANT HangupHangsUp
