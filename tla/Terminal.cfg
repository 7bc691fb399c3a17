SPECIFICATION FairSpec
CONSTANTS
  Last = 2
  Guard = 2
  Pause = 3
  WakePeriod = 4
  Capacity = 2
  LogFails = TRUE
CHECK_DEADLOCK FALSE
INVARIANTS
  TypeOK
  HangupEndsCall
  NoHangupAfterReadError
  SwallowsOneLine
PROPERTIES
  EitherSideEnds
  GoroutinesEnd
