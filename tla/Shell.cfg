SPECIFICATION Spec
CONSTANTS
  SYS_LOG_CAPACITY = 3
  SYS_TICK_MAX = 3
INVARIANT NeverPanics
INVARIANT RootLogged
PROPERTY IsRecentLog
CHECK_DEADLOCK FALSE
