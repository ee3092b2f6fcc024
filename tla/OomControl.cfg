SPECIFICATION Spec
CONSTANTS
  SYS_MAX_TASKS = 2
  ZoneSizes <- SmallZones
  Requests = {5, 60}
  RssSizes = {1, 100}
  NEW_TASK_RSS = 100
  HEAP_SIZE = 170
  BLOCK = 56
  MAX_RECLAIMED = 6
INVARIANT MonitorSilent
INVARIANT PagesAccounted
INVARIANT OnlyKillsOverfill
INVARIANT ProtectedSurvive
INVARIANT HeapHolds
