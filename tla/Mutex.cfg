SPECIFICATION MutexSpec
CONSTANTS
  SYS_MAX_TASKS = 3
  SCHED_MAX_PRIORITY = 2
  SCHED_DEFAULT_PRIORITY = 1
  SCHED_PRIORITY_AGING_LIMIT = 1
  SCHED_IPC_MAX_MESSAGES = 1
  TICK_MOD = 1
  Priorities = {1}
  SleepTicks = {}
  Signals = {"SIGKILL", "SIGSTOP"}
  Payloads = {}
INVARIANT MutualExclusion
INVARIANT WaiterHasTarget
PROPERTY NeverReclaimed
PROPERTY DeadStaysDead
