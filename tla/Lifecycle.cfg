SPECIFICATION MCSpec
CONSTANTS
  SYS_MAX_TASKS = 5
  SCHED_MAX_PRIORITY = 5
  SCHED_DEFAULT_PRIORITY = 1
  SCHED_PRIORITY_AGING_LIMIT = 1
  SCHED_IPC_MAX_MESSAGES = 2
  TICK_MOD = 5
  Priorities = {1, 5}
  SleepTicks = {3}
  Signals = {}
  Payloads <- Letters
  LETTERS = 3
  LATE_LETTERS = 2
  WORKERS = 1
  AUDITOR_SLEEP = 3
INVARIANT EchoInOrder
INVARIANT LettersAccounted
INVARIANT SleepBounded
PROPERTY ReplyArrives
PROPERTY MsgrecvDecided
PROPERTY DaemonsRun
