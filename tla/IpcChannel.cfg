SPECIFICATION Spec
CONSTANTS
  SCHED_IPC_MAX_MESSAGES = 4
  Message = {m1, m2, m3}
  NoMessage = NoMessage
PROPERTY IsFifo
