------------------------------- MODULE Mutex --------------------------------
(***************************************************************************)
(* mutex_lock and mutex_unlock of sys_tools.h between processes of         *)
(* Scheduler that yield, end, kill and wait for each other.  mutex_lock    *)
(* gives up the CPU only while it finds the mutex taken; its test and its  *)
(* assignments are one step.                                               *)
(***************************************************************************)
EXTENDS Scheduler

VARIABLES
  state, owner_pid,   \* the mutex_t; state is a truth value
  locking,            \* the processes in the loop of mutex_lock
  holds,              \* history: those whose mutex_lock returned and that
                      \* have not called mutex_unlock since
  openers             \* history: pids that opened the mutex without holding it

mutex == <<state, owner_pid, locking, holds, openers>>
mvars == <<vars, mutex>>

\* mutex_init, called once before the processes share the mutex.
MutexInit ==
  /\ Init
  /\ state = FALSE
  /\ owner_pid = 0
  /\ locking = {}
  /\ holds = {}
  /\ openers = {}

\* Mutant of Taken: the mutex is tested once, before the yield.
Taken_once == state /\ me \notin locking

Taken == state

\* One turn of the loop of mutex_lock, a first one or one after a yield.
mutex_lock ==
  /\ InOwnCode
  /\ \/ /\ Taken
        /\ locking' = locking \cup {me}
        /\ Yield
        /\ UNCHANGED <<state, owner_pid, holds, openers>>
     \/ /\ ~Taken
        /\ state' = TRUE
        /\ owner_pid' = task_id[me]
        /\ locking' = locking \ {me}
        /\ holds' = holds \cup {me}
        /\ UNCHANGED <<vars, openers>>

\* Mutant of Owned: anybody may unlock.
Owned_any == state

Owned == owner_pid = task_id[me]

mutex_unlock ==
  /\ InOwnCode
  /\ me \notin locking
  /\ holds' = holds \ {me}
  /\ \/ /\ Owned
        /\ state' = FALSE
        /\ owner_pid' = 0
        /\ openers' = IF me \in holds THEN openers ELSE openers \cup {task_id[me]}
     \/ /\ ~Owned
        /\ UNCHANGED <<state, owner_pid, openers>>
  /\ UNCHANGED <<vars, locking>>

\* What the processes do outside the two functions.
OtherCode ==
  /\ me \notin locking
  /\ \/ Yield
     \/ \E p \in Priorities, c \in BOOLEAN : RegisterProcess(p, c)
     \/ \E pid \in Pids, sig \in Signals : SendSignal(pid, sig)
     \/ \E pid \in Pids : TerminateProcess(pid)
     \/ TerminateCurrent("exit")
     \/ \E pid \in Pids : WaitPid(pid)
  /\ UNCHANGED mutex

MutexNext ==
  \/ mutex_lock
  \/ mutex_unlock
  \/ OtherCode
  \/ Halted /\ UNCHANGED mutex
  \/ TimerInterrupt /\ UNCHANGED mutex

MutexSpec == MutexInit /\ [][MutexNext]_mvars

-----------------------------------------------------------------------------
(***************************************************************************)
(* Properties                                                              *)
(***************************************************************************)
MutexTypeOK ==
  /\ state \in BOOLEAN
  /\ owner_pid \in Pids \cup {0}
  /\ locking \subseteq Active
  /\ holds \subseteq Active
  /\ openers \subseteq Pids

\* At most one process is in its critical section, however it yields, ends or
\* is killed there, unless somebody opened the mutex who did not hold it, and
\* only a process with pid 100 can do that: mutex_unlock compares pids, and the
\* first registered process shares that pid with the master, so each of the
\* two opens what the other closed.
MutualExclusion ==
  /\ openers \subseteq {MASTER_PID}
  /\ openers = {} => \A i, j \in holds : i = j

\* A mutex whose owner was killed stays taken for ever: nobody else has its
\* pid, and mutex_lock does not look whether the owner lives.
DeadOwner ==
  /\ state
  /\ owner_pid # MASTER_PID
  /\ \E i \in Active : i # me /\ task_id[i] = owner_pid /\ execution_state[i] = "DEAD"
NeverReclaimed == [][DeadOwner => state' /\ owner_pid' = owner_pid]_mvars
=============================================================================
