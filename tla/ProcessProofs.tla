--------------------------- MODULE ProcessProofs ----------------------------
(***************************************************************************)
(* What runs on top of Scheduler, for every number of slots, workers,      *)
(* messages and ticks: the mutex of sys_tools.h, and the shell with the    *)
(* daemons of lcreset.  Both do nothing the scheduler's specification does *)
(* not allow, so its invariant holds of them.                              *)
(***************************************************************************)
EXTENDS Mutex, Lifecycle, SchedulerProofs, SequenceTheorems, FiniteSetTheorems

(***************************************************************************)
(* The mutex.  That pids other than the master's are unique is what the    *)
(* argument needs of the scheduler.                                        *)
(***************************************************************************)
\* A step of a process that uses the mutex is a step of Scheduler.
LEMMA MutexStepIsSchedulerStep ==
  ASSUME [MutexNext]_mvars
  PROVE  [Next]_vars
<1>1. CASE mutex_lock
  BY <1>1 DEF mutex_lock, Next
<1>2. CASE mutex_unlock
  BY <1>2 DEF mutex_unlock
<1>3. CASE OtherCode
  <2>1. CASE Yield
    BY <2>1 DEF Next
  <2>2. CASE \E p \in Priorities, c \in BOOLEAN : RegisterProcess(p, c)
    BY <2>2 DEF Next
  <2>3. CASE \E pid \in Pids, sig \in Signals : SendSignal(pid, sig)
    BY <2>3 DEF Next
  <2>4. CASE \E pid \in Pids : TerminateProcess(pid)
    BY <2>4 DEF Next
  <2>5. CASE TerminateCurrent("exit")
    BY <2>5 DEF Next
  <2>6. CASE \E pid \in Pids : WaitPid(pid)
    BY <2>6 DEF Next
  <2> QED BY <1>3, <2>1, <2>2, <2>3, <2>4, <2>5, <2>6 DEF OtherCode
<1>4. CASE Halted /\ UNCHANGED mutex
  BY <1>4 DEF Next
<1>5. CASE TimerInterrupt /\ UNCHANGED mutex
  BY <1>5 DEF Next
<1>6. CASE UNCHANGED mvars
  BY <1>6 DEF mvars
<1> QED BY <1>1, <1>2, <1>3, <1>4, <1>5, <1>6 DEF MutexNext

\* The processes with a mutex implement Scheduler (mutex_lock only yields).
THEOREM MutexImplementsScheduler == MutexSpec => Spec
<1>1. MutexInit => Init
  BY DEF MutexInit
<1>2. [MutexNext]_mvars => [Next]_vars
  BY MutexStepIsSchedulerStep
<1> QED BY <1>1, <1>2, PTL DEF MutexSpec, Spec

\* The scheduler's invariant therefore holds of them.
LEMMA SchedulerInvOfMutex == MutexSpec => []SchedulerInv
BY MutexImplementsScheduler, SchedulerInvariance, PTL

-----------------------------------------------------------------------------
(***************************************************************************)
(* The inductive invariant: a holder with a pid of its own is the recorded *)
(* owner, a recorded owner with a pid of its own is a holder, and while    *)
(* nobody opened a mutex it did not hold there is one holder at most.      *)
(***************************************************************************)
MutexInv ==
  /\ holds \subseteq Active
  /\ \A i \in holds : task_id[i] # MASTER_PID => state /\ owner_pid = task_id[i]
  /\ openers = {} => \A i \in holds : state /\ owner_pid = task_id[i]
  /\ owner_pid \notin {0, MASTER_PID} => \E i \in holds : task_id[i] = owner_pid
  /\ MutualExclusion

\* A process in use keeps its slot and its pid.
LEMMA PidsKept ==
  ASSUME SchedulerInv, [Next]_vars
  PROVE  /\ Active \subseteq Active'
         /\ \A i \in Active : task_id'[i] = task_id[i]
<1>1. CASE \E p \in Priorities, c \in BOOLEAN : RegisterProcess(p, c)
  <2>1. /\ active_process_count' = active_process_count + 1
        /\ task_id' = [task_id EXCEPT ![active_process_count] = generated_pid]
        /\ active_process_count \in Nat
        /\ task_id \in [Index -> Pids \cup {0}]
    BY <1>1, SchedulerConstants DEF RegisterProcess, SchedulerInv, TypeOK
  <2> QED BY <2>1, SchedulerConstants DEF Active, Index
<1>2. CASE UNCHANGED ProcessTable
  BY <1>2 DEF ProcessTable, table, Active
<1>3. UNCHANGED ProcessTable \/ \E p \in Priorities, c \in BOOLEAN : RegisterProcess(p, c)
  BY DEF Next, Yield, Sleep, SendSignal, CheckPendingSignals, IpcSend,
         IpcReceiveBlock, IpcReceiveTake, TerminateProcess, TerminateCurrent,
         Halted, WaitPid, TimerInterrupt, vars, ProcessTable
<1> QED BY <1>1, <1>2, <1>3

\* Two processes with the same pid are one, unless the pid is the master's;
\* the running process has a pid.
LEMMA RunningPid ==
  ASSUME SchedulerInv
  PROVE  /\ me \in Active
         /\ task_id[me] # 0
         /\ \A i \in Active :
              task_id[i] = task_id[me] /\ task_id[me] # MASTER_PID => i = me
<1>1. me \in Active /\ me \in Nat /\ task_id[me] \in Pids
  BY SchedulerConstants DEF SchedulerInv, TypeOK, me, Active, Index
<1>2. ASSUME NEW i \in Active, task_id[i] = task_id[me], task_id[me] # MASTER_PID
      PROVE  i = me
  <2>1. i \in Nat
    BY SchedulerConstants DEF Active, Index
  <2> QED BY <1>1, <1>2, <2>1 DEF SchedulerInv, PidInv, OnlyMasterPidShared
<1> QED BY <1>1, <1>2 DEF Pids, MASTER_PID

LEMMA MutexInvInit ==
  ASSUME MutexInit
  PROVE  MutexInv
BY DEF MutexInit, MutexInv, MutualExclusion

LEMMA MutexInvStep ==
  ASSUME SchedulerInv, MutexInv, [MutexNext]_mvars
  PROVE  MutexInv'
<1> USE DEF MutexInv, MutualExclusion
<1>1. [Next]_vars
  BY MutexStepIsSchedulerStep
<1>2. /\ Active \subseteq Active'
      /\ \A i \in Active : task_id'[i] = task_id[i]
  BY <1>1, PidsKept
<1>3. ASSUME UNCHANGED <<state, owner_pid, holds, openers>>
      PROVE  MutexInv'
  BY <1>2, <1>3
<1>4. CASE mutex_lock
  <2>1. CASE ~Taken /\ ~UNCHANGED <<state, owner_pid, holds, openers>>
    <3>1. /\ state' = TRUE
          /\ owner_pid' = task_id[me]
          /\ holds' = holds \cup {me}
          /\ openers' = openers
          /\ UNCHANGED vars
      BY <1>4, <2>1 DEF mutex_lock
    <3>2. task_id' = task_id /\ Active' = Active
      BY <3>1 DEF vars, table, Active
    <3>3. \A i \in holds : task_id[i] = MASTER_PID
      BY <2>1 DEF Taken
    <3>4. openers = {} => holds = {}
      BY <2>1 DEF Taken
    <3> QED BY <3>1, <3>2, <3>3, <3>4, RunningPid
  <2> QED BY <1>3, <1>4, <2>1 DEF mutex_lock
<1>5. CASE mutex_unlock
  <2>0. holds' = holds \ {me} /\ task_id' = task_id /\ Active' = Active
    BY <1>5 DEF mutex_unlock, vars, table, Active
  <2>1. CASE Owned
    <3>1. /\ state' = FALSE
          /\ owner_pid' = 0
          /\ openers' = IF me \in holds THEN openers ELSE openers \cup {task_id[me]}
      BY <1>5, <2>1 DEF mutex_unlock
    <3>2. me \notin holds => task_id[me] = MASTER_PID
      BY <2>1, RunningPid DEF Owned
    <3>3. \A i \in holds : i # me => task_id[i] = MASTER_PID
      BY <2>1, RunningPid DEF Owned
    <3>4. openers' = {} => openers = {} /\ holds' = {}
      BY <2>0, <3>1
    <3> QED BY <2>0, <3>1, <3>2, <3>3, <3>4
  <2>2. CASE ~Owned
    <3>1. UNCHANGED <<state, owner_pid, openers>>
      BY <1>5, <2>2 DEF mutex_unlock
    <3>2. owner_pid \notin {0, MASTER_PID} => \E i \in holds' : task_id[i] = owner_pid
      BY <2>0, <2>2 DEF Owned
    <3> QED BY <2>0, <3>1, <3>2
  <2> QED BY <2>1, <2>2
<1>6. CASE OtherCode
  BY <1>3, <1>6 DEF OtherCode, mutex
<1>7. CASE (Halted \/ TimerInterrupt) /\ UNCHANGED mutex
  BY <1>3, <1>7 DEF mutex
<1>8. CASE UNCHANGED mvars
  BY <1>3, <1>8 DEF mvars, mutex
<1> QED BY <1>4, <1>5, <1>6, <1>7, <1>8 DEF MutexNext

-----------------------------------------------------------------------------
\* At most one process holds the mutex, unless a process with the shared pid
\* 100 opened it for the other (mutex_unlock compares pids).
THEOREM OneHolder == MutexSpec => []MutualExclusion
<1>1. MutexInit => MutexInv
  BY MutexInvInit
<1>2. SchedulerInv /\ MutexInv /\ [MutexNext]_mvars => MutexInv'
  BY MutexInvStep
<1>3. MutexInv => MutualExclusion
  BY DEF MutexInv
<1> QED BY <1>1, <1>2, <1>3, SchedulerInvOfMutex, PTL DEF MutexSpec

\* What a dead owner with a pid of its own holds, no step opens
\* (mutex_lock tests state only, mutex_unlock compares pids).
THEOREM DeadOwnersKeep == MutexSpec => NeverReclaimed
<1>1. ASSUME SchedulerInv, DeadOwner, [MutexNext]_mvars
      PROVE  state' /\ owner_pid' = owner_pid
  <2>1. CASE mutex_lock
    BY <1>1, <2>1 DEF mutex_lock, Taken, DeadOwner
  <2>2. CASE mutex_unlock
    <3>1. ~Owned
      BY <1>1, RunningPid DEF Owned, DeadOwner
    <3> QED BY <1>1, <2>2, <3>1 DEF mutex_unlock, DeadOwner
  <2>3. CASE OtherCode \/ ((Halted \/ TimerInterrupt) /\ UNCHANGED mutex) \/ UNCHANGED mvars
    BY <1>1, <2>3 DEF OtherCode, mvars, mutex, DeadOwner
  <2> QED BY <1>1, <2>1, <2>2, <2>3 DEF MutexNext
<1>2. SchedulerInv /\ [MutexNext]_mvars
        => [DeadOwner => state' /\ owner_pid' = owner_pid]_mvars
  BY <1>1
<1> QED BY <1>2, SchedulerInvOfMutex, PTL DEF MutexSpec, NeverReclaimed

\* Around a mutex as without one, SIGKILL is the only way to leave a process
\* waiting for a dead one (scheduler_wait_pid).
THEOREM MutexWaitersHaveTargets == MutexSpec => []WaiterHasTarget
BY MutexImplementsScheduler, WaitersHaveTargets, PTL

\* Around a mutex as without one, no operation revives a dead process.
THEOREM MutexDeadStayDead == MutexSpec => DeadStaysDead
BY MutexImplementsScheduler, TheDeadStayDead, PTL

-----------------------------------------------------------------------------
(***************************************************************************)
(* The shell and its daemons: they never sleep longer than they asked for, *)
(* and a msgrecv with no letter on its way is lost for good.               *)
(***************************************************************************)
ShellPoints == {"prompt", "bootstrap", "msgrecv", "top"}
DaemonPoints == {"sleep", "receive", "echo", "yield"}

\* The code each process executes and where it is in it.
CodeOK ==
  /\ body \in [Index -> {"shell", "none", "auditor", "worker"}]
  /\ at \in [Index -> ShellPoints \cup DaemonPoints]
  /\ letter \in [Index -> Messages \cup {NoLetter}]
  /\ to_come \in Seq({"auditor", "worker"})
  /\ posted \in Nat
  /\ body[0] = "shell"
  /\ at[0] \in ShellPoints
  /\ \A i \in Index : at[i] = "echo" => letter[i] \in Messages

\* A daemon that has the CPU is runnable: nobody stops, kills or blocks it
\* while it runs.
DaemonRuns == me # 0 => execution_state[me] = "RUNNING"

\* A deadline a yield may find: none, one ahead, or one that wrapped around.
DeadlineOK(deadline) ==
  /\ deadline - kernel_elapsed_ticks <= AUDITOR_SLEEP
  /\ \/ deadline = 0
     \/ kernel_elapsed_ticks < deadline
     \/ deadline <= AUDITOR_SLEEP

\* The deadlines in the process table: only auditors have one; it is ahead
\* and not too far, while the auditor is alive.
SleepInv ==
  /\ \A i \in Index : body[i] # "auditor" => sleep_until_tick[i] = 0
  /\ \A i \in Index : body[i] = "auditor" => execution_state[i] \in {"RUNNING", "DEAD"}
  /\ \A i \in Active \ {0} :
       execution_state[i] = "RUNNING" =>
         \/ sleep_until_tick[i] = 0
         \/ /\ kernel_elapsed_ticks < sleep_until_tick[i]
            /\ sleep_until_tick[i] - kernel_elapsed_ticks <= AUDITOR_SLEEP

LifecycleInv == CodeOK /\ DaemonRuns /\ SleepInv

\* The constants and the running process.
LEMMA LifecycleTypes ==
  ASSUME SchedulerInv
  PROVE  /\ TypeOK
         /\ me \in Active
         /\ me \in Index
         /\ 0 \in Index
         /\ Index \subseteq Nat
         /\ Active \subseteq Index
         /\ kernel_elapsed_ticks \in Nat
         /\ kernel_elapsed_ticks < TICK_MOD
         /\ TICK_MOD \in Nat \ {0}
         /\ AUDITOR_SLEEP \in Nat \ {0}
<1>1. AUDITOR_SLEEP \in Nat \ {0}
  BY SchedulerConstants, LifecycleConstants
<1>2. TypeOK /\ me \in Active /\ 0 \in Active
  BY MasterActive DEF SchedulerInv, TypeOK, me
<1>3. TICK_MOD \in Nat \ {0} /\ kernel_elapsed_ticks \in 0 .. TICK_MOD - 1
  BY <1>2, SchedulerConstants DEF TypeOK
<1>4. Index \subseteq Nat /\ Active \subseteq Index
  BY SchedulerConstants DEF Active, Index
<1> QED BY <1>1, <1>2, <1>3, <1>4

\* What scheduler_sleep computes: the sum wrapped at most once or to less
\* than what was added.
LEMMA WrappedSum ==
  ASSUME NEW m \in Nat \ {0}, NEW t \in Nat, t < m, NEW s \in Nat \ {0}
  PROVE  /\ (t + s) % m \in 0 .. m - 1
         /\ ((t + s) % m) - t <= s
         /\ t < (t + s) % m \/ (t + s) % m <= s
         /\ (t + 1) % m = IF t + 1 < m THEN t + 1 ELSE 0
<1>1. (t + s) % m \in 0 .. m - 1
  OBVIOUS
<1>2. CASE t + s < m
  BY <1>2
<1>3. CASE ~(t + s < m)
  <2>1. (t + s) % m <= t + s - m
    <3> DEFINE q == (t + s) \div m
               r == (t + s) % m
    <3>1. q \in Nat /\ r \in Nat /\ t + s = m * q + r /\ r < m
      OBVIOUS
    <3>2. q # 0
      BY <1>3, <3>1
    <3>3. m * q >= m
      BY <3>1, <3>2
    <3> QED BY <3>1, <3>3
  <2> QED BY <1>1, <2>1
<1> QED BY <1>2, <1>3

\* scheduler_yield keeps the deadlines in order: it clears those that are
\* due and leaves those that are ahead.
LEMMA YieldKeepsSleep ==
  ASSUME SchedulerInv,
         NEW st \in [Index -> ExecutionStates],
         NEW sl \in [Index -> 0 .. TICK_MOD - 1],
         scheduler_yield(st, sl),
         UNCHANGED <<active_process_count, body>>,
         \A i \in Index : body[i] # "auditor" => sl[i] = 0,
         \A i \in Index : body[i] = "auditor" => st[i] \in {"RUNNING", "DEAD"},
         \A i \in Active \ {0} : st[i] = "RUNNING" => DeadlineOK(sl[i])
  PROVE  SleepInv' /\ DaemonRuns'
<1>1. YieldResult(st)
  BY LifecycleTypes, YieldLemma
<1>2. DaemonRuns' /\ execution_state' = st
  BY <1>1 DEF YieldResult, DaemonRuns, me
<1>3. Active' = Active
  BY DEF Active
<1>4. CASE active_process_count <= 1
  <2>1. sleep_until_tick' = sl
    BY <1>4 DEF scheduler_yield
  <2>2. \A i \in Active : i = 0
    BY <1>4, LifecycleTypes, SchedulerConstants DEF Active, Index, TypeOK
  <2> QED BY <1>2, <1>3, <2>1, <2>2 DEF SleepInv
<1>5. CASE ~(active_process_count <= 1)
  <2>1. /\ sleep_until_tick' = [i \in Index |-> IF Eligible(st, sl, i) THEN 0 ELSE sl[i]]
        /\ kernel_elapsed_ticks' = NextTick
    BY <1>5 DEF scheduler_yield, SelectAndSwitch, ExpiredCleared
  <2>2. \A i \in Index : body[i] # "auditor" => sleep_until_tick'[i] = 0
    BY <2>1
  <2>3. ASSUME NEW i \in Active \ {0}, st[i] = "RUNNING"
        PROVE  \/ sleep_until_tick'[i] = 0
               \/ /\ NextTick < sleep_until_tick'[i]
                  /\ sleep_until_tick'[i] - NextTick <= AUDITOR_SLEEP
    <3>1. CASE Eligible(st, sl, i)
      BY <2>1, <3>1, LifecycleTypes
    <3>2. CASE ~Eligible(st, sl, i)
      <4>1. sl[i] \in Nat /\ sl[i] < TICK_MOD /\ DeadlineOK(sl[i])
        BY <2>3, LifecycleTypes
      <4>2. NextTick = IF kernel_elapsed_ticks + 1 < TICK_MOD
                         THEN kernel_elapsed_ticks + 1 ELSE 0
        BY LifecycleTypes, WrappedSum DEF NextTick
      <4>3. ~(NextTick >= sl[i])
        BY <2>3, <3>2 DEF Eligible
      <4>4. sl[i] - NextTick <= AUDITOR_SLEEP
        BY <4>1, <4>2, <4>3, LifecycleTypes DEF DeadlineOK
      <4> QED BY <2>1, <3>2, <4>1, <4>2, <4>3, <4>4, LifecycleTypes
    <3> QED BY <3>1, <3>2
  <2> QED BY <1>2, <1>3, <2>1, <2>2, <2>3 DEF SleepInv
<1> QED BY <1>2, <1>4, <1>5

\* A step that keeps the CPU and wakes only processes that are blocked.
LEMMA NoSwitchKeepsSleep ==
  ASSUME SchedulerInv, SleepInv,
         NEW st \in [Index -> ExecutionStates],
         NoSwitch(st),
         UNCHANGED <<active_process_count, body>>,
         \A i \in Index : \/ st[i] = execution_state[i]
                          \/ st[i] = "DEAD"
                          \/ execution_state[i] = "BLOCKED"
  PROVE  SleepInv'
<1>1. /\ execution_state' = st
      /\ UNCHANGED <<kernel_elapsed_ticks, sleep_until_tick>>
      /\ Active' = Active
  BY DEF NoSwitch, Active
<1>2. \A i \in Index : execution_state[i] = "BLOCKED" => body[i] # "auditor"
  BY DEF SleepInv
<1> QED BY <1>1, <1>2, LifecycleTypes DEF SleepInv

-----------------------------------------------------------------------------
(***************************************************************************)
(* The invariant.                                                          *)
(***************************************************************************)

LEMMA LifecycleInvInit ==
  ASSUME LifecycleInit
  PROVE  LifecycleInv
<1>1. 0 \in Index
  BY SchedulerConstants DEF Index
<1>2. << >> \in Seq({"auditor", "worker"})
  OBVIOUS
<1>3. CodeOK
  BY <1>1, <1>2 DEF LifecycleInit, CodeOK, ShellPoints
<1>4. DaemonRuns /\ SleepInv
  BY <1>1 DEF LifecycleInit, Init, DaemonRuns, SleepInv, me, Active
<1> QED BY <1>3, <1>4 DEF LifecycleInv

\* A step that moves one process to another point of its code, a shell to a
\* point of the shell.
LEMMA MoveKeepsCode ==
  ASSUME CodeOK, NEW i \in Index, NEW point \in ShellPoints \cup DaemonPoints,
         at' = [at EXCEPT ![i] = point],
         i = 0 => point \in ShellPoints,
         point # "echo",
         UNCHANGED <<body, letter, to_come>>,
         posted' = posted
  PROVE  CodeOK'
BY DEF CodeOK

\* scheduler_yield called with the process table as it is.
LEMMA PlainYield ==
  ASSUME SchedulerInv, LifecycleInv, UNCHANGED body,
         \/ Yield
         \/ body[me] # "auditor" /\ IpcReceiveBlock
         \/ body[me] = "auditor" /\ Sleep(AUDITOR_SLEEP)
  PROVE  SleepInv' /\ DaemonRuns'
<1> USE DEF LifecycleInv, SleepInv
<1>0. /\ execution_state \in [Index -> ExecutionStates]
      /\ sleep_until_tick \in [Index -> 0 .. TICK_MOD - 1]
  BY LifecycleTypes DEF TypeOK
<1>1. \A i \in Active \ {0} :
        execution_state[i] = "RUNNING" => DeadlineOK(sleep_until_tick[i])
  BY <1>0, LifecycleTypes DEF DeadlineOK
<1>2. CASE Yield
  BY <1>0, <1>1, <1>2, YieldKeepsSleep DEF Yield, ProcessTable
<1>3. CASE body[me] # "auditor" /\ IpcReceiveBlock
  <2> DEFINE st == [execution_state EXCEPT ![me] = "BLOCKED"]
  <2>1. st \in [Index -> ExecutionStates]
    BY <1>0 DEF ExecutionStates
  <2>2. /\ scheduler_yield(st, sleep_until_tick)
        /\ UNCHANGED active_process_count
    BY <1>3 DEF IpcReceiveBlock, ProcessTable
  <2>3. \A i \in Index : body[i] = "auditor" => st[i] \in {"RUNNING", "DEAD"}
    BY <1>0, <1>3
  <2>4. \A i \in Active \ {0} : st[i] = "RUNNING" => DeadlineOK(sleep_until_tick[i])
    BY <1>0, <1>1, LifecycleTypes
  <2> HIDE DEF st
  <2> QED BY <1>0, <2>1, <2>2, <2>3, <2>4, YieldKeepsSleep
<1>4. CASE body[me] = "auditor" /\ Sleep(AUDITOR_SLEEP)
  <2> DEFINE deadline == (kernel_elapsed_ticks + AUDITOR_SLEEP) % TICK_MOD
             sl == [sleep_until_tick EXCEPT ![me] = deadline]
  <2>1. deadline \in 0 .. TICK_MOD - 1 /\ DeadlineOK(deadline)
    BY LifecycleTypes, WrappedSum DEF DeadlineOK
  <2>2. /\ scheduler_yield(execution_state, sl)
        /\ UNCHANGED active_process_count
    BY <1>4 DEF Sleep, ProcessTable
  <2> HIDE DEF deadline
  <2>3. sl \in [Index -> 0 .. TICK_MOD - 1]
    BY <1>0, <2>1
  <2>4. \A i \in Index : body[i] # "auditor" => sl[i] = 0
    BY <1>0, <1>4
  <2>5. \A i \in Active \ {0} : execution_state[i] = "RUNNING" => DeadlineOK(sl[i])
    BY <1>0, <1>1, <2>1, LifecycleTypes
  <2> HIDE DEF sl
  <2> QED BY <1>0, <2>2, <2>3, <2>4, <2>5, YieldKeepsSleep
<1> QED BY <1>2, <1>3, <1>4

\* A send, a receive that finds a message, a kill by the shell or an interrupt.
LEMMA QuietCall ==
  ASSUME SchedulerInv, LifecycleInv, UNCHANGED body,
         \/ \E pid, data : IpcSend(pid, data)
         \/ IpcReceiveTake \/ TimerInterrupt
         \/ me = 0 /\ \E pid : TerminateProcess(pid)
  PROVE  SleepInv' /\ DaemonRuns'
<1>0. execution_state \in [Index -> ExecutionStates]
  BY LifecycleTypes DEF TypeOK
<1>1. CASE \E pid, data : IpcSend(pid, data)
  <2>1. PICK i \in Index : NoSwitch(WokenBySend(i)) /\ UNCHANGED ProcessTable
    BY <1>1 DEF IpcSend
  <2>2. /\ WokenBySend(i) \in [Index -> ExecutionStates]
        /\ \A j \in Index : \/ WokenBySend(i)[j] = execution_state[j]
                            \/ execution_state[j] = "BLOCKED"
    BY <1>0 DEF WokenBySend, ExecutionStates
  <2>3. SleepInv'
    BY <2>1, <2>2, NoSwitchKeepsSleep DEF LifecycleInv, ProcessTable
  <2>4. DaemonRuns'
    BY <2>1, <2>2, LifecycleTypes DEF LifecycleInv, DaemonRuns, NoSwitch, me
  <2> QED BY <2>3, <2>4
<1>2. CASE IpcReceiveTake \/ TimerInterrupt
  <2>1. NoSwitch(execution_state) /\ UNCHANGED ProcessTable
    BY <1>2 DEF IpcReceiveTake, TimerInterrupt
  <2>2. SleepInv'
    BY <1>0, <2>1, NoSwitchKeepsSleep DEF LifecycleInv, ProcessTable
  <2>3. DaemonRuns'
    BY <2>1 DEF LifecycleInv, DaemonRuns, NoSwitch, me
  <2> QED BY <2>2, <2>3
<1>3. CASE me = 0 /\ \E pid : TerminateProcess(pid)
  <2>1. PICK i \in Index : NoSwitch(AfterTermination(i)) /\ UNCHANGED ProcessTable
    BY <1>3 DEF TerminateProcess, IsFirst, Active
  <2>2. /\ AfterTermination(i) \in [Index -> ExecutionStates]
        /\ \A j \in Index : \/ AfterTermination(i)[j] = execution_state[j]
                            \/ AfterTermination(i)[j] = "DEAD"
                            \/ execution_state[j] = "BLOCKED"
    BY <1>0, LifecycleTypes, TerminationType
       DEF AfterTermination, Released, WaitsFor
  <2>3. SleepInv'
    BY <2>1, <2>2, NoSwitchKeepsSleep DEF LifecycleInv, ProcessTable
  <2>4. DaemonRuns'
    BY <1>3, <2>1 DEF DaemonRuns, NoSwitch, me
  <2> QED BY <2>3, <2>4
<1> QED BY <1>1, <1>2, <1>3

\* The scheduler's variables stay as they are.
LEMMA NoCall ==
  ASSUME LifecycleInv, UNCHANGED <<vars, body>>
  PROVE  SleepInv' /\ DaemonRuns'
BY DEF LifecycleInv, SleepInv, DaemonRuns, vars, table, me, Active

\* Every step of the shell or of a daemon is a call of multitasking.h, or
\* leaves the scheduler alone, and keeps the invariant.
LEMMA LifecycleStep ==
  ASSUME SchedulerInv, LifecycleInv, [LifecycleNext]_lvars
  PROVE  [Next]_vars /\ LifecycleInv'
<1> USE DEF LifecycleInv
<1>0. /\ me \in Index
      /\ 0 \in Index
      /\ body[me] = "worker" \/ body[me] = "auditor" => me # 0
  BY LifecycleTypes DEF CodeOK
<1>1. CASE Reset
  <2>1. to_come' \in Seq({"auditor", "worker"})
    <3>1. [n \in 1 .. WORKERS |-> "worker"] \in Seq({"auditor", "worker"})
      BY LifecycleConstants
    <3>2. <<"auditor">> \in Seq({"auditor", "worker"})
      OBVIOUS
    <3> QED BY <1>1, <3>1, <3>2, ConcatProperties DEF Reset
  <2>2. CodeOK'
    BY <1>0, <1>1, <2>1 DEF Reset, Shell, Goto, CodeOK, ShellPoints, DaemonPoints, history
  <2> QED BY <1>1, <2>2, NoCall DEF Reset
<1>2. CASE Bootstrap
  <2>1. to_come' \in Seq({"auditor", "worker"}) /\ Head(to_come) \in {"auditor", "worker"}
    BY <1>2 DEF Bootstrap, CodeOK
  <2>2. CASE UNCHANGED <<vars, body, at>>
    <3>1. CodeOK'
      BY <1>2, <2>1, <2>2 DEF Bootstrap, CodeOK, history
    <3> QED BY <2>2, <3>1, NoCall
  <2>3. CASE ~UNCHANGED <<vars, body, at>>
    <3>1. PICK p \in Priorities, c \in BOOLEAN : RegisterProcess(p, c)
      BY <1>2, <2>3, LifecycleConstants DEF Bootstrap
    <3>2. /\ body' = [body EXCEPT ![active_process_count] = Head(to_come)]
          /\ at' = [at EXCEPT ![active_process_count] =
                      IF Head(to_come) = "auditor" THEN "sleep" ELSE "receive"]
          /\ UNCHANGED <<letter, posted>>
      BY <1>2, <2>3 DEF Bootstrap, history
    <3>3. /\ active_process_count \in Index \ {0}
          /\ Active' = Active \cup {active_process_count}
          /\ me' = me /\ me # active_process_count
          /\ execution_state' = [execution_state EXCEPT ![active_process_count] = "RUNNING"]
      BY <3>1, LifecycleTypes, RegisterEffect
    <3>4. CodeOK'
      BY <2>1, <3>2, <3>3 DEF CodeOK, ShellPoints, DaemonPoints
    <3>5. DaemonRuns'
      BY <3>3, LifecycleTypes DEF DaemonRuns, TypeOK
    <3>6. /\ sleep_until_tick' = [sleep_until_tick EXCEPT ![active_process_count] = 0]
          /\ kernel_elapsed_ticks' = kernel_elapsed_ticks
      BY <3>1 DEF RegisterProcess
    <3>7. SleepInv'
      <4> USE LifecycleTypes DEF TypeOK, CodeOK
      <4>1. \A i \in Index : body'[i] # "auditor" => sleep_until_tick'[i] = 0
        BY <3>2, <3>3, <3>6 DEF SleepInv
      <4>2. \A i \in Index : body'[i] = "auditor" => execution_state'[i] \in {"RUNNING", "DEAD"}
        BY <3>2, <3>3 DEF SleepInv
      <4>3. \A i \in Active' \ {0} :
              execution_state'[i] = "RUNNING" =>
                \/ sleep_until_tick'[i] = 0
                \/ /\ kernel_elapsed_ticks < sleep_until_tick'[i]
                   /\ sleep_until_tick'[i] - kernel_elapsed_ticks <= AUDITOR_SLEEP
        <5> SUFFICES ASSUME NEW i \in Active' \ {0}, execution_state'[i] = "RUNNING"
                     PROVE  \/ sleep_until_tick'[i] = 0
                            \/ /\ kernel_elapsed_ticks < sleep_until_tick'[i]
                               /\ sleep_until_tick'[i] - kernel_elapsed_ticks <= AUDITOR_SLEEP
          OBVIOUS
        <5>1. CASE i = active_process_count
          BY <3>3, <3>6, <5>1
        <5>2. CASE i # active_process_count
          <6>1. i \in Active \ {0} /\ execution_state[i] = "RUNNING"
            BY <3>3, <5>2
          <6>2. sleep_until_tick'[i] = sleep_until_tick[i]
            BY <3>3, <3>6, <5>2, <6>1
          <6> QED BY <6>1, <6>2 DEF SleepInv
        <5> QED BY <5>1, <5>2
      <4> QED BY <3>6, <4>1, <4>2, <4>3 DEF SleepInv
    <3> QED BY <3>1, <3>4, <3>5, <3>7 DEF Next
  <2> QED BY <2>2, <2>3
<1>3. CASE BootstrapDone \/ TopStart \/ TopQuit
  <2>1. CodeOK'
    BY <1>0, <1>3, MoveKeepsCode
       DEF BootstrapDone, TopStart, TopQuit, Shell, Goto, ShellPoints, history
  <2> QED BY <1>3, <2>1, NoCall DEF BootstrapDone, TopStart, TopQuit
<1>4. ASSUME NEW pid \in Pids, cmd_msgsend(pid)
      PROVE  [Next]_vars /\ LifecycleInv'
  <2>1. posted + 1 \in Payloads
    BY <1>4, LifecycleConstants DEF cmd_msgsend, CodeOK
  <2>2. CodeOK' /\ UNCHANGED body
    BY <1>4 DEF cmd_msgsend, CodeOK, lifecycle
  <2>3. IpcSend(pid, posted + 1)
    BY <1>4 DEF cmd_msgsend
  <2> QED BY <2>1, <2>2, <2>3, QuietCall DEF Next
<1>5. CASE cmd_msgrecv
  <2>1. me = 0 /\ body[me] = "shell" /\ UNCHANGED body
    BY <1>5 DEF cmd_msgrecv, Shell, CodeOK
  <2>2. CodeOK'
    BY <1>0, <1>5, <2>1, MoveKeepsCode DEF cmd_msgrecv, Goto, ShellPoints
  <2>3. CASE IpcReceiveBlock
    BY <2>1, <2>2, <2>3, PlainYield DEF Next
  <2>4. CASE IpcReceiveTake
    BY <2>1, <2>2, <2>4, QuietCall DEF Next
  <2> QED BY <1>5, <2>3, <2>4 DEF cmd_msgrecv
<1>6. ASSUME NEW pid \in Pids, cmd_kill(pid)
      PROVE  [Next]_vars /\ LifecycleInv'
  <2>1. CodeOK' /\ UNCHANGED body /\ me = 0 /\ TerminateProcess(pid)
    BY <1>6 DEF cmd_kill, CodeOK, lifecycle, history, Shell
  <2> QED BY <2>1, QuietCall DEF Next
<1>7. CASE TopYield
  <2>1. CodeOK' /\ UNCHANGED body /\ Yield
    BY <1>7 DEF TopYield, CodeOK, lifecycle, history
  <2> QED BY <2>1, PlainYield DEF Next
<1>8. CASE WorkerYield
  <2>1. UNCHANGED body /\ Yield
    BY <1>8 DEF WorkerYield
  <2>2. CodeOK'
    BY <1>0, <1>8 DEF WorkerYield, Worker, Goto, CodeOK, history, DaemonPoints
  <2> QED BY <2>1, <2>2, PlainYield DEF Next
<1>9. CASE AuditorYield
  <2>1. UNCHANGED body /\ Yield
    BY <1>9 DEF AuditorYield
  <2>2. CodeOK'
    BY <1>0, <1>9, MoveKeepsCode DEF AuditorYield, Goto, history, DaemonPoints
  <2> QED BY <2>1, <2>2, PlainYield DEF Next
<1>10. CASE WorkerReceive
  <2>1. body[me] = "worker" /\ UNCHANGED <<body, to_come, posted>>
    BY <1>10 DEF WorkerReceive, Worker, history
  <2>2. CASE IpcReceiveBlock /\ UNCHANGED <<at, letter>>
    <3>1. CodeOK'
      BY <2>1, <2>2 DEF CodeOK
    <3> QED BY <2>1, <2>2, <3>1, PlainYield DEF Next
  <2>3. CASE IpcReceiveTake /\ letter' = [letter EXCEPT ![me] = Head(channel[me])] /\ Goto("echo")
    <3>1. Head(channel[me]) \in Messages
      <4>1. channel[me] \in Seq(Messages) /\ channel[me] # << >>
        BY <1>0, <2>3, LifecycleTypes DEF IpcReceiveTake, TypeOK
      <4> QED BY <4>1, HeadTailProperties
    <3>2. CodeOK'
      BY <1>0, <2>1, <2>3, <3>1 DEF CodeOK, Goto, DaemonPoints
    <3> QED BY <2>1, <2>3, <3>2, QuietCall DEF Next
  <2> QED BY <1>10, <2>2, <2>3 DEF WorkerReceive
<1>11. CASE WorkerEcho
  <2>1. UNCHANGED body /\ letter[me] \in Messages
    BY <1>0, <1>11 DEF WorkerEcho, Worker, CodeOK
  <2>2. CodeOK'
    BY <1>0, <1>11, MoveKeepsCode DEF WorkerEcho, Worker, Goto, DaemonPoints
  <2>3. CASE IpcSend(EchoTarget, letter[me].data)
    <3>1. EchoTarget \in Pids /\ letter[me].data \in Payloads
      BY <2>1 DEF EchoTarget, Messages
    <3> QED BY <2>1, <2>2, <2>3, <3>1, QuietCall DEF Next
  <2>4. CASE UNCHANGED vars
    BY <2>1, <2>2, <2>4, NoCall
  <2> QED BY <1>11, <2>3, <2>4 DEF WorkerEcho
<1>12. CASE AuditorSleep
  <2>1. UNCHANGED body /\ body[me] = "auditor" /\ Sleep(AUDITOR_SLEEP)
    BY <1>12 DEF AuditorSleep
  <2>2. CodeOK'
    BY <1>0, <1>12, MoveKeepsCode DEF AuditorSleep, Goto, history, DaemonPoints
  <2> QED BY <2>1, <2>2, PlainYield, LifecycleConstants DEF Next
<1>13. CASE UNCHANGED lvars
  <2>1. CodeOK' /\ UNCHANGED <<vars, body>>
    BY <1>13 DEF lvars, lifecycle, history, CodeOK
  <2> QED BY <2>1, NoCall
<1>14. CASE Interrupt
  <2>1. CodeOK' /\ UNCHANGED body
    BY <1>14 DEF Interrupt, lifecycle, history, CodeOK
  <2>2. CASE TimerInterrupt
    BY <2>1, <2>2, QuietCall DEF Next
  <2>3. CASE Halted
    BY <2>1, <2>3, NoCall DEF Halted
  <2> QED BY <1>14, <2>2, <2>3 DEF Interrupt
<1> QED BY <1>1, <1>2, <1>3, <1>4, <1>5, <1>6, <1>7, <1>8, <1>9, <1>10,
           <1>11, <1>12, <1>13, <1>14
        DEF LifecycleNext, Command, Machine

-----------------------------------------------------------------------------
(***************************************************************************)
(* The theorems.                                                           *)
(***************************************************************************)

\* Both invariants hold together.
LEMMA LifecycleInvariance == LifecycleSpec => [](SchedulerInv /\ LifecycleInv)
<1>1. LifecycleInit => SchedulerInv /\ LifecycleInv
  BY LifecycleInvInit, InvInit DEF LifecycleInit
<1>2. SchedulerInv /\ LifecycleInv /\ [LifecycleNext]_lvars
        => (SchedulerInv /\ LifecycleInv)'
  BY LifecycleStep, InvStep
<1> QED BY <1>1, <1>2, PTL DEF LifecycleSpec

\* The shell and its daemons implement Scheduler, so all that is proved of it
\* holds of them (tasks.h and sys_tools.h call nothing but multitasking.h).
THEOREM LifecycleImplementsScheduler == LifecycleSpec => Spec
<1>1. LifecycleInit => Init
  BY DEF LifecycleInit
<1>2. SchedulerInv /\ LifecycleInv /\ [LifecycleNext]_lvars => [Next]_vars
  BY LifecycleStep
<1> QED BY <1>1, <1>2, LifecycleInvariance, PTL DEF LifecycleSpec, Spec

\* Nobody sleeps longer than it asked for, although the tick counter wraps
\* (scheduler_sleep against the comparison in the selection loop).
THEOREM SleepIsBounded == LifecycleSpec => []SleepBounded
<1>1. ASSUME SchedulerInv, LifecycleInv
      PROVE  SleepBounded
  <2>1. ASSUME NEW i \in Active \ {0}, execution_state[i] = "RUNNING"
        PROVE  \/ sleep_until_tick[i] <= kernel_elapsed_ticks
               \/ sleep_until_tick[i] - kernel_elapsed_ticks <= AUDITOR_SLEEP
    BY <1>1, <2>1, LifecycleTypes DEF LifecycleInv, SleepInv
  <2> QED BY <2>1, LifecycleConstants DEF SleepBounded
<1>2. SchedulerInv /\ LifecycleInv => SleepBounded
  BY <1>1
<1> QED BY <1>2, LifecycleInvariance, PTL

\* A process that gets a letter to its channel while the shell waits in vain:
\* there is none.
LEMMA NothingMoves ==
  ASSUME SchedulerInv, LifecycleInv, Waiting, ~OnItsWay,
         [LifecycleNext]_lvars
  PROVE  /\ Waiting'
         /\ UNCHANGED <<channel, body, active_process_count>>
         /\ \A i \in Index : at'[i] = "echo" => at[i] = "echo"
         /\ \A i \in Index : execution_state[i] = "DEAD" => i = me \/ execution_state'[i] = "DEAD"
<1> USE DEF Waiting
<1>0. /\ 0 \in Index /\ me \in Active /\ me \in Index
      /\ channel[0] = << >>
      /\ at[0] = "msgrecv" /\ body[0] = "shell"
      /\ at \in [Index -> ShellPoints \cup DaemonPoints]
      /\ execution_state \in [Index -> ExecutionStates]
  BY LifecycleTypes DEF OnItsWay, LifecycleInv, CodeOK, TypeOK
<1>1. body[me] = "worker" => channel[me] = << >> /\ ~Held(me)
  BY <1>0 DEF OnItsWay, Workers, LifecycleInv, DaemonRuns
<1>2. ~Command /\ ~Bootstrap /\ ~BootstrapDone /\ ~TopYield
  BY <1>0 DEF Command, Bootstrap, BootstrapDone, TopYield, Reset, Shell,
              cmd_msgsend, cmd_kill, TopStart, TopQuit
<1>3. ~WorkerEcho
  <2>1. Worker("echo") => Held(me)
    BY DEF Worker, Held
  <2> QED BY <1>1, <2>1 DEF WorkerEcho, Worker
<1>4. CASE Shell("msgrecv") /\ cmd_msgrecv
  <2>1. IpcReceiveBlock /\ Goto("msgrecv") /\ UNCHANGED body
    BY <1>0, <1>4 DEF cmd_msgrecv, IpcReceiveTake, Shell
  <2> QED BY <1>0, <2>1
          DEF IpcReceiveBlock, Goto, ProcessTable, scheduler_yield
<1>5. CASE WorkerReceive
  <2>1. IpcReceiveBlock /\ UNCHANGED <<at, body>>
    BY <1>1, <1>5 DEF WorkerReceive, Worker, IpcReceiveTake
  <2> QED BY <1>0, <2>1 DEF IpcReceiveBlock, ProcessTable, scheduler_yield
<1>6. CASE WorkerYield \/ AuditorYield
  <2>1. Yield /\ (Goto("receive") \/ Goto("sleep")) /\ UNCHANGED body /\ me # 0
    BY <1>0, <1>6 DEF WorkerYield, AuditorYield, Worker
  <2> QED BY <1>0, <2>1 DEF Yield, Goto, ProcessTable, scheduler_yield
<1>7. CASE AuditorSleep
  <2>1. Sleep(AUDITOR_SLEEP) /\ Goto("yield") /\ UNCHANGED body /\ me # 0
    BY <1>0, <1>7 DEF AuditorSleep
  <2> QED BY <1>0, <2>1 DEF Sleep, Goto, ProcessTable, scheduler_yield
<1>8. CASE UNCHANGED lvars
  BY <1>8 DEF lvars, vars, lifecycle
<1>9. CASE Interrupt
  <2>1. /\ UNCHANGED <<channel, body, at, active_process_count>>
        /\ execution_state' = execution_state
    BY <1>9 DEF Interrupt, TimerInterrupt, NoSwitch, Halted, vars, lifecycle, ProcessTable
  <2> QED BY <1>0, <2>1
<1> QED BY <1>2, <1>3, <1>4, <1>5, <1>6, <1>7, <1>8, <1>9 DEF LifecycleNext, Machine

LEMMA StaysLost ==
  ASSUME SchedulerInv, LifecycleInv, Waiting, ~OnItsWay, [LifecycleNext]_lvars
  PROVE  Waiting' /\ ~OnItsWay'
<1>1. /\ Waiting'
      /\ channel' = channel /\ Active' = Active /\ Workers' = Workers
      /\ \A i \in Index : at'[i] = "echo" => at[i] = "echo"
      /\ \A i \in Index : execution_state[i] = "DEAD" => i = me \/ execution_state'[i] = "DEAD"
  BY NothingMoves DEF Active, Workers
<1>2. channel[0] = << >>
  BY DEF OnItsWay
<1>3. ASSUME NEW i \in Workers, execution_state'[i] # "DEAD"
      PROVE  channel[i] = << >> /\ ~Held(i)'
  <2>1. i \in Active /\ i \in Index /\ body[i] = "worker" /\ (i = me => i # 0)
    BY LifecycleTypes DEF Workers, LifecycleInv, CodeOK
  <2>2. execution_state[i] # "DEAD"
    BY <1>1, <1>3, <2>1 DEF LifecycleInv, DaemonRuns
  <2>3. channel[i] = << >> /\ ~Held(i)
    BY <1>3, <2>2 DEF OnItsWay
  <2>4. at[i] # "echo"
    BY <2>3 DEF Held
  <2> QED BY <1>1, <2>1, <2>3, <2>4 DEF Held
<1> QED BY <1>1, <1>2, <1>3 DEF OnItsWay

-----------------------------------------------------------------------------
(***************************************************************************)
(* The letters.  Of the scheduler's invariant the argument needs that pids *)
(* other than the master's are unique; a worker never has the master's,    *)
(* since lcreset registers the auditor first.  So an echo never goes to a  *)
(* worker, and all a worker has comes from the shell.                      *)
(***************************************************************************)
\* The messages that somebody in the table may have sent.
KnownMail ==
  {m \in Messages : m.data <= posted /\ \E j \in Active : task_id[j] = m.sender_id}

AuditorFirst ==
  to_come # << >> /\ active_process_count = 1 /\ SYS_MAX_TASKS # 1
    => Head(to_come) = "auditor"

WorkerInv ==
  /\ \A i \in Workers : task_id[i] # MASTER_PID
  /\ \A i \in Index : Held(i) => i \in Workers
  /\ AuditorFirst

MailInv ==
  /\ \A i \in Index : \A k \in DOMAIN channel[i] : channel[i][k] \in KnownMail
  /\ \A i \in Index : Held(i) => letter[i] \in KnownMail
  /\ heard \subseteq KnownMail
  /\ dropped \subseteq 1 .. posted
  /\ \A i \in Index \ Active : channel[i] = << >>
  /\ \A i \in Workers : \A k \in DOMAIN channel[i] : channel[i][k].sender_id = MASTER_PID
  /\ \A i \in Workers : Held(i) => letter[i].sender_id = MASTER_PID

(***************************************************************************)
(* What a step does to the letters.                                        *)
(***************************************************************************)
HeldKept(S) == \A i \in S : Held(i)' = Held(i) /\ (Held(i) => letter'[i] = letter[i])
TableKept == UNCHANGED <<active_process_count, task_id, body>>

Still ==
  TableKept /\ HeldKept(Index) /\ UNCHANGED <<channel, posted, heard, dropped>>
Registering(new, b) ==
  /\ new = active_process_count
  /\ new \in Index \ {0} /\ new \notin Active /\ Active' = Active \cup {new}
  /\ b = "worker" => new # 1
  /\ task_id' = [task_id EXCEPT ![new] = generated_pid]
  /\ body' = [body EXCEPT ![new] = b]
  /\ channel' = [channel EXCEPT ![new] = << >>]
  /\ ~Held(new)' /\ HeldKept(Index \ {new}) /\ UNCHANGED <<posted, heard, dropped>>
Posting(i) ==
  /\ i \in Active
  /\ channel' = [channel EXCEPT ![i] =
                   Append(@, [sender_id |-> task_id[0], data |-> posted + 1])]
  /\ posted' = posted + 1 /\ posted + 1 \in Payloads
  /\ TableKept /\ HeldKept(Index) /\ UNCHANGED <<heard, dropped>>
Showing ==
  /\ channel[0] # << >>
  /\ channel' = [channel EXCEPT ![0] = Tail(@)]
  /\ heard' = heard \cup {Head(channel[0])}
  /\ TableKept /\ HeldKept(Index) /\ UNCHANGED <<posted, dropped>>
Taking(w) ==
  /\ w \in Workers /\ ~Held(w) /\ Held(w)'
  /\ channel[w] # << >>
  /\ letter'[w] = Head(channel[w])
  /\ channel' = [channel EXCEPT ![w] = Tail(@)]
  /\ TableKept /\ HeldKept(Index \ {w}) /\ UNCHANGED <<posted, heard, dropped>>
Echoing(w, i) ==
  /\ w \in Workers /\ Held(w) /\ ~Held(w)'
  /\ i \in Active /\ task_id[i] = letter[w].sender_id
  /\ channel' = [channel EXCEPT ![i] =
                   Append(@, [sender_id |-> task_id[w], data |-> letter[w].data])]
  /\ TableKept /\ HeldKept(Index \ {w}) /\ UNCHANGED <<posted, heard, dropped>>
Refusing(w) ==
  /\ w \in Workers /\ Held(w) /\ ~Held(w)'
  /\ dropped' = dropped \cup {letter[w].data}
  /\ TableKept /\ HeldKept(Index \ {w}) /\ UNCHANGED <<channel, posted, heard>>

LEMMA Moves ==
  ASSUME SchedulerInv, LifecycleInv, WorkerInv, [LifecycleNext]_lvars
  PROVE  \/ Still
         \/ \E new \in Index, b \in {"auditor", "worker"} : Registering(new, b)
         \/ \E i \in Index : Posting(i)
         \/ Showing
         \/ \E w \in Index : Taking(w) \/ Refusing(w) \/ \E i \in Index : Echoing(w, i)
<1> USE DEF TableKept, HeldKept, Held
<1>0. /\ me \in Active /\ me \in Index /\ 0 \in Index /\ Active \subseteq Index
      /\ at \in [Index -> ShellPoints \cup DaemonPoints]
      /\ body \in [Index -> {"shell", "none", "auditor", "worker"}]
      /\ letter \in [Index -> Messages \cup {NoLetter}]
      /\ body[0] = "shell" /\ at[0] \in ShellPoints
  BY LifecycleTypes DEF LifecycleInv, CodeOK
<1>1. UNCHANGED ProcessTable => UNCHANGED <<active_process_count, task_id>>
  BY DEF ProcessTable, table
<1>2. UNCHANGED vars => UNCHANGED <<active_process_count, task_id, channel>>
  BY DEF vars, table
<1>3. CASE Reset \/ BootstrapDone \/ TopStart \/ TopQuit
  <2>1. /\ me = 0 /\ UNCHANGED <<vars, body, letter, history>>
        /\ \E point \in ShellPoints : at' = [at EXCEPT ![me] = point]
    BY <1>3 DEF Reset, BootstrapDone, TopStart, TopQuit, Shell, Goto, ShellPoints
  <2>2. \A i \in Index : Held(i)' = Held(i)
    BY <1>0, <2>1 DEF ShellPoints
  <2> QED BY <1>2, <2>1, <2>2 DEF Still, history
<1>4. CASE Bootstrap
  <2>1. Head(to_come) \in {"auditor", "worker"} /\ to_come # << >>
    BY <1>4 DEF Bootstrap, LifecycleInv, CodeOK
  <2>2. CASE UNCHANGED <<vars, body, at>>
    BY <1>2, <1>4, <2>2 DEF Bootstrap, Still, history
  <2>3. CASE ~UNCHANGED <<vars, body, at>>
    <3> DEFINE b == Head(to_come)
    <3>1. PICK p \in Priorities, c \in BOOLEAN : RegisterProcess(p, c)
      BY <1>4, <2>3, LifecycleConstants DEF Bootstrap
    <3>2. PICK new \in Index : new = active_process_count
      BY <3>1, LifecycleTypes, RegisterEffect
    <3>3. /\ body' = [body EXCEPT ![new] = b]
          /\ at' = [at EXCEPT ![new] = IF b = "auditor" THEN "sleep" ELSE "receive"]
          /\ UNCHANGED <<letter, posted, heard, dropped>>
      BY <1>4, <2>3, <3>2 DEF Bootstrap, history
    <3>4. /\ new \in Index \ {0} /\ new \notin Active /\ Active' = Active \cup {new}
          /\ channel' = [channel EXCEPT ![new] = << >>]
          /\ task_id' = [task_id EXCEPT ![new] = generated_pid]
      BY <3>1, <3>2, LifecycleTypes, RegisterEffect DEF RegisterProcess
    <3>5. b = "worker" => new # 1
      <4>1. SYS_MAX_TASKS \in Nat /\ new < SYS_MAX_TASKS
        BY <3>1, <3>2, SchedulerConstants DEF RegisterProcess
      <4> QED BY <2>1, <3>2, <4>1 DEF WorkerInv, AuditorFirst
    <3>6. ~Held(new)' /\ HeldKept(Index \ {new})
      BY <1>0, <3>3, <3>4
    <3> HIDE DEF b, HeldKept, Held
    <3>7. Registering(new, b)
      BY <3>2, <3>3, <3>4, <3>5, <3>6 DEF Registering
    <3> QED BY <2>1, <3>7 DEF b
  <2> QED BY <2>2, <2>3
<1>5. ASSUME NEW pid, cmd_msgsend(pid)
      PROVE  \E i \in Index : Posting(i)
  <2>1. /\ me = 0 /\ UNCHANGED <<at, body, letter, heard, dropped>>
        /\ posted' = posted + 1 /\ IpcSend(pid, posted + 1)
    BY <1>5 DEF cmd_msgsend, Shell, lifecycle
  <2>2. PICK i \in Index :
          /\ IsFirstLive(i, pid) /\ UNCHANGED ProcessTable
          /\ channel' = [channel EXCEPT ![i] =
               Append(@, [sender_id |-> task_id[0], data |-> posted + 1])]
    BY <2>1 DEF IpcSend
  <2>3. posted + 1 \in Payloads
    BY <1>5, LifecycleConstants DEF cmd_msgsend, LifecycleInv, CodeOK
  <2> QED BY <1>1, <2>1, <2>2, <2>3 DEF Posting, IsFirstLive
<1>6. CASE cmd_msgrecv
  <2>1. me = 0 /\ UNCHANGED <<body, letter, posted, dropped>>
    BY <1>6 DEF cmd_msgrecv, Shell
  <2>2. \A i \in Index : Held(i)' = Held(i)
    BY <1>0, <1>6, <2>1 DEF cmd_msgrecv, Goto, ShellPoints
  <2>3. CASE IpcReceiveBlock /\ UNCHANGED heard
    BY <1>1, <2>1, <2>2, <2>3 DEF Still, IpcReceiveBlock
  <2>4. CASE IpcReceiveTake /\ heard' = heard \cup {Head(channel[0])}
    BY <1>1, <2>1, <2>2, <2>4 DEF Showing, IpcReceiveTake
  <2> QED BY <1>6, <2>3, <2>4 DEF cmd_msgrecv
<1>7. CASE TopYield \/ \E pid : cmd_kill(pid)
  <2>1. UNCHANGED <<ProcessTable, channel, at, body, letter, posted, heard, dropped>>
    BY <1>7 DEF TopYield, cmd_kill, Yield, TerminateProcess, lifecycle, history
  <2> QED BY <1>1, <2>1 DEF Still
<1>8. CASE WorkerYield \/ AuditorSleep \/ AuditorYield
  <2>1. /\ UNCHANGED <<ProcessTable, channel, body, posted, heard, dropped>>
        /\ at[me] \in {"sleep", "yield"}
        /\ \E point \in {"receive", "sleep", "yield"} : at' = [at EXCEPT ![me] = point]
        /\ \A i \in Index \ {me} : letter'[i] = letter[i]
    BY <1>0, <1>8 DEF WorkerYield, AuditorSleep, AuditorYield, Yield, Sleep, Goto, Worker, history
  <2>2. HeldKept(Index)
    BY <1>0, <2>1
  <2> QED BY <1>1, <2>1, <2>2 DEF Still
<1>9. PICK w \in Index : w = me
  BY <1>0
<1>10. CASE WorkerReceive
  <2>1. w \in Workers /\ at[w] = "receive" /\ UNCHANGED <<body, posted, heard, dropped>>
    BY <1>0, <1>9, <1>10 DEF WorkerReceive, Worker, Workers, history
  <2>2. CASE IpcReceiveBlock /\ UNCHANGED <<at, letter>>
    BY <1>1, <1>9, <2>1, <2>2 DEF Still, IpcReceiveBlock
  <2>3. CASE IpcReceiveTake /\ letter' = [letter EXCEPT ![me] = Head(channel[me])] /\ Goto("echo")
    <3>1. HeldKept(Index \ {w}) /\ ~Held(w) /\ Held(w)' /\ letter'[w] = Head(channel[w])
      BY <1>0, <1>9, <2>1, <2>3 DEF Goto
    <3>2. Taking(w)
      BY <1>1, <1>9, <2>1, <2>3, <3>1 DEF Taking, IpcReceiveTake
    <3> QED BY <3>2
  <2> QED BY <1>10, <2>2, <2>3 DEF WorkerReceive
<1>11. CASE WorkerEcho
  <2>1. /\ w \in Workers /\ UNCHANGED <<body, letter, posted, heard>>
        /\ Held(w) /\ ~Held(w)' /\ HeldKept(Index \ {w})
    BY <1>0, <1>9, <1>11 DEF WorkerEcho, Worker, Workers, Goto
  <2>2. CASE IpcSend(EchoTarget, letter[me].data) /\ UNCHANGED dropped
    <3>1. PICK i \in Index :
            /\ IsFirstLive(i, letter[w].sender_id) /\ UNCHANGED ProcessTable
            /\ channel' = [channel EXCEPT ![i] =
                 Append(@, [sender_id |-> task_id[w], data |-> letter[w].data])]
      BY <1>9, <2>2 DEF IpcSend, EchoTarget
    <3>2. Echoing(w, i)
      BY <1>1, <1>9, <2>1, <2>2, <3>1 DEF Echoing, IsFirstLive
    <3> QED BY <3>2
  <2>3. CASE dropped' = dropped \cup {letter[me].data} /\ UNCHANGED vars
    <3>1. Refusing(w)
      BY <1>2, <1>9, <2>1, <2>3 DEF Refusing
    <3> QED BY <3>1
  <2> QED BY <1>11, <2>2, <2>3 DEF WorkerEcho
<1>12. CASE UNCHANGED lvars
  BY <1>2, <1>12 DEF lvars, lifecycle, history, Still
<1>13. CASE Interrupt
  BY <1>1, <1>2, <1>13 DEF Interrupt, TimerInterrupt, Halted, lifecycle, history, Still
<1> QED BY <1>3, <1>4, <1>5, <1>6, <1>7, <1>8, <1>10, <1>11, <1>12, <1>13
        DEF LifecycleNext, Command, Machine

\* The auditor is the first process that lcreset registers.
LEMMA AuditorFirstStep ==
  ASSUME SchedulerInv, LifecycleInv, AuditorFirst, [LifecycleNext]_lvars
  PROVE  AuditorFirst'
<1> USE DEF AuditorFirst
<1>0. active_process_count \in Nat \ {0} /\ SYS_MAX_TASKS \in Nat
  <2>1. active_process_count \in 1 .. SYS_MAX_TASKS
    BY DEF SchedulerInv, TypeOK
  <2> QED BY <2>1, SchedulerConstants
<1>1. CASE Reset
  <2>1. <<"auditor">> \in Seq({"auditor", "worker"})
    OBVIOUS
  <2>2. [n \in 1 .. WORKERS |-> "worker"] \in Seq({"auditor", "worker"})
    BY LifecycleConstants
  <2>3. to_come' = <<"auditor">> \o [n \in 1 .. WORKERS |-> "worker"]
    BY <1>1 DEF Reset
  <2>4. to_come' \in Seq({"auditor", "worker"}) /\ to_come'[1] = "auditor"
    BY <2>1, <2>2, <2>3, ConcatProperties
  <2> QED BY <2>4
<1>2. CASE Bootstrap
  <2>1. CASE active_process_count = SYS_MAX_TASKS /\ UNCHANGED active_process_count
    BY <2>1
  <2>2. CASE \E p, c : RegisterProcess(p, c)
    <3>1. active_process_count' = active_process_count + 1
      BY <2>2 DEF RegisterProcess
    <3> QED BY <1>0, <3>1
  <2> QED BY <1>2, <2>1, <2>2 DEF Bootstrap, vars
<1>3. CASE UNCHANGED <<active_process_count, to_come>>
  BY <1>3
<1>4. \/ Reset \/ Bootstrap
      \/ UNCHANGED <<active_process_count, to_come>>
  <2>1. UNCHANGED ProcessTable \/ UNCHANGED vars => UNCHANGED active_process_count
    BY DEF ProcessTable, vars
  <2> QED BY <2>1
          DEF LifecycleNext, Command, Machine, BootstrapDone, cmd_msgsend, cmd_msgrecv,
              cmd_kill, TopStart, TopYield, TopQuit, WorkerReceive, WorkerEcho,
              WorkerYield, AuditorSleep, AuditorYield, Interrupt, IpcSend,
              IpcReceiveBlock, IpcReceiveTake, TerminateProcess, Yield, Sleep,
              TimerInterrupt, Halted, lifecycle, lvars
<1> QED BY <1>1, <1>2, <1>3, <1>4

\* Who is a worker after a step.
LEMMA WorkersAfter ==
  ASSUME SchedulerInv, LifecycleInv
  PROVE  /\ TableKept => Active' = Active /\ Workers' = Workers
         /\ \A new, b : Registering(new, b) =>
              /\ Workers' = Workers \cup {i \in {new} : b = "worker"}
              /\ \A i \in Active : task_id'[i] = task_id[i]
              /\ b = "worker" =>
                   /\ task_id'[new] = generated_pid
                   /\ generated_pid # MASTER_PID
                   /\ \A j \in Active : task_id[j] # generated_pid
<1>0. /\ body \in [Index -> {"shell", "none", "auditor", "worker"}]
      /\ task_id \in [Index -> Pids \cup {0}]
      /\ Active \subseteq Index /\ Index \subseteq Nat
  BY LifecycleTypes DEF LifecycleInv, CodeOK, TypeOK
<1>1. TableKept => Active' = Active /\ Workers' = Workers
  BY DEF TableKept, Active, Workers
<1>2. ASSUME NEW new, NEW b, Registering(new, b)
      PROVE  /\ Workers' = Workers \cup {i \in {new} : b = "worker"}
             /\ \A i \in Active : task_id'[i] = task_id[i]
             /\ b = "worker" =>
                  /\ task_id'[new] = generated_pid
                  /\ generated_pid # MASTER_PID
                  /\ \A j \in Active : task_id[j] # generated_pid
  <2>1. /\ new \in Index \ {0} /\ new \notin Active
        /\ Active' = Active \cup {new}
        /\ b = "worker" => new # 1
        /\ task_id' = [task_id EXCEPT ![new] = generated_pid]
        /\ body' = [body EXCEPT ![new] = b]
    BY <1>2 DEF Registering
  <2>2. /\ generated_pid = MASTER_PID + new - 1
        /\ task_id[0] = MASTER_PID
        /\ \A j \in Active \ {0} : task_id[j] < generated_pid
    BY <1>2, LifecycleTypes DEF Registering, generated_pid, TypeOK, SchedulerInv, PidInv, PidsDrawnInOrder
  <2>3. b = "worker" => generated_pid > MASTER_PID /\ generated_pid \in Nat
    BY <1>0, <2>1, <2>2 DEF MASTER_PID
  <2>4. b = "worker" => \A j \in Active : task_id[j] # generated_pid
    <3>1. \A j \in Active : task_id[j] \in Pids
      BY DEF SchedulerInv, TypeOK
    <3>2. Pids \subseteq Nat
      BY SchedulerConstants DEF Pids, MASTER_PID, MAX_PID
    <3> QED BY <2>2, <2>3, <3>1, <3>2 DEF MASTER_PID
  <2>5. Workers' = Workers \cup {i \in {new} : b = "worker"}
    BY <1>0, <2>1 DEF Workers
  <2> QED BY <1>0, <2>1, <2>3, <2>4, <2>5 DEF MASTER_PID
<1> QED BY <1>1, <1>2

\* No worker has the master's pid, and only workers hold letters.
LEMMA WorkerStep ==
  ASSUME SchedulerInv, LifecycleInv, WorkerInv, [LifecycleNext]_lvars
  PROVE  WorkerInv'
<1>0. AuditorFirst' /\ Index' = Index /\ Workers \subseteq Active
  BY AuditorFirstStep DEF WorkerInv, Index, Workers
<1>1. CASE TableKept /\ \A i \in Index : Held(i)' => i \in Workers
  <2>1. task_id' = task_id /\ Workers' = Workers
    BY <1>1, WorkersAfter DEF TableKept
  <2> QED BY <1>0, <1>1, <2>1 DEF WorkerInv
<1>2. ASSUME NEW new, NEW b, Registering(new, b)
      PROVE  WorkerInv'
  <2>1. \A i \in Index : Held(i)' => i \in Workers
    BY <1>2 DEF Registering, HeldKept, WorkerInv
  <2> QED BY <1>0, <1>2, <2>1, WorkersAfter DEF WorkerInv
<1>3. \/ TableKept /\ (\A i \in Index : Held(i)' => i \in Workers)
      \/ \E new, b : Registering(new, b)
  BY Moves
     DEF Still, Posting, Showing, Taking, Echoing, Refusing, HeldKept, WorkerInv
<1> QED BY <1>1, <1>2, <1>3

\* Sequences by position.
LEMMA ByPosition ==
  ASSUME NEW S, NEW q \in Seq(S), NEW e \in S
  PROVE  /\ Len(q) \in Nat /\ DOMAIN q = 1 .. Len(q)
         /\ \A k \in DOMAIN q : q[k] \in S
         /\ DOMAIN Append(q, e) = 1 .. Len(q) + 1
         /\ \A k \in DOMAIN q : Append(q, e)[k] = q[k]
         /\ Append(q, e)[Len(q) + 1] = e
         /\ q # << >> =>
              /\ 1 \in DOMAIN q /\ Head(q) = q[1]
              /\ DOMAIN Tail(q) = 1 .. Len(q) - 1
              /\ \A k \in 1 .. Len(q) - 1 : Tail(q)[k] = q[k + 1] /\ k + 1 \in DOMAIN q
<1>1. Len(q) \in Nat /\ DOMAIN q = 1 .. Len(q) /\ \A k \in DOMAIN q : q[k] \in S
  BY LenProperties, ElementOfSeq
<1>2. /\ DOMAIN Append(q, e) = 1 .. Len(q) + 1
      /\ \A k \in DOMAIN q : Append(q, e)[k] = q[k]
      /\ Append(q, e)[Len(q) + 1] = e
  BY <1>1, AppendProperties
<1>3. ASSUME q # << >>
      PROVE  /\ 1 \in DOMAIN q /\ Head(q) = q[1]
             /\ DOMAIN Tail(q) = 1 .. Len(q) - 1
             /\ \A k \in 1 .. Len(q) - 1 : Tail(q)[k] = q[k + 1] /\ k + 1 \in DOMAIN q
  BY <1>1, <1>3, HeadTailProperties
<1> QED BY <1>1, <1>2, <1>3

\* What is in the channels after a message was appended to one of them, or
\* the first message of one was taken.
LEMMA AppendedTo ==
  ASSUME channel \in [Index -> Seq(Messages)], NEW i \in Index, NEW m \in Messages,
         channel' = [channel EXCEPT ![i] = Append(@, m)]
  PROVE  /\ Len(channel[i]) \in Nat /\ DOMAIN channel[i] = 1 .. Len(channel[i])
         /\ DOMAIN channel'[i] = 1 .. Len(channel[i]) + 1
         /\ channel'[i][Len(channel[i]) + 1] = m
         /\ \A k \in DOMAIN channel[i] : channel'[i][k] = channel[i][k]
         /\ \A j \in Index \ {i} : channel'[j] = channel[j]
         /\ \A j \in Index : \A k \in DOMAIN channel'[j] :
              \/ j = i /\ k = Len(channel[i]) + 1
              \/ k \in DOMAIN channel[j] /\ channel'[j][k] = channel[j][k]
<1>1. channel[i] \in Seq(Messages)
  OBVIOUS
<1>2. channel'[i] = Append(channel[i], m) /\ \A j \in Index \ {i} : channel'[j] = channel[j]
  OBVIOUS
<1> DEFINE n == Len(channel[i])
<1>3. /\ n \in Nat /\ DOMAIN channel[i] = 1 .. n
      /\ DOMAIN channel'[i] = 1 .. n + 1
      /\ channel'[i][n + 1] = m
      /\ \A k \in DOMAIN channel[i] : channel'[i][k] = channel[i][k]
  BY <1>1, <1>2, ByPosition
<1> HIDE DEF n
<1>4. \A k \in 1 .. n + 1 : k = n + 1 \/ k \in 1 .. n
  BY <1>3
<1>5. \A j \in Index : \A k \in DOMAIN channel'[j] :
        \/ j = i /\ k = n + 1
        \/ k \in DOMAIN channel[j] /\ channel'[j][k] = channel[j][k]
  BY <1>2, <1>3, <1>4
<1> QED BY <1>2, <1>3, <1>5 DEF n

LEMMA TakenFrom ==
  ASSUME channel \in [Index -> Seq(Messages)], NEW i \in Index, channel[i] # << >>,
         channel' = [channel EXCEPT ![i] = Tail(@)]
  PROVE  /\ 1 \in DOMAIN channel[i] /\ Head(channel[i]) = channel[i][1]
         /\ channel[i][1] \in Messages
         /\ \A j \in Index \ {i} : channel'[j] = channel[j]
         /\ \A k \in DOMAIN channel'[i] :
              /\ k \in Nat /\ k >= 1
              /\ k + 1 \in DOMAIN channel[i]
              /\ channel'[i][k] = channel[i][k + 1]
         /\ \A k \in DOMAIN channel[i] :
              \/ k = 1
              \/ k - 1 \in DOMAIN channel'[i] /\ channel'[i][k - 1] = channel[i][k]
<1>1. channel[i] \in Seq(Messages)
  OBVIOUS
<1>2. channel'[i] = Tail(channel[i]) /\ \A j \in Index \ {i} : channel'[j] = channel[j]
  OBVIOUS
<1> DEFINE n == Len(channel[i])
<1>3. PICK e \in Messages : TRUE
  BY <1>1, ElementOfSeq, HeadTailProperties
<1>4. /\ n \in Nat /\ DOMAIN channel[i] = 1 .. n
      /\ 1 \in DOMAIN channel[i] /\ Head(channel[i]) = channel[i][1]
      /\ \A k \in DOMAIN channel[i] : channel[i][k] \in Messages
      /\ DOMAIN channel'[i] = 1 .. n - 1
      /\ \A k \in 1 .. n - 1 : channel'[i][k] = channel[i][k + 1]
  BY <1>1, <1>2, <1>3, ByPosition
<1> HIDE DEF n
<1>5. \A k \in 1 .. n - 1 : k \in Nat /\ k >= 1 /\ k + 1 \in 1 .. n
  BY <1>4
<1>6. \A k \in 1 .. n : k = 1 \/ (k - 1 \in 1 .. n - 1 /\ (k - 1) + 1 = k)
  BY <1>4
<1> QED BY <1>2, <1>4, <1>5, <1>6

LEMMA MailTypes ==
  ASSUME SchedulerInv, LifecycleInv
  PROVE  /\ channel \in [Index -> Seq(Messages)] /\ 0 \in Index
         /\ Active \subseteq Index /\ posted \in Nat /\ Index' = Index
         /\ Workers \subseteq Active
         /\ task_id[0] = MASTER_PID /\ 0 \in Active
         /\ \A i \in Active : task_id[i] \in Pids
         /\ Payloads \subseteq Nat \ {0}
<1>1. Payloads \subseteq Nat \ {0}
  BY LifecycleConstants
<1>2. 0 \in Active /\ 0 \in Index /\ Active \subseteq Index
  BY LifecycleTypes, MasterActive
<1>3. /\ channel \in [Index -> Seq(Messages)]
      /\ \A i \in Active : task_id[i] \in Pids
  BY DEF SchedulerInv, TypeOK
<1>4. /\ posted \in Nat /\ Index' = Index /\ Workers \subseteq Active
      /\ task_id[0] = MASTER_PID
  BY DEF LifecycleInv, CodeOK, Index, Workers, SchedulerInv, PidInv, PidsDrawnInOrder
<1> QED BY <1>1, <1>2, <1>3, <1>4

\* Every message in a channel, held or shown was sent by a process in the
\* table, and whatever a worker has comes from the shell.
LEMMA MailStep ==
  ASSUME SchedulerInv, LifecycleInv, WorkerInv, MailInv, [LifecycleNext]_lvars
  PROVE  MailInv'
<1>0. /\ channel \in [Index -> Seq(Messages)] /\ 0 \in Index
      /\ Active \subseteq Index /\ posted \in Nat /\ Index' = Index
      /\ Workers \subseteq Active
      /\ task_id[0] = MASTER_PID /\ 0 \in Active
      /\ \A i \in Active : task_id[i] \in Pids
      /\ Payloads \subseteq Nat \ {0}
  BY MailTypes
<1>1. ASSUME posted' \in {posted, posted + 1}, Active \subseteq Active',
             \A i \in Active : task_id'[i] = task_id[i]
      PROVE  KnownMail \subseteq KnownMail'
  <2>1. ASSUME NEW m \in Messages, m.data <= posted
        PROVE  m.data <= posted'
    <3>1. m.data \in Nat
      BY <1>0 DEF Messages
    <3> QED BY <1>0, <1>1, <2>1, <3>1
  <2>2. Messages' = Messages
    BY DEF Messages, Pids
  <2> QED BY <1>1, <2>1, <2>2 DEF KnownMail
<1>2. CASE Still
  <2>1. /\ UNCHANGED <<channel, posted, heard, dropped, task_id>>
        /\ Active' = Active /\ Workers' = Workers /\ HeldKept(Index)
    BY <1>2, WorkersAfter DEF Still, TableKept
  <2>2. KnownMail \subseteq KnownMail'
    BY <1>1, <2>1
  <2> QED BY <1>0, <2>1, <2>2 DEF MailInv, HeldKept
<1>3. ASSUME NEW new \in Index, NEW b, Registering(new, b)
      PROVE  MailInv'
  <2>1. /\ UNCHANGED <<posted, heard, dropped>>
        /\ Active' = Active \cup {new}
        /\ Workers' \subseteq Workers \cup {new}
        /\ \A i \in Active : task_id'[i] = task_id[i]
        /\ ~Held(new)' /\ HeldKept(Index \ {new})
        /\ channel' = [channel EXCEPT ![new] = << >>]
    BY <1>3, WorkersAfter DEF Registering
  <2>2. KnownMail \subseteq KnownMail'
    BY <1>1, <2>1
  <2>3. DOMAIN channel'[new] = {} /\ \A i \in Index \ {new} : channel'[i] = channel[i]
    BY <1>0, <2>1
  <2>4. channel'[new] = << >>
    BY <1>0, <2>1
  <2>5. \A i \in Index : \A k \in DOMAIN channel'[i] : channel'[i][k] \in KnownMail'
    BY <2>2, <2>3 DEF MailInv
  <2>6. \A i \in Index : Held(i)' => letter'[i] \in KnownMail'
    BY <2>1, <2>2 DEF MailInv, HeldKept
  <2>7. heard' \subseteq KnownMail' /\ dropped' \subseteq 1 .. posted'
    BY <2>1, <2>2 DEF MailInv
  <2>8. \A i \in Index' \ Active' : channel'[i] = << >>
    BY <1>0, <2>1, <2>3 DEF MailInv
  <2>9. \A i \in Workers' : \A k \in DOMAIN channel'[i] : channel'[i][k].sender_id = MASTER_PID
    <3> SUFFICES ASSUME NEW i \in Workers', NEW k \in DOMAIN channel'[i]
                 PROVE  channel'[i][k].sender_id = MASTER_PID
      OBVIOUS
    <3>1. i \in Index \ {new} /\ i \in Workers /\ channel'[i] = channel[i]
      BY <1>0, <2>1, <2>3
    <3> QED BY <3>1 DEF MailInv
  <2>10. \A i \in Workers' : Held(i)' => letter'[i].sender_id = MASTER_PID
    BY <1>0, <2>1 DEF MailInv, HeldKept
  <2> QED BY <1>0, <2>5, <2>6, <2>7, <2>8, <2>9, <2>10 DEF MailInv
<1>4. ASSUME NEW i \in Index, Posting(i)
      PROVE  MailInv'
  <2> DEFINE e == [sender_id |-> task_id[0], data |-> posted + 1]
  <2>1. /\ UNCHANGED <<heard, dropped, task_id>>
        /\ posted' = posted + 1
        /\ Active' = Active /\ Workers' = Workers /\ HeldKept(Index) /\ i \in Active
        /\ channel' = [channel EXCEPT ![i] = Append(@, e)]
    BY <1>4, WorkersAfter DEF Posting, TableKept
  <2>2. KnownMail \subseteq KnownMail'
    BY <1>1, <2>1
  <2>3. e \in Messages /\ e \in KnownMail' /\ e.sender_id = MASTER_PID
    BY <1>0, <1>4, <2>1 DEF Posting, Messages, KnownMail, Pids
  <2> HIDE DEF e
  <2>4. /\ channel'[i][Len(channel[i]) + 1] = e
        /\ \A j \in Index \ {i} : channel'[j] = channel[j]
        /\ \A j \in Index : \A k \in DOMAIN channel'[j] :
             \/ j = i /\ k = Len(channel[i]) + 1
             \/ k \in DOMAIN channel[j] /\ channel'[j][k] = channel[j][k]
    BY <1>0, <2>1, <2>3, AppendedTo
  <2>5. dropped' \subseteq 1 .. posted'
    BY <1>0, <2>1 DEF MailInv
  <2>6. \A j \in Index : \A k \in DOMAIN channel'[j] : channel'[j][k] \in KnownMail'
    BY <2>2, <2>3, <2>4 DEF MailInv
  <2>7. \A j \in Index : Held(j)' => letter'[j] \in KnownMail'
    BY <2>1, <2>2 DEF MailInv, HeldKept
  <2>8. heard' \subseteq KnownMail' /\ dropped' \subseteq 1 .. posted'
    BY <2>1, <2>2, <2>5 DEF MailInv
  <2>9. \A j \in Index \ Active' : channel'[j] = << >>
    BY <2>1, <2>4 DEF MailInv
  <2>10. \A j \in Workers' : \A k \in DOMAIN channel'[j] : channel'[j][k].sender_id = MASTER_PID
    BY <1>0, <2>1, <2>3, <2>4 DEF MailInv
  <2>11. \A j \in Workers' : Held(j)' => letter'[j].sender_id = MASTER_PID
    BY <1>0, <2>1 DEF MailInv, HeldKept
  <2> QED BY <1>0, <2>6, <2>7, <2>8, <2>9, <2>10, <2>11 DEF MailInv
<1>5. CASE Showing
  <2>1. /\ UNCHANGED <<posted, dropped, task_id>>
        /\ Active' = Active /\ Workers' = Workers /\ HeldKept(Index)
        /\ channel[0] # << >> /\ heard' = heard \cup {Head(channel[0])}
        /\ channel' = [channel EXCEPT ![0] = Tail(@)]
    BY <1>5, WorkersAfter DEF Showing, TableKept
  <2>2. KnownMail \subseteq KnownMail'
    BY <1>1, <2>1
  <2>3. /\ 1 \in DOMAIN channel[0] /\ Head(channel[0]) = channel[0][1]
        /\ \A j \in Index \ {0} : channel'[j] = channel[j]
        /\ \A k \in DOMAIN channel'[0] :
             k + 1 \in DOMAIN channel[0] /\ channel'[0][k] = channel[0][k + 1]
    BY <1>0, <2>1, TakenFrom
  <2>4. 0 \notin Workers
    BY DEF LifecycleInv, CodeOK, Workers
  <2>5. \A j \in Index : \A k \in DOMAIN channel'[j] : channel'[j][k] \in KnownMail'
    BY <1>0, <2>2, <2>3 DEF MailInv
  <2>6. \A j \in Index : Held(j)' => letter'[j] \in KnownMail'
    BY <2>1, <2>2 DEF MailInv, HeldKept
  <2>7. heard' \subseteq KnownMail' /\ dropped' \subseteq 1 .. posted'
    BY <1>0, <2>1, <2>2, <2>3 DEF MailInv
  <2>8. \A j \in Index \ Active' : channel'[j] = << >>
    BY <1>0, <2>1, <2>3 DEF MailInv
  <2>9. \A j \in Workers' : \A k \in DOMAIN channel'[j] : channel'[j][k].sender_id = MASTER_PID
    BY <1>0, <2>1, <2>3, <2>4 DEF MailInv
  <2>10. \A j \in Workers' : Held(j)' => letter'[j].sender_id = MASTER_PID
    BY <1>0, <2>1 DEF MailInv, HeldKept
  <2> QED BY <1>0, <2>5, <2>6, <2>7, <2>8, <2>9, <2>10 DEF MailInv
<1>6. ASSUME NEW w \in Index, Taking(w)
      PROVE  MailInv'
  <2>1. /\ UNCHANGED <<posted, heard, dropped, task_id>>
        /\ Active' = Active /\ Workers' = Workers /\ HeldKept(Index \ {w})
        /\ w \in Workers /\ Held(w)' /\ letter'[w] = Head(channel[w])
        /\ channel[w] # << >>
        /\ channel' = [channel EXCEPT ![w] = Tail(@)]
    BY <1>6, WorkersAfter DEF Taking, TableKept
  <2>2. KnownMail \subseteq KnownMail'
    BY <1>1, <2>1
  <2>3. /\ 1 \in DOMAIN channel[w] /\ Head(channel[w]) = channel[w][1]
        /\ \A j \in Index \ {w} : channel'[j] = channel[j]
        /\ \A k \in DOMAIN channel'[w] :
             k + 1 \in DOMAIN channel[w] /\ channel'[w][k] = channel[w][k + 1]
    BY <1>0, <2>1, TakenFrom
  <2>4. \A j \in Index : \A k \in DOMAIN channel'[j] : channel'[j][k] \in KnownMail'
    BY <2>2, <2>3 DEF MailInv
  <2>5. \A j \in Index : Held(j)' => letter'[j] \in KnownMail'
    BY <2>1, <2>2, <2>3 DEF MailInv, HeldKept
  <2>6. heard' \subseteq KnownMail' /\ dropped' \subseteq 1 .. posted'
    BY <2>1, <2>2 DEF MailInv
  <2>7. \A j \in Index \ Active' : channel'[j] = << >>
    BY <1>0, <2>1, <2>3 DEF MailInv
  <2>8. \A j \in Workers' : \A k \in DOMAIN channel'[j] : channel'[j][k].sender_id = MASTER_PID
    BY <1>0, <2>1, <2>3 DEF MailInv
  <2>9. \A j \in Workers' : Held(j)' => letter'[j].sender_id = MASTER_PID
    BY <1>0, <2>1, <2>3 DEF MailInv, HeldKept
  <2> QED BY <1>0, <2>4, <2>5, <2>6, <2>7, <2>8, <2>9 DEF MailInv
<1>7. ASSUME NEW w \in Index, NEW i \in Index, Echoing(w, i)
      PROVE  MailInv'
  <2> DEFINE e == [sender_id |-> task_id[w], data |-> letter[w].data]
  <2>1. /\ UNCHANGED <<posted, heard, dropped, task_id>>
        /\ Active' = Active /\ Workers' = Workers /\ HeldKept(Index \ {w})
        /\ w \in Workers /\ Held(w) /\ ~Held(w)'
        /\ i \in Active /\ task_id[i] = letter[w].sender_id
        /\ channel' = [channel EXCEPT ![i] = Append(@, e)]
    BY <1>7, WorkersAfter DEF Echoing, TableKept
  <2>2. KnownMail \subseteq KnownMail'
    BY <1>1, <2>1
  <2>3. e \in Messages /\ e \in KnownMail
    BY <1>0, <2>1 DEF MailInv, Messages, KnownMail
  <2>4. i \notin Workers
    BY <1>0, <2>1 DEF MailInv, WorkerInv
  <2> HIDE DEF e
  <2>5. /\ channel'[i][Len(channel[i]) + 1] = e
        /\ \A j \in Index \ {i} : channel'[j] = channel[j]
        /\ \A j \in Index : \A k \in DOMAIN channel'[j] :
             \/ j = i /\ k = Len(channel[i]) + 1
             \/ k \in DOMAIN channel[j] /\ channel'[j][k] = channel[j][k]
    BY <1>0, <2>1, <2>3, AppendedTo
  <2>6. \A j \in Index : \A k \in DOMAIN channel'[j] : channel'[j][k] \in KnownMail'
    BY <2>2, <2>3, <2>5 DEF MailInv
  <2>7. \A j \in Index : Held(j)' => letter'[j] \in KnownMail'
    BY <2>1, <2>2 DEF MailInv, HeldKept
  <2>8. heard' \subseteq KnownMail' /\ dropped' \subseteq 1 .. posted'
    BY <2>1, <2>2 DEF MailInv
  <2>9. \A j \in Index \ Active' : channel'[j] = << >>
    BY <2>1, <2>5 DEF MailInv
  <2>10. \A j \in Workers' : \A k \in DOMAIN channel'[j] : channel'[j][k].sender_id = MASTER_PID
    BY <1>0, <2>1, <2>4, <2>5 DEF MailInv
  <2>11. \A j \in Workers' : Held(j)' => letter'[j].sender_id = MASTER_PID
    BY <1>0, <2>1 DEF MailInv, HeldKept
  <2> QED BY <1>0, <2>6, <2>7, <2>8, <2>9, <2>10, <2>11 DEF MailInv
<1>8. ASSUME NEW w \in Index, Refusing(w)
      PROVE  MailInv'
  <2>1. /\ UNCHANGED <<channel, posted, heard, task_id>>
        /\ Active' = Active /\ Workers' = Workers /\ HeldKept(Index \ {w})
        /\ w \in Workers /\ Held(w) /\ ~Held(w)'
        /\ dropped' = dropped \cup {letter[w].data}
    BY <1>8, WorkersAfter DEF Refusing, TableKept
  <2>2. KnownMail \subseteq KnownMail'
    BY <1>1, <2>1
  <2>3. letter[w].data \in 1 .. posted
    <3>1. letter[w].data <= posted /\ letter[w].data \in Nat \ {0}
      BY <1>0, <2>1 DEF MailInv, KnownMail, Messages
    <3> QED BY <1>0, <3>1
  <2> QED BY <1>0, <2>1, <2>2, <2>3 DEF MailInv, HeldKept
<1> QED BY <1>2, <1>3, <1>4, <1>5, <1>6, <1>7, <1>8, Moves

-----------------------------------------------------------------------------
(***************************************************************************)
(* The order of the echoes.  EchoInOrder by pairs of stages; it is kept    *)
(* because every letter enters at the end with the highest number and each *)
(* move takes the first of a stage to the end of the next one.             *)
(***************************************************************************)
ShownFrom(i) == {m \in heard : m.sender_id = task_id[i]}
WorkerOrder(i) ==
  /\ \A j, k \in Unread(i) : j < k => channel[0][j].data < channel[0][k].data
  /\ \A j, k \in DOMAIN channel[i] : j < k => channel[i][j].data < channel[i][k].data
  /\ \A m \in ShownFrom(i), k \in Unread(i) : m.data < channel[0][k].data
  /\ Held(i) => \A m \in ShownFrom(i) : m.data < letter[i].data
  /\ \A m \in ShownFrom(i), k \in DOMAIN channel[i] : m.data < channel[i][k].data
  /\ Held(i) => \A j \in Unread(i) : channel[0][j].data < letter[i].data
  /\ \A j \in Unread(i), k \in DOMAIN channel[i] : channel[0][j].data < channel[i][k].data
  /\ Held(i) => \A k \in DOMAIN channel[i] : letter[i].data < channel[i][k].data
OrderInv == \A i \in Workers : WorkerOrder(i)

\* A step that adds nothing to what passes through worker i.
LEMMA OrderCarried ==
  ASSUME NEW i, WorkerOrder(i), task_id'[i] = task_id[i],
         \A k \in DOMAIN channel'[0] :
           channel'[0][k].sender_id = task_id[i]
             => k \in DOMAIN channel[0] /\ channel'[0][k] = channel[0][k],
         ShownFrom(i)' = ShownFrom(i),
         Held(i)' => Held(i) /\ letter'[i] = letter[i],
         \A k \in DOMAIN channel'[i] : k \in DOMAIN channel[i] /\ channel'[i][k] = channel[i][k]
  PROVE  WorkerOrder(i)'
<1>1. Unread(i)' \subseteq Unread(i) /\ \A k \in Unread(i)' : channel'[0][k] = channel[0][k]
  BY DEF Unread
<1> QED BY <1>1 DEF WorkerOrder

\* msgsend puts a letter with the next number behind all others.
LEMMA OrderPosted ==
  ASSUME SchedulerInv, LifecycleInv, WorkerInv, MailInv,
         NEW i \in Workers, Posting(i), WorkerOrder(i)
  PROVE  WorkerOrder(i)'
<1> DEFINE e == [sender_id |-> task_id[0], data |-> posted + 1]
           n == Len(channel[i])
<1>0. /\ channel \in [Index -> Seq(Messages)] /\ posted \in Nat
      /\ 0 \in Index /\ i \in Index /\ i # 0 /\ task_id[0] \in Pids
      /\ Payloads \subseteq Nat \ {0}
  BY MailTypes DEF LifecycleInv, CodeOK, Workers
<1>1. /\ UNCHANGED <<heard, task_id>> /\ HeldKept(Index)
      /\ channel' = [channel EXCEPT ![i] = Append(@, e)]
      /\ e \in Messages
  BY <1>0 DEF Posting, TableKept, Messages
<1>2. e.data = posted + 1
  OBVIOUS
<1>3. ASSUME NEW m \in KnownMail
      PROVE  m.data < posted + 1
  <2>1. m.data \in Nat /\ m.data <= posted
    BY <1>0 DEF KnownMail, Messages
  <2> QED BY <1>0, <2>1
<1> HIDE DEF e
<1>4. /\ n \in Nat /\ DOMAIN channel[i] = 1 .. n /\ DOMAIN channel'[i] = 1 .. n + 1
      /\ channel'[i][n + 1] = e
      /\ \A k \in DOMAIN channel[i] : channel'[i][k] = channel[i][k]
      /\ channel'[0] = channel[0]
  BY <1>0, <1>1, AppendedTo
<1> HIDE DEF n
<1>5. \A k \in DOMAIN channel'[i] : k = n + 1 \/ k \in DOMAIN channel[i]
  BY <1>4
<1>6. Unread(i)' = Unread(i) /\ ShownFrom(i)' = ShownFrom(i)
  BY <1>1, <1>4 DEF Unread, ShownFrom
<1>7. Held(i)' = Held(i) /\ (Held(i) => letter'[i] = letter[i])
  BY <1>0, <1>1 DEF HeldKept
<1>8. /\ \A k \in DOMAIN channel[i] : channel[i][k].data < posted + 1
      /\ \A k \in Unread(i) : channel[0][k].data < posted + 1
      /\ \A m \in ShownFrom(i) : m.data < posted + 1
      /\ Held(i) => letter[i].data < posted + 1
  BY <1>0, <1>3 DEF MailInv, Unread, ShownFrom
<1>9. \A j, k \in DOMAIN channel'[i] : j < k => channel'[i][j].data < channel'[i][k].data
  <2>1. ASSUME NEW j \in DOMAIN channel'[i], NEW k \in DOMAIN channel'[i], j < k
        PROVE  j \in DOMAIN channel[i]
    BY <1>4, <2>1
  <2> QED BY <1>2, <1>4, <1>5, <1>8, <2>1 DEF WorkerOrder
<1> QED BY <1>2, <1>4, <1>5, <1>6, <1>7, <1>8, <1>9 DEF WorkerOrder

\* msgrecv takes the first unread echo.
LEMMA OrderShown ==
  ASSUME SchedulerInv, LifecycleInv, NEW i \in Workers, Showing, WorkerOrder(i)
  PROVE  WorkerOrder(i)'
<1>0. /\ channel \in [Index -> Seq(Messages)]
      /\ 0 \in Index /\ i \in Index /\ i # 0
  BY MailTypes DEF LifecycleInv, CodeOK, Workers
<1>1. /\ UNCHANGED task_id /\ HeldKept(Index)
      /\ channel[0] # << >>
      /\ heard' = heard \cup {Head(channel[0])}
      /\ channel' = [channel EXCEPT ![0] = Tail(@)]
  BY DEF Showing, TableKept
<1>2. /\ 1 \in DOMAIN channel[0] /\ Head(channel[0]) = channel[0][1]
      /\ channel'[i] = channel[i]
      /\ \A k \in DOMAIN channel'[0] :
           /\ k \in Nat /\ k >= 1 /\ k + 1 \in DOMAIN channel[0]
           /\ channel'[0][k] = channel[0][k + 1]
  BY <1>0, <1>1, TakenFrom
<1>3. Held(i)' = Held(i) /\ (Held(i) => letter'[i] = letter[i])
  BY <1>0, <1>1 DEF HeldKept
<1>4. ASSUME NEW k \in Unread(i)'
      PROVE  /\ k \in Nat /\ 1 < k + 1 /\ k + 1 \in Unread(i)
             /\ channel'[0][k] = channel[0][k + 1]
  BY <1>1, <1>2 DEF Unread
<1>5. ASSUME NEW m \in ShownFrom(i)'
      PROVE  m \in ShownFrom(i) \/ (1 \in Unread(i) /\ m = channel[0][1])
  BY <1>1, <1>2 DEF Unread, ShownFrom
<1>6. \A j, k \in Unread(i)' : j < k => channel'[0][j].data < channel'[0][k].data
  <2>1. \A j, k \in Unread(i)' : j < k => j + 1 < k + 1
    BY <1>4
  <2> QED BY <1>4, <2>1 DEF WorkerOrder
<1>7. \A m \in ShownFrom(i)', k \in Unread(i)' : m.data < channel'[0][k].data
  BY <1>4, <1>5 DEF WorkerOrder
<1> QED BY <1>2, <1>3, <1>4, <1>5, <1>6, <1>7 DEF WorkerOrder

\* The worker takes the first letter that waits for it.
LEMMA OrderTaken ==
  ASSUME SchedulerInv, LifecycleInv, NEW i \in Workers, Taking(i), WorkerOrder(i)
  PROVE  WorkerOrder(i)'
<1>0. /\ channel \in [Index -> Seq(Messages)]
      /\ 0 \in Index /\ i \in Index /\ i # 0
  BY MailTypes DEF LifecycleInv, CodeOK, Workers
<1>1. /\ UNCHANGED <<heard, task_id>> /\ Held(i)' /\ letter'[i] = Head(channel[i])
      /\ channel[i] # << >>
      /\ channel' = [channel EXCEPT ![i] = Tail(@)]
  BY DEF Taking, TableKept
<1>2. /\ 1 \in DOMAIN channel[i] /\ letter'[i] = channel[i][1]
      /\ channel'[0] = channel[0]
      /\ \A k \in DOMAIN channel'[i] :
           /\ k \in Nat /\ k >= 1 /\ k + 1 \in DOMAIN channel[i]
           /\ channel'[i][k] = channel[i][k + 1]
  BY <1>0, <1>1, TakenFrom
<1>3. Unread(i)' = Unread(i) /\ ShownFrom(i)' = ShownFrom(i)
  BY <1>1, <1>2 DEF Unread, ShownFrom
<1>4. /\ \A j, k \in DOMAIN channel'[i] : j < k => j + 1 < k + 1
      /\ \A k \in DOMAIN channel'[i] : 1 < k + 1
  BY <1>2
<1>5. \A j, k \in DOMAIN channel'[i] : j < k => channel'[i][j].data < channel'[i][k].data
  BY <1>2, <1>4 DEF WorkerOrder
<1>6. /\ \A m \in ShownFrom(i) : m.data < letter'[i].data
      /\ \A j \in Unread(i) : channel[0][j].data < letter'[i].data
      /\ \A k \in DOMAIN channel'[i] : letter'[i].data < channel'[i][k].data
  BY <1>2, <1>4 DEF WorkerOrder
<1>7. /\ \A m \in ShownFrom(i), k \in DOMAIN channel'[i] : m.data < channel'[i][k].data
      /\ \A j \in Unread(i), k \in DOMAIN channel'[i] : channel[0][j].data < channel'[i][k].data
  BY <1>2 DEF WorkerOrder
<1> QED BY <1>2, <1>3, <1>5, <1>6, <1>7 DEF WorkerOrder

\* The worker's echo goes behind its earlier ones.
LEMMA OrderEchoed ==
  ASSUME SchedulerInv, LifecycleInv, MailInv,
         NEW i \in Workers, Echoing(i, 0), WorkerOrder(i)
  PROVE  WorkerOrder(i)'
<1> DEFINE e == [sender_id |-> task_id[i], data |-> letter[i].data]
           n == Len(channel[0])
<1>0. /\ channel \in [Index -> Seq(Messages)]
      /\ 0 \in Index /\ i \in Index /\ i # 0 /\ task_id[i] \in Pids
  BY MailTypes DEF LifecycleInv, CodeOK, Workers
<1>1. /\ UNCHANGED <<heard, task_id>> /\ Held(i) /\ ~Held(i)'
      /\ channel' = [channel EXCEPT ![0] = Append(@, e)]
  BY DEF Echoing, TableKept
<1>2. e.data = letter[i].data /\ e \in Messages
  BY <1>0, <1>1 DEF MailInv, KnownMail, Messages
<1> HIDE DEF e
<1>3. /\ n \in Nat /\ DOMAIN channel[0] = 1 .. n /\ DOMAIN channel'[0] = 1 .. n + 1
      /\ channel'[0][n + 1] = e
      /\ \A k \in DOMAIN channel[0] : channel'[0][k] = channel[0][k]
      /\ channel'[i] = channel[i]
  BY <1>0, <1>1, <1>2, AppendedTo
<1> HIDE DEF n
<1>4. ASSUME NEW k \in Unread(i)'
      PROVE  k = n + 1 \/ (k \in Unread(i) /\ channel'[0][k] = channel[0][k])
  <2>1. k = n + 1 \/ k \in DOMAIN channel[0]
    BY <1>3 DEF Unread
  <2> QED BY <1>1, <1>3, <2>1 DEF Unread
<1>5. ShownFrom(i)' = ShownFrom(i)
  BY <1>1 DEF ShownFrom
<1>6. \A j, k \in Unread(i)' : j < k => channel'[0][j].data < channel'[0][k].data
  <2>1. ASSUME NEW j \in Unread(i)', NEW k \in Unread(i)', j < k
        PROVE  j # n + 1
    BY <1>3, <2>1 DEF Unread
  <2> QED BY <1>1, <1>2, <1>3, <1>4, <2>1 DEF WorkerOrder
<1> QED BY <1>1, <1>2, <1>3, <1>4, <1>5, <1>6 DEF WorkerOrder

\* Whatever the step, every worker's letters stay in order.
LEMMA OrderStep ==
  ASSUME SchedulerInv, LifecycleInv, WorkerInv, MailInv, OrderInv, [LifecycleNext]_lvars
  PROVE  OrderInv'
<1> SUFFICES ASSUME NEW i \in Workers'
             PROVE  WorkerOrder(i)'
  BY DEF OrderInv
<1>0. /\ channel \in [Index -> Seq(Messages)] /\ 0 \in Index /\ Index \subseteq Nat
      /\ Workers \subseteq Active /\ Active \subseteq Index /\ 0 \notin Workers
      /\ task_id[0] = MASTER_PID /\ 0 \in Active
      /\ \A j \in Active : task_id[j] \in Pids
      /\ posted \in Nat
  BY MailTypes, LifecycleTypes DEF LifecycleInv, CodeOK, Workers
<1>1. \A v, w \in Workers : task_id[v] = task_id[w] => v = w
  <2>1. \A v, w \in Workers : v < w => task_id[v] # task_id[w]
    BY <1>0 DEF SchedulerInv, PidInv, OnlyMasterPidShared
  <2>2. \A v, w \in Workers : v < w \/ w < v \/ v = w
    BY <1>0
  <2> QED BY <2>1, <2>2
<1>2. ASSUME TableKept
      PROVE  i \in Workers /\ WorkerOrder(i) /\ task_id' = task_id /\ i # 0 /\ i \in Index
  BY <1>0, <1>2, WorkersAfter DEF OrderInv, TableKept
<1>3. CASE Still
  <2>1. TableKept /\ HeldKept(Index) /\ UNCHANGED <<channel, heard>>
    BY <1>3 DEF Still
  <2>2. ShownFrom(i)' = ShownFrom(i)
    BY <1>2, <2>1 DEF ShownFrom
  <2> QED BY <1>2, <2>1, <2>2, OrderCarried DEF HeldKept
<1>4. ASSUME NEW new \in Index, NEW b, Registering(new, b)
      PROVE  WorkerOrder(i)'
  <2>1. /\ new \in Index \ {0} /\ new \notin Active /\ UNCHANGED heard
        /\ channel' = [channel EXCEPT ![new] = << >>]
        /\ ~Held(new)' /\ HeldKept(Index \ {new})
    BY <1>4 DEF Registering
  <2>2. channel'[new] = << >> /\ channel'[0] = channel[0]
    BY <1>0, <2>1
  <2>3. CASE i \in Workers
    <3>1. i \in Active /\ i # new /\ i \in Index /\ WorkerOrder(i)
      BY <1>0, <2>1, <2>3 DEF OrderInv
    <3>2. task_id'[i] = task_id[i] /\ channel'[i] = channel[i]
      BY <1>0, <1>4, <2>1, <3>1, WorkersAfter
    <3>3. ShownFrom(i)' = ShownFrom(i)
      BY <2>1, <3>2 DEF ShownFrom
    <3> QED BY <2>1, <2>2, <3>1, <3>2, <3>3, OrderCarried DEF HeldKept
  <2>4. CASE i \notin Workers
    <3>1. /\ i = new /\ task_id'[i] = generated_pid
          /\ \A j \in Active : task_id[j] # generated_pid
      BY <1>4, <2>4, WorkersAfter
    <3>2. ShownFrom(i)' = {}
      BY <2>1, <3>1 DEF ShownFrom, MailInv, KnownMail
    <3>3. Unread(i)' = {}
      <4>1. \A k \in DOMAIN channel[0] : channel[0][k].sender_id # generated_pid
        BY <1>0, <3>1 DEF MailInv, KnownMail
      <4> QED BY <2>2, <3>1, <4>1 DEF Unread
    <3>4. DOMAIN channel'[i] = {} /\ ~Held(i)'
      BY <2>1, <2>2, <3>1
    <3> QED BY <3>2, <3>3, <3>4 DEF WorkerOrder
  <2> QED BY <2>3, <2>4
<1>5. ASSUME NEW x \in Index, Posting(x)
      PROVE  WorkerOrder(i)'
  <2> DEFINE e == [sender_id |-> task_id[0], data |-> posted + 1]
  <2>1. /\ TableKept /\ HeldKept(Index) /\ UNCHANGED heard
        /\ channel' = [channel EXCEPT ![x] = Append(@, e)]
        /\ e \in Messages /\ e.sender_id = MASTER_PID
    BY <1>0, <1>5 DEF Posting, Messages
  <2> HIDE DEF e
  <2>2. CASE x = i
    BY <1>2, <1>5, <2>1, <2>2, OrderPosted
  <2>3. CASE x # i
    <3>1. /\ channel'[i] = channel[i]
          /\ \A k \in DOMAIN channel'[0] :
               \/ channel'[0][k] = e
               \/ k \in DOMAIN channel[0] /\ channel'[0][k] = channel[0][k]
      BY <1>0, <1>2, <2>1, <2>3, AppendedTo
    <3>2. task_id[i] # MASTER_PID
      BY <1>2, <2>1 DEF WorkerInv
    <3>3. ShownFrom(i)' = ShownFrom(i)
      BY <1>2, <2>1 DEF ShownFrom
    <3> QED BY <1>2, <2>1, <3>1, <3>2, <3>3, OrderCarried DEF HeldKept
  <2> QED BY <2>2, <2>3
<1>6. CASE Showing
  <2>1. TableKept
    BY <1>6 DEF Showing
  <2> QED BY <1>2, <1>6, <2>1, OrderShown
<1>7. ASSUME NEW w \in Index, Taking(w)
      PROVE  WorkerOrder(i)'
  <2>1. /\ TableKept /\ HeldKept(Index \ {w}) /\ UNCHANGED heard
        /\ w \in Workers /\ channel[w] # << >>
        /\ channel' = [channel EXCEPT ![w] = Tail(@)]
    BY <1>7 DEF Taking
  <2>2. CASE w = i
    BY <1>2, <1>7, <2>1, <2>2, OrderTaken
  <2>3. CASE w # i
    <3>1. channel'[i] = channel[i] /\ channel'[0] = channel[0]
      BY <1>0, <1>2, <2>1, <2>3
    <3>2. ShownFrom(i)' = ShownFrom(i)
      BY <1>2, <2>1 DEF ShownFrom
    <3> QED BY <1>2, <2>1, <2>3, <3>1, <3>2, OrderCarried DEF HeldKept
  <2> QED BY <2>2, <2>3
<1>8. ASSUME NEW w \in Index, NEW x \in Index, Echoing(w, x)
      PROVE  WorkerOrder(i)'
  <2> DEFINE e == [sender_id |-> task_id[w], data |-> letter[w].data]
  <2>1. /\ TableKept /\ HeldKept(Index \ {w}) /\ UNCHANGED heard
        /\ w \in Workers /\ Held(w) /\ ~Held(w)'
        /\ x \in Active /\ task_id[x] = letter[w].sender_id
        /\ channel' = [channel EXCEPT ![x] = Append(@, e)]
    BY <1>8 DEF Echoing
  <2>2. e \in Messages /\ e.sender_id = task_id[w]
    BY <1>0, <2>1 DEF MailInv, KnownMail, Messages
  <2>3. x \notin Workers
    BY <1>0, <2>1 DEF MailInv, WorkerInv
  <2> HIDE DEF e
  <2>4. /\ channel'[i] = channel[i]
        /\ x # 0 => channel'[0] = channel[0]
        /\ \A k \in DOMAIN channel'[0] :
             \/ channel'[0][k] = e
             \/ k \in DOMAIN channel[0] /\ channel'[0][k] = channel[0][k]
    BY <1>0, <1>2, <2>1, <2>2, <2>3, AppendedTo
  <2>5. ShownFrom(i)' = ShownFrom(i)
    BY <1>2, <2>1 DEF ShownFrom
  <2>6. CASE w = i /\ x = 0
    BY <1>2, <1>8, <2>1, <2>6, OrderEchoed
  <2>7. CASE w = i /\ x # 0
    BY <1>2, <2>1, <2>4, <2>5, <2>7, OrderCarried
  <2>8. CASE w # i
    <3>1. task_id[w] # task_id[i]
      BY <1>1, <1>2, <2>1, <2>8
    <3> QED BY <1>2, <2>1, <2>2, <2>4, <2>5, <2>8, <3>1, OrderCarried DEF HeldKept
  <2> QED BY <2>6, <2>7, <2>8
<1>9. ASSUME NEW w \in Index, Refusing(w)
      PROVE  WorkerOrder(i)'
  <2>1. TableKept /\ HeldKept(Index \ {w}) /\ ~Held(w)' /\ UNCHANGED <<channel, heard>>
    BY <1>9 DEF Refusing
  <2>2. ShownFrom(i)' = ShownFrom(i)
    BY <1>2, <2>1 DEF ShownFrom
  <2> QED BY <1>2, <2>1, <2>2, OrderCarried DEF HeldKept
<1> QED BY <1>3, <1>4, <1>5, <1>6, <1>7, <1>8, <1>9, Moves

LEMMA MailInit ==
  ASSUME LifecycleInit
  PROVE  WorkerInv /\ MailInv /\ OrderInv
<1>1. /\ \A i \in Index : body[i] # "worker" /\ ~Held(i) /\ channel[i] = << >>
      /\ Workers = {} /\ to_come = << >> /\ heard = {} /\ dropped = {}
  BY DEF LifecycleInit, Init, Held, Workers, Active
<1>2. \A i \in Index : DOMAIN channel[i] = {}
  BY <1>1
<1> QED BY <1>1, <1>2 DEF WorkerInv, AuditorFirst, MailInv, OrderInv

\* All invariants of the shell and its daemons hold together.
LEMMA LettersInvariance ==
  LifecycleSpec => [](SchedulerInv /\ LifecycleInv /\ WorkerInv /\ MailInv /\ OrderInv)
<1>1. LifecycleInit => WorkerInv /\ MailInv /\ OrderInv
  BY MailInit
<1>2. SchedulerInv /\ LifecycleInv /\ WorkerInv /\ MailInv /\ OrderInv /\ [LifecycleNext]_lvars
        => WorkerInv' /\ MailInv' /\ OrderInv'
  BY WorkerStep, MailStep, OrderStep
<1> QED BY <1>1, <1>2, LifecycleInvariance, PTL DEF LifecycleSpec

\* The echoes of a worker come back in the order the letters were sent
\* (kernel_daemon_worker, scheduler_ipc_send and scheduler_ipc_receive).
THEOREM EchoesInOrder == LifecycleSpec => []EchoInOrder
<1>1. ASSUME OrderInv, NEW i \in Workers
      PROVE  \A s, t \in 1 .. 4 :
               s < t => \A a \in Stages(i)[s], b \in Stages(i)[t] : a < b
  <2>1. /\ Stages(i)[1] = {m.data : m \in ShownFrom(i)}
        /\ Stages(i)[2] = {channel[0][k].data : k \in Unread(i)}
        /\ Stages(i)[3] = {n \in {letter[i].data} : Held(i)}
        /\ Stages(i)[4] = {channel[i][k].data : k \in DOMAIN channel[i]}
    BY DEF Stages, ShownFrom
  <2>2. WorkerOrder(i)
    BY <1>1 DEF OrderInv
  <2>3. /\ \A a \in Stages(i)[1], b \in Stages(i)[2] : a < b
        /\ \A a \in Stages(i)[1], b \in Stages(i)[3] : a < b
        /\ \A a \in Stages(i)[1], b \in Stages(i)[4] : a < b
        /\ \A a \in Stages(i)[2], b \in Stages(i)[3] : a < b
        /\ \A a \in Stages(i)[2], b \in Stages(i)[4] : a < b
        /\ \A a \in Stages(i)[3], b \in Stages(i)[4] : a < b
    BY <2>1, <2>2 DEF WorkerOrder
  <2>4. \A s, t \in 1 .. 4 :
          s < t => <<s, t>> \in {<<1, 2>>, <<1, 3>>, <<1, 4>>, <<2, 3>>, <<2, 4>>, <<3, 4>>}
    OBVIOUS
  <2> QED BY <2>3, <2>4
<1>2. OrderInv => EchoInOrder
  BY <1>1 DEF OrderInv, WorkerOrder, EchoInOrder, Rising
<1> QED BY <1>2, LettersInvariance, PTL

-----------------------------------------------------------------------------
(***************************************************************************)
(* Every letter is in one place.                                           *)
(***************************************************************************)
\* What is a place of letter n.
IsPlace(p, n) ==
  \/ \E m \in heard : m.data = n /\ p = <<"heard", m.sender_id, 0>>
  \/ \E j \in Index : \E k \in DOMAIN channel[j] :
       channel[j][k].data = n /\ p = <<"channel", j, k>>
  \/ \E j \in Index : Held(j) /\ letter[j].data = n /\ p = <<"held", j, 0>>
  \/ n \in dropped /\ p = <<"dropped", 0, 0>>

InOnePlace(n) == \E p : \A q : IsPlace(q, n) <=> q = p
AccountInv == \A n \in 1 .. posted : InOnePlace(n)

LEMMA PlacesMembers ==
  ASSUME NEW n, NEW p
  PROVE  p \in Places(n) <=> IsPlace(p, n)
<1>1. p \in ShownAt(n) <=> \E m \in heard : m.data = n /\ p = <<"heard", m.sender_id, 0>>
  BY DEF ShownAt
<1>2. p \in QueuedAt(n) <=> \E j \in Index : \E k \in DOMAIN channel[j] :
                                 channel[j][k].data = n /\ p = <<"channel", j, k>>
  BY DEF QueuedAt
<1>3. p \in HeldAt(n) <=> \E j \in Index : Held(j) /\ letter[j].data = n /\ p = <<"held", j, 0>>
  BY DEF HeldAt
<1>4. p \in LostAt(n) <=> n \in dropped /\ p = <<"dropped", 0, 0>>
  BY DEF LostAt
<1>5. p \in Places(n) <=> \/ p \in ShownAt(n) \/ p \in QueuedAt(n)
                             \/ p \in HeldAt(n) \/ p \in LostAt(n)
  BY DEF Places
<1> QED BY <1>1, <1>2, <1>3, <1>4, <1>5 DEF IsPlace

\* A step that does not touch letter n leaves it where it is.
LEMMA PlacesSame ==
  ASSUME NEW n, InOnePlace(n),
         \A m : m.data = n => (m \in heard' <=> m \in heard),
         \A j \in Index : \A k : k \in DOMAIN channel'[j] /\ channel'[j][k].data = n
                             <=> k \in DOMAIN channel[j] /\ channel[j][k].data = n,
         \A j \in Index : Held(j)' /\ letter'[j].data = n <=> Held(j) /\ letter[j].data = n,
         n \in dropped' <=> n \in dropped
  PROVE  InOnePlace(n)'
<1>1. ASSUME NEW p
      PROVE  IsPlace(p, n)' <=> IsPlace(p, n)
  BY DEF IsPlace, Index
<1>2. PICK p : \A q : IsPlace(q, n) <=> q = p
  BY Zenon DEF InOnePlace
<1>3. \A q : IsPlace(q, n)' <=> q = p
  BY <1>1, <1>2, Zenon
<1> QED BY <1>3 DEF InOnePlace

\* A letter that waits in a channel, or is held, is nowhere else.
LEMMA OnlyQueued ==
  ASSUME NEW n, NEW j \in Index, NEW k \in DOMAIN channel[j], channel[j][k].data = n,
         InOnePlace(n)
  PROVE  /\ \A m \in heard : m.data # n
         /\ \A i \in Index : \A l \in DOMAIN channel[i] : channel[i][l].data = n => i = j /\ l = k
         /\ \A i \in Index : ~(Held(i) /\ letter[i].data = n)
         /\ n \notin dropped
<1>1. IsPlace(<<"channel", j, k>>, n)
  BY DEF IsPlace
<1>2. \A q : IsPlace(q, n) => q = <<"channel", j, k>>
  BY <1>1 DEF InOnePlace
<1>3. ASSUME NEW m \in heard, m.data = n
      PROVE  FALSE
  <2>1. IsPlace(<<"heard", m.sender_id, 0>>, n)
    BY <1>3 DEF IsPlace
  <2> QED BY <1>2, <2>1
<1>4. ASSUME NEW i \in Index, NEW l \in DOMAIN channel[i], channel[i][l].data = n
      PROVE  i = j /\ l = k
  <2>1. IsPlace(<<"channel", i, l>>, n)
    BY <1>4 DEF IsPlace
  <2> QED BY <1>2, <2>1
<1>5. ASSUME NEW i \in Index, Held(i), letter[i].data = n
      PROVE  FALSE
  <2>1. IsPlace(<<"held", i, 0>>, n)
    BY <1>5 DEF IsPlace
  <2> QED BY <1>2, <2>1
<1>6. ASSUME n \in dropped
      PROVE  FALSE
  <2>1. IsPlace(<<"dropped", 0, 0>>, n)
    BY <1>6 DEF IsPlace
  <2> QED BY <1>2, <2>1
<1> QED BY <1>3, <1>4, <1>5, <1>6

LEMMA OnlyHeld ==
  ASSUME NEW n, NEW j \in Index, Held(j), letter[j].data = n, InOnePlace(n)
  PROVE  /\ \A m \in heard : m.data # n
         /\ \A i \in Index : \A l \in DOMAIN channel[i] : channel[i][l].data # n
         /\ \A i \in Index : Held(i) /\ letter[i].data = n => i = j
         /\ n \notin dropped
<1>1. IsPlace(<<"held", j, 0>>, n)
  BY DEF IsPlace
<1>2. \A q : IsPlace(q, n) => q = <<"held", j, 0>>
  BY <1>1 DEF InOnePlace
<1>3. ASSUME NEW m \in heard, m.data = n
      PROVE  FALSE
  <2>1. IsPlace(<<"heard", m.sender_id, 0>>, n)
    BY <1>3 DEF IsPlace
  <2> QED BY <1>2, <2>1
<1>4. ASSUME NEW i \in Index, NEW l \in DOMAIN channel[i], channel[i][l].data = n
      PROVE  FALSE
  <2>1. IsPlace(<<"channel", i, l>>, n)
    BY <1>4 DEF IsPlace
  <2> QED BY <1>2, <2>1
<1>5. ASSUME NEW i \in Index, Held(i), letter[i].data = n
      PROVE  i = j
  <2>1. IsPlace(<<"held", i, 0>>, n)
    BY <1>5 DEF IsPlace
  <2> QED BY <1>2, <2>1
<1>6. ASSUME n \in dropped
      PROVE  FALSE
  <2>1. IsPlace(<<"dropped", 0, 0>>, n)
    BY <1>6 DEF IsPlace
  <2> QED BY <1>2, <2>1
<1> QED BY <1>3, <1>4, <1>5, <1>6

\* The letters behind the first one of channel i move up by one place.
LEMMA PlaceMovesUp ==
  ASSUME channel \in [Index -> Seq(Messages)], NEW i \in Index, channel[i] # << >>,
         channel' = [channel EXCEPT ![i] = Tail(@)],
         NEW n, InOnePlace(n), channel[i][1].data # n,
         \A m : m.data = n => (m \in heard' <=> m \in heard),
         \A j \in Index : Held(j)' /\ letter'[j].data = n <=> Held(j) /\ letter[j].data = n,
         dropped' = dropped
  PROVE  InOnePlace(n)'
<1>0. Index' = Index
  BY DEF Index
<1>1. /\ \A j \in Index \ {i} : channel'[j] = channel[j]
      /\ \A k \in DOMAIN channel'[i] :
           k \in Nat /\ k + 1 \in DOMAIN channel[i] /\ channel'[i][k] = channel[i][k + 1]
      /\ \A k \in DOMAIN channel[i] :
           \/ k = 1
           \/ k - 1 \in DOMAIN channel'[i] /\ channel'[i][k - 1] = channel[i][k]
      /\ DOMAIN channel[i] \subseteq Nat
  <2>1. channel[i] \in Seq(Messages)
    OBVIOUS
  <2>2. DOMAIN channel[i] \subseteq Nat
    BY <2>1, LenProperties
  <2> QED BY <2>2, TakenFrom
<1>2. CASE \E k \in DOMAIN channel[i] : channel[i][k].data = n
  <2>1. PICK k \in DOMAIN channel[i] : channel[i][k].data = n
    BY <1>2
  <2>2. k - 1 \in DOMAIN channel'[i] /\ channel'[i][k - 1].data = n /\ k \in Nat
    BY <1>1, <2>1
  <2>3. /\ \A m \in heard : m.data # n
        /\ \A j \in Index : \A l \in DOMAIN channel[j] : channel[j][l].data = n => j = i /\ l = k
        /\ \A j \in Index : ~(Held(j) /\ letter[j].data = n)
        /\ n \notin dropped
    BY <2>1, OnlyQueued
  <2>4. ASSUME NEW j \in Index, NEW l \in DOMAIN channel'[j], channel'[j][l].data = n
        PROVE  j = i /\ l = k - 1
    <3>1. CASE j = i
      <4>1. l + 1 = k /\ l \in Nat
        BY <1>1, <2>3, <2>4, <3>1
      <4> QED BY <2>2, <3>1, <4>1
    <3>2. CASE j # i
      BY <1>1, <2>3, <2>4, <3>2
    <3> QED BY <3>1, <3>2
  <2>5. PICK p : p = <<"channel", i, k - 1>>
    OBVIOUS
  <2>6. \A q : IsPlace(q, n)' <=> q = p
    BY <1>0, <2>2, <2>3, <2>4, <2>5 DEF IsPlace
  <2> QED BY ONLY <2>6 DEF InOnePlace
<1>3. CASE ~\E k \in DOMAIN channel[i] : channel[i][k].data = n
  <2>1. \A j \in Index : \A k : k \in DOMAIN channel'[j] /\ channel'[j][k].data = n
                            <=> k \in DOMAIN channel[j] /\ channel[j][k].data = n
    BY <1>1, <1>3
  <2> QED BY <2>1, PlacesSame
<1> QED BY <1>2, <1>3

\* Each move takes a letter from one place to one other.
LEMMA AccountStep ==
  ASSUME SchedulerInv, LifecycleInv, WorkerInv, MailInv, AccountInv, [LifecycleNext]_lvars
  PROVE  AccountInv'
<1>0. /\ channel \in [Index -> Seq(Messages)] /\ 0 \in Index
      /\ Active \subseteq Index /\ posted \in Nat /\ Index' = Index
      /\ Workers \subseteq Active
      /\ Payloads \subseteq Nat \ {0}
  BY MailTypes
<1>1. ASSUME posted' = posted, \A n \in 1 .. posted : InOnePlace(n)'
      PROVE  AccountInv'
  BY <1>1 DEF AccountInv
<1>2. CASE Still
  <2>1. ASSUME NEW n \in 1 .. posted
        PROVE  InOnePlace(n)'
    <3>1. InOnePlace(n)
      BY DEF AccountInv
    <3> QED BY <1>2, <3>1, PlacesSame DEF Still, HeldKept
  <2> QED BY <1>1, <1>2, <2>1 DEF Still
<1>3. ASSUME NEW new \in Index, NEW b, Registering(new, b)
      PROVE  AccountInv'
  <2>1. ~Held(new) /\ channel[new] = << >> /\ ~Held(new)'
    BY <1>0, <1>3 DEF Registering, WorkerInv, MailInv
  <2>2. channel' = channel
    BY <1>0, <1>3, <2>1 DEF Registering
  <2>3. ASSUME NEW n \in 1 .. posted
        PROVE  InOnePlace(n)'
    <3>1. InOnePlace(n)
      BY DEF AccountInv
    <3> QED BY <1>3, <2>1, <2>2, <3>1, PlacesSame DEF Registering, HeldKept
  <2> QED BY <1>1, <1>3, <2>3 DEF Registering
<1>4. ASSUME NEW i \in Index, Posting(i)
      PROVE  AccountInv'
  <2> DEFINE e == [sender_id |-> task_id[0], data |-> posted + 1]
  <2>1. /\ UNCHANGED <<heard, dropped>> /\ HeldKept(Index)
        /\ posted' = posted + 1
        /\ channel' = [channel EXCEPT ![i] = Append(@, e)]
    BY <1>4 DEF Posting
  <2>2. e \in Messages /\ e.data = posted + 1
    BY <1>0, <1>4, MailTypes DEF Posting, Messages, Pids
  <2> HIDE DEF e
  <2>3. PICK l : l = Len(channel[i]) + 1
    OBVIOUS
  <2>4. /\ l \in DOMAIN channel'[i] /\ l \notin DOMAIN channel[i] /\ channel'[i][l] = e
        /\ \A k \in DOMAIN channel[i] : k \in DOMAIN channel'[i] /\ channel'[i][k] = channel[i][k]
        /\ \A j \in Index \ {i} : channel'[j] = channel[j]
        /\ \A j \in Index : \A k \in DOMAIN channel'[j] :
             (j = i /\ k = l) \/ (k \in DOMAIN channel[j] /\ channel'[j][k] = channel[j][k])
    BY <1>0, <2>1, <2>2, <2>3, AppendedTo
  <2>5. ASSUME NEW n \in 1 .. posted
        PROVE  InOnePlace(n)'
    <3>1. InOnePlace(n) /\ e.data # n
      BY <1>0, <2>2 DEF AccountInv
    <3>2. \A j \in Index : \A k : k \in DOMAIN channel'[j] /\ channel'[j][k].data = n
                              <=> k \in DOMAIN channel[j] /\ channel[j][k].data = n
      BY <2>4, <3>1
    <3> QED BY <2>1, <3>1, <3>2, PlacesSame DEF HeldKept
  <2>6. ASSUME NEW n, n = posted + 1
        PROVE  InOnePlace(n)'
    <3>1. n = posted + 1
      BY <2>6
    <3>2. \A m \in KnownMail : m.data # n
      <4>1. ASSUME NEW m \in KnownMail
            PROVE  m.data \in Nat /\ m.data <= posted
        BY <1>0 DEF KnownMail, Messages
      <4> QED BY <1>0, <3>1, <4>1
    <3>3. n \notin dropped
      BY <1>0, <3>1 DEF MailInv
    <3>4. /\ \A m \in heard : m.data # n
          /\ \A j \in Index : \A k \in DOMAIN channel[j] : channel[j][k].data # n
          /\ \A j \in Index : ~(Held(j) /\ letter[j].data = n)
      BY <3>2 DEF MailInv
    <3>5. PICK p : p = <<"channel", i, l>>
      OBVIOUS
    <3>6. channel'[i][l].data = n
      BY <2>2, <2>4, <3>1
    <3>7. \A j \in Index : \A k \in DOMAIN channel'[j] :
            channel'[j][k].data = n => j = i /\ k = l
      BY <2>4, <3>4
    <3>8. \A q : IsPlace(q, n)' <=> q = p
      BY <1>0, <2>1, <2>4, <3>3, <3>4, <3>5, <3>6, <3>7 DEF IsPlace, HeldKept
    <3> QED BY <3>8 DEF InOnePlace
  <2>7. \A n \in 1 .. posted' : n \in 1 .. posted \/ n = posted + 1
    BY <1>0, <2>1
  <2> QED BY <2>5, <2>6, <2>7 DEF AccountInv
<1>5. CASE Showing
  <2>1. /\ UNCHANGED <<posted, dropped>> /\ HeldKept(Index)
        /\ channel[0] # << >> /\ heard' = heard \cup {Head(channel[0])}
        /\ channel' = [channel EXCEPT ![0] = Tail(@)]
    BY <1>5 DEF Showing
  <2>2. PICK m : m = channel[0][1]
    OBVIOUS
  <2>3. /\ 1 \in DOMAIN channel[0] /\ Head(channel[0]) = m
        /\ \A j \in Index \ {0} : channel'[j] = channel[j]
        /\ \A k \in DOMAIN channel'[0] : /\ k \in Nat /\ k >= 1
                                         /\ k + 1 \in DOMAIN channel[0]
                                         /\ channel'[0][k] = channel[0][k + 1]
    BY <1>0, <2>1, <2>2, TakenFrom
  <2>4. ASSUME NEW n \in 1 .. posted
        PROVE  InOnePlace(n)'
    <3>1. InOnePlace(n)
      BY DEF AccountInv
    <3>2. CASE m.data = n
      <4>1. /\ \A o \in heard : o.data # n
            /\ \A j \in Index : \A k \in DOMAIN channel[j] :
                 channel[j][k].data = n => j = 0 /\ k = 1
            /\ \A j \in Index : ~(Held(j) /\ letter[j].data = n)
            /\ n \notin dropped
        BY <1>0, <2>2, <2>3, <3>1, <3>2, OnlyQueued
      <4>2. \A j \in Index : \A k \in DOMAIN channel'[j] : channel'[j][k].data # n
        <5>1. \A k \in Nat : k >= 1 => k + 1 # 1
          OBVIOUS
        <5> QED BY <1>0, <2>3, <4>1, <5>1
      <4>3. PICK p : p = <<"heard", m.sender_id, 0>>
        OBVIOUS
      <4>4. \A q : IsPlace(q, n)' <=> q = p
        <5>1. \A o : o \in heard' /\ o.data = n <=> o = m
          BY <2>1, <2>3, <3>2, <4>1
        <5>2. (\A j \in Index : ~(Held(j)' /\ letter'[j].data = n)) /\ n \notin dropped'
          BY <2>1, <4>1 DEF HeldKept
        <5>3. ASSUME NEW q
              PROVE  IsPlace(q, n)' <=> \E o \in heard' : o.data = n /\ q = <<"heard", o.sender_id, 0>>
          BY <4>2, <5>2 DEF IsPlace, Index
        <5> QED BY <4>3, <5>1, <5>3
      <4> QED BY <4>4 DEF InOnePlace
    <3>3. CASE m.data # n
      <4>1. \A o : o.data = n => (o \in heard' <=> o \in heard)
        BY <2>1, <2>3, <3>3
      <4>2. \A j \in Index : Held(j)' /\ letter'[j].data = n <=> Held(j) /\ letter[j].data = n
        BY <2>1 DEF HeldKept
      <4> QED BY <1>0, <2>1, <2>2, <3>1, <3>3, <4>1, <4>2, PlaceMovesUp
    <3> QED BY <3>2, <3>3
  <2> QED BY <1>1, <2>1, <2>4
<1>6. ASSUME NEW w \in Index, Taking(w)
      PROVE  AccountInv'
  <2>1. /\ UNCHANGED <<posted, dropped, heard>> /\ HeldKept(Index \ {w})
        /\ ~Held(w) /\ Held(w)' /\ letter'[w] = Head(channel[w])
        /\ channel[w] # << >>
        /\ channel' = [channel EXCEPT ![w] = Tail(@)]
    BY <1>6 DEF Taking
  <2>2. PICK m : m = channel[w][1]
    OBVIOUS
  <2>3. /\ 1 \in DOMAIN channel[w] /\ letter'[w] = m
        /\ \A j \in Index \ {w} : channel'[j] = channel[j]
        /\ \A k \in DOMAIN channel'[w] : /\ k \in Nat /\ k >= 1
                                         /\ k + 1 \in DOMAIN channel[w]
                                         /\ channel'[w][k] = channel[w][k + 1]
    BY <1>0, <2>1, <2>2, TakenFrom
  <2>4. ASSUME NEW n \in 1 .. posted
        PROVE  InOnePlace(n)'
    <3>1. InOnePlace(n)
      BY DEF AccountInv
    <3>2. CASE m.data = n
      <4>1. /\ \A o \in heard : o.data # n
            /\ \A j \in Index : \A k \in DOMAIN channel[j] :
                 channel[j][k].data = n => j = w /\ k = 1
            /\ \A j \in Index : ~(Held(j) /\ letter[j].data = n)
            /\ n \notin dropped
        BY <2>2, <2>3, <3>1, <3>2, OnlyQueued
      <4>2. \A j \in Index : \A k \in DOMAIN channel'[j] : channel'[j][k].data # n
        <5> SUFFICES ASSUME NEW j \in Index, NEW k \in DOMAIN channel'[j]
                     PROVE  channel'[j][k].data # n
          OBVIOUS
        <5>1. CASE j = w
          <6>1. k \in Nat /\ k >= 1 /\ k + 1 \in DOMAIN channel[w] /\ channel'[w][k] = channel[w][k + 1]
            BY <2>3, <5>1
          <6>2. k + 1 # 1
            BY <6>1
          <6> QED BY <4>1, <5>1, <6>1, <6>2
        <5>2. CASE j # w
          BY <2>3, <4>1, <5>2
        <5> QED BY <5>1, <5>2
      <4>3. PICK p : p = <<"held", w, 0>>
        OBVIOUS
      <4>4. \A q : IsPlace(q, n)' <=> q = p
        <5>1. \A j \in Index : Held(j)' /\ letter'[j].data = n <=> j = w
          BY <2>1, <2>3, <3>2, <4>1 DEF HeldKept
        <5>2. (\A o \in heard' : o.data # n) /\ n \notin dropped'
          BY <2>1, <4>1
        <5>3. ASSUME NEW q
              PROVE  IsPlace(q, n)' <=> \E j \in Index : Held(j)' /\ letter'[j].data = n /\ q = <<"held", j, 0>>
          BY <4>2, <5>2 DEF IsPlace, Index
        <5> QED BY <4>3, <5>1, <5>3
      <4> QED BY <4>4 DEF InOnePlace
    <3>3. CASE m.data # n
      <4>1. \A j \in Index : Held(j)' /\ letter'[j].data = n <=> Held(j) /\ letter[j].data = n
        BY <2>1, <2>3, <3>3 DEF HeldKept
      <4> QED BY <1>0, <2>1, <2>2, <3>1, <3>3, <4>1, PlaceMovesUp
    <3> QED BY <3>2, <3>3
  <2> QED BY <1>1, <2>1, <2>4
<1>7. ASSUME NEW w \in Index, NEW i \in Index, Echoing(w, i)
      PROVE  AccountInv'
  <2> DEFINE e == [sender_id |-> task_id[w], data |-> letter[w].data]
  <2>1. /\ UNCHANGED <<posted, heard, dropped>> /\ HeldKept(Index \ {w})
        /\ Held(w) /\ ~Held(w)' /\ w \in Active
        /\ channel' = [channel EXCEPT ![i] = Append(@, e)]
    BY <1>0, <1>7 DEF Echoing
  <2>2. e \in Messages /\ e.data = letter[w].data
    <3>1. letter[w] \in Messages
      BY <2>1 DEF MailInv, KnownMail
    <3> QED BY <2>1, <3>1, MailTypes DEF Messages
  <2> HIDE DEF e
  <2>3. PICK l : l = Len(channel[i]) + 1
    OBVIOUS
  <2>4. /\ l \in DOMAIN channel'[i] /\ l \notin DOMAIN channel[i] /\ channel'[i][l] = e
        /\ \A k \in DOMAIN channel[i] : k \in DOMAIN channel'[i] /\ channel'[i][k] = channel[i][k]
        /\ \A j \in Index \ {i} : channel'[j] = channel[j]
        /\ \A j \in Index : \A k \in DOMAIN channel'[j] :
             (j = i /\ k = l) \/ (k \in DOMAIN channel[j] /\ channel'[j][k] = channel[j][k])
    BY <1>0, <2>1, <2>2, <2>3, AppendedTo
  <2>5. ASSUME NEW n \in 1 .. posted
        PROVE  InOnePlace(n)'
    <3>1. InOnePlace(n)
      BY DEF AccountInv
    <3>2. CASE letter[w].data = n
      <4>1. /\ \A m \in heard : m.data # n
            /\ \A j \in Index : \A k \in DOMAIN channel[j] : channel[j][k].data # n
            /\ \A j \in Index : Held(j) /\ letter[j].data = n => j = w
            /\ n \notin dropped
        BY <2>1, <3>1, <3>2, OnlyHeld
      <4>2. PICK p : p = <<"channel", i, l>>
        OBVIOUS
      <4>3. channel'[i][l].data = n
        BY <2>2, <2>4, <3>2
      <4>4. \A j \in Index : \A k \in DOMAIN channel'[j] :
              channel'[j][k].data = n => j = i /\ k = l
        BY <2>4, <4>1
      <4>5. \A j \in Index : ~(Held(j)' /\ letter'[j].data = n)
        BY <2>1, <4>1 DEF HeldKept
      <4>6. \A q : IsPlace(q, n)' <=> q = p
        BY <1>0, <2>1, <2>4, <4>1, <4>2, <4>3, <4>4, <4>5 DEF IsPlace
      <4> QED BY <4>6 DEF InOnePlace
    <3>3. CASE letter[w].data # n
      <4>1. \A j \in Index : \A k : k \in DOMAIN channel'[j] /\ channel'[j][k].data = n
                                <=> k \in DOMAIN channel[j] /\ channel[j][k].data = n
        BY <2>2, <2>4, <3>3
      <4>2. \A j \in Index : Held(j)' /\ letter'[j].data = n <=> Held(j) /\ letter[j].data = n
        BY <2>1, <3>3 DEF HeldKept
      <4> QED BY <2>1, <3>1, <4>1, <4>2, PlacesSame
    <3> QED BY <3>2, <3>3
  <2> QED BY <1>1, <2>1, <2>5
<1>8. ASSUME NEW w \in Index, Refusing(w)
      PROVE  AccountInv'
  <2>1. /\ UNCHANGED <<posted, heard, channel>> /\ HeldKept(Index \ {w})
        /\ Held(w) /\ ~Held(w)' /\ dropped' = dropped \cup {letter[w].data}
    BY <1>8 DEF Refusing
  <2>2. ASSUME NEW n \in 1 .. posted
        PROVE  InOnePlace(n)'
    <3>1. InOnePlace(n)
      BY DEF AccountInv
    <3>2. CASE letter[w].data = n
      <4>1. /\ \A m \in heard : m.data # n
            /\ \A j \in Index : \A k \in DOMAIN channel[j] : channel[j][k].data # n
            /\ \A j \in Index : Held(j) /\ letter[j].data = n => j = w
        BY <2>1, <3>1, <3>2, OnlyHeld
      <4>2. PICK p : p = <<"dropped", 0, 0>>
        OBVIOUS
      <4>3. \A j \in Index : ~(Held(j)' /\ letter'[j].data = n)
        BY <2>1, <4>1 DEF HeldKept
      <4>4. \A q : IsPlace(q, n)' <=> q = p
        BY <1>0, <2>1, <3>2, <4>1, <4>2, <4>3 DEF IsPlace
      <4> QED BY <4>4 DEF InOnePlace
    <3>3. CASE letter[w].data # n
      <4>1. \A j \in Index : Held(j)' /\ letter'[j].data = n <=> Held(j) /\ letter[j].data = n
        BY <2>1, <3>3 DEF HeldKept
      <4> QED BY <2>1, <3>1, <3>3, <4>1, PlacesSame
    <3> QED BY <3>2, <3>3
  <2> QED BY <1>1, <2>1, <2>2
<1> QED BY <1>2, <1>3, <1>4, <1>5, <1>6, <1>7, <1>8, Moves

\* Every letter that msgsend sent is in exactly one place: shown, queued, held
\* or refused, through yields, kills and repeated resets (ipc_send_message,
\* kernel_daemon_worker and the msgsend and msgrecv commands).
THEOREM LettersAreAccounted == LifecycleSpec => []LettersAccounted
<1>1. LifecycleInit => AccountInv
  <2>1. LifecycleInit => 1 .. posted = {}
    BY DEF LifecycleInit
  <2> QED BY <2>1 DEF AccountInv
<1>2. AccountInv => LettersAccounted
  <2>1. ASSUME NEW n, InOnePlace(n)
        PROVE  Cardinality(Places(n)) = 1
    <3>1. PICK p : \A q : IsPlace(q, n) <=> q = p
      BY <2>1 DEF InOnePlace
    <3>2. \A q : q \in Places(n) <=> q = p
      BY <3>1, PlacesMembers
    <3>3. Places(n) = {p}
      BY <3>2
    <3> QED BY <3>3, FS_Singleton
  <2> QED BY <2>1 DEF AccountInv, LettersAccounted
<1>3. SchedulerInv /\ LifecycleInv /\ WorkerInv /\ MailInv /\ AccountInv /\ [LifecycleNext]_lvars
        => AccountInv'
  BY AccountStep
<1> QED BY <1>1, <1>2, <1>3, LifecycleInvariance, LettersInvariance, PTL DEF LifecycleSpec

-----------------------------------------------------------------------------
(***************************************************************************)
(* While the shell waits in msgrecv.                                       *)
(***************************************************************************)
MasterLives == execution_state[0] # "DEAD"

\* Only the command kill ends a process, and never the shell, whose pid is
\* protected.
LEMMA NobodyElseKills ==
  ASSUME SchedulerInv, LifecycleInv, [LifecycleNext]_lvars
  PROVE  /\ \A i \in Active : \/ execution_state[i] = "DEAD"
                              \/ execution_state'[i] # "DEAD"
                              \/ at[0] = "prompt" /\ i # 0
         /\ MasterLives => MasterLives'
<1>0. /\ 0 \in Active /\ Active \subseteq Index /\ me \in Index
      /\ execution_state \in [Index -> ExecutionStates] /\ task_id[0] = MASTER_PID
  BY LifecycleTypes, MailTypes DEF TypeOK
<1>1. CASE UNCHANGED execution_state
  BY <1>1 DEF MasterLives
<1>2. CASE IpcReceiveBlock
  BY <1>0, <1>2 DEF IpcReceiveBlock, scheduler_yield, MasterLives
<1>3. CASE Yield \/ Sleep(AUDITOR_SLEEP) \/ IpcReceiveTake
  <2>1. UNCHANGED execution_state
    BY <1>3 DEF Yield, Sleep, IpcReceiveTake, scheduler_yield, NoSwitch
  <2> QED BY <1>1, <2>1
<1>4. ASSUME NEW pid, NEW data, IpcSend(pid, data)
      PROVE  \A i \in Active : execution_state[i] = "DEAD" \/ execution_state'[i] # "DEAD"
  BY <1>0, <1>4 DEF IpcSend, NoSwitch, WokenBySend
<1>5. ASSUME NEW pid, cmd_kill(pid)
      PROVE  \A i \in Active : \/ execution_state[i] = "DEAD"
                               \/ execution_state'[i] # "DEAD"
                               \/ at[0] = "prompt" /\ i # 0
  <2>1. at[0] = "prompt" /\ TerminateProcess(pid)
    BY <1>5 DEF cmd_kill, Shell
  <2>2. PICK k \in Index : ~Protected(k) /\ execution_state' = AfterTermination(k)
    BY <2>1 DEF TerminateProcess, NoSwitch
  <2>3. k # 0
    BY <1>0, <2>2 DEF Protected
  <2> QED BY <1>0, <2>1, <2>2, <2>3 DEF AfterTermination
<1>6. CASE Bootstrap
  <2>1. CASE UNCHANGED vars
    BY <1>1, <2>1 DEF vars
  <2>2. CASE ~UNCHANGED vars
    <3>1. PICK p, c : RegisterProcess(p, c)
      BY <1>6, <2>2 DEF Bootstrap
    <3> QED BY <1>0, <3>1 DEF RegisterProcess, MasterLives
  <2> QED BY <2>1, <2>2
<1>7. CASE UNCHANGED vars
  BY <1>1, <1>7 DEF vars
<1>8. \/ UNCHANGED vars \/ IpcReceiveBlock \/ Yield \/ Sleep(AUDITOR_SLEEP) \/ IpcReceiveTake
      \/ (\E pid, data : IpcSend(pid, data)) \/ (\E pid : cmd_kill(pid)) \/ Bootstrap
      \/ TimerInterrupt
  BY DEF LifecycleNext, Command, Machine, lvars, Reset, BootstrapDone, cmd_msgsend,
         cmd_msgrecv, TopStart, TopYield, TopQuit, WorkerReceive, WorkerEcho, WorkerYield,
         AuditorSleep, AuditorYield, Interrupt, Halted
<1>9. CASE TimerInterrupt
  BY <1>1, <1>9 DEF TimerInterrupt, NoSwitch
<1> QED BY <1>0, <1>2, <1>3, <1>4, <1>5, <1>6, <1>7, <1>8, <1>9 DEF MasterLives

\* An echo goes to the shell's channel, or that channel is full.
LEMMA EchoReachesShell ==
  ASSUME SchedulerInv, LifecycleInv, WorkerInv, MailInv, MasterLives, WorkerEcho
  PROVE  channel'[0] # << >>
<1>0. /\ 0 \in Active /\ 0 \in Index /\ me \in Index /\ me \in Active
      /\ channel \in [Index -> Seq(Messages)] /\ task_id[0] = MASTER_PID
      /\ Active \subseteq Nat
  BY LifecycleTypes, MailTypes DEF Active
<1>1. EchoTarget = MASTER_PID
  <2>1. PICK w \in Index : w = me
    BY <1>0
  <2>2. Held(w) /\ w \in Workers
    BY <2>1 DEF WorkerEcho, Worker, Held, WorkerInv
  <2> QED BY <2>1, <2>2 DEF MailInv, EchoTarget
<1>2. \A i : IsFirstLive(i, MASTER_PID) <=> i = 0
  <2>1. \A j \in Active : ~(j < 0) /\ (j # 0 => 0 < j)
    BY <1>0
  <2> QED BY <1>0, <2>1 DEF IsFirstLive, MasterLives
<1>3. CASE IpcSend(EchoTarget, letter[me].data)
  <2>1. PICK m : channel' = [channel EXCEPT ![0] = Append(@, m)]
    BY <1>1, <1>2, <1>3 DEF IpcSend
  <2>2. channel'[0] = Append(channel[0], m) /\ channel[0] \in Seq(Messages)
    BY <1>0, <2>1
  <2> QED BY <2>2
<1>4. CASE Refused(EchoTarget) /\ UNCHANGED vars
  <2>1. Len(channel[0]) >= SCHED_IPC_MAX_MESSAGES
    BY <1>0, <1>1, <1>2, <1>4 DEF Refused
  <2>2. channel[0] # << >>
    BY <1>0, <2>1, SchedulerConstants
  <2> QED BY <1>4, <2>2 DEF vars
<1> QED BY <1>3, <1>4 DEF WorkerEcho

\* A letter on its way stays on its way.
LEMMA StaysOnItsWay ==
  ASSUME SchedulerInv, LifecycleInv, WorkerInv, MailInv, MasterLives,
         Waiting, OnItsWay, Waiting', [LifecycleNext]_lvars
  PROVE  OnItsWay'
<1> USE DEF Waiting
<1>0. /\ 0 \in Index /\ me \in Active /\ me \in Index /\ Active \subseteq Index
      /\ at[0] = "msgrecv" /\ body[0] = "shell" /\ at'[0] = "msgrecv"
      /\ at \in [Index -> ShellPoints \cup DaemonPoints]
      /\ channel \in [Index -> Seq(Messages)]
      /\ Workers \subseteq Active
  BY LifecycleTypes, MailTypes DEF LifecycleInv, CodeOK
<1>1. ~Command /\ ~Bootstrap /\ ~BootstrapDone /\ ~TopYield
  BY <1>0 DEF Command, Bootstrap, BootstrapDone, TopYield, Reset, Shell,
              cmd_msgsend, cmd_kill, TopStart, TopQuit
<1>2. CASE WorkerEcho
  BY <1>2, EchoReachesShell DEF OnItsWay
<1>3. ASSUME UNCHANGED <<active_process_count, body>>,
             channel'[0] = channel[0],
             \A i \in Index : (channel[i] # << >> \/ at[i] = "echo")
                                => (channel'[i] # << >> \/ at'[i] = "echo")
      PROVE  OnItsWay'
  <2>1. Workers' = Workers
    BY <1>3 DEF Workers, Active
  <2>2. CASE channel[0] # << >>
    BY <1>3, <2>2 DEF OnItsWay
  <2>3. CASE channel[0] = << >>
    <3>1. PICK i \in Workers : /\ execution_state[i] # "DEAD"
                               /\ channel[i] # << >> \/ at[i] = "echo"
      BY <2>3 DEF OnItsWay, Held
    <3>2. execution_state'[i] # "DEAD"
      BY <1>0, <3>1, NobodyElseKills
    <3>3. channel'[i] # << >> \/ at'[i] = "echo"
      BY <1>0, <1>3, <3>1
    <3> QED BY <2>1, <3>2, <3>3 DEF OnItsWay, Held
  <2> QED BY <2>2, <2>3
<1>4. CASE Shell("msgrecv") /\ cmd_msgrecv
  <2>1. IpcReceiveBlock /\ Goto("msgrecv") /\ UNCHANGED body /\ me = 0
    BY <1>0, <1>4 DEF cmd_msgrecv, Shell, Goto
  <2>2. UNCHANGED <<channel, active_process_count, at>>
    BY <1>0, <2>1 DEF IpcReceiveBlock, ProcessTable, Goto
  <2> QED BY <1>3, <2>1, <2>2
<1>5. CASE WorkerReceive
  <2>1. me # 0 /\ UNCHANGED body
    BY <1>0, <1>5 DEF WorkerReceive, Worker
  <2>2. CASE IpcReceiveBlock /\ UNCHANGED at
    BY <1>3, <2>1, <2>2 DEF IpcReceiveBlock, ProcessTable
  <2>3. CASE IpcReceiveTake /\ Goto("echo")
    BY <1>0, <1>3, <2>1, <2>3 DEF IpcReceiveTake, ProcessTable, Goto
  <2> QED BY <1>5, <2>2, <2>3 DEF WorkerReceive
<1>6. CASE WorkerYield \/ AuditorYield \/ AuditorSleep
  <2>1. /\ UNCHANGED <<channel, active_process_count, body>>
        /\ at[me] # "echo" /\ \E point : at' = [at EXCEPT ![me] = point]
    BY <1>6 DEF WorkerYield, AuditorYield, AuditorSleep, Worker, Yield, Sleep, ProcessTable, Goto
  <2> QED BY <1>0, <1>3, <2>1
<1>7. CASE UNCHANGED lvars
  <2>1. UNCHANGED <<channel, active_process_count, body, at>>
    BY <1>7 DEF lvars, vars, lifecycle
  <2> QED BY <1>3, <2>1
<1>8. CASE Interrupt
  <2>1. UNCHANGED <<channel, active_process_count, body, at>>
    BY <1>8 DEF Interrupt, TimerInterrupt, Halted, ProcessTable, vars, lifecycle
  <2> QED BY <1>3, <2>1
<1> QED BY <1>1, <1>2, <1>4, <1>5, <1>6, <1>7, <1>8 DEF LifecycleNext, Machine

\* Whether a msgrecv returns is decided when it is called (cmd_msgrecv blocks
\* in scheduler_ipc_receive and no key is read): a letter on its way is not
\* lost before the shell has it, and with none the shell waits for ever.
THEOREM MsgrecvIsDecided == LifecycleSpec => MsgrecvDecided
<1>1. LifecycleInit => MasterLives
  <2>1. 0 \in Index
    BY SchedulerConstants DEF Index
  <2> QED BY <2>1 DEF LifecycleInit, Init, MasterLives
<1>2. SchedulerInv /\ LifecycleInv /\ MasterLives /\ [LifecycleNext]_lvars => MasterLives'
  BY NobodyElseKills
<1>3. LifecycleSpec => []MasterLives
  BY <1>1, <1>2, LifecycleInvariance, PTL DEF LifecycleSpec
<1>4. SchedulerInv /\ LifecycleInv /\ WorkerInv /\ MailInv /\ MasterLives /\ [LifecycleNext]_lvars
        => [Waiting => IF OnItsWay THEN Waiting' => OnItsWay'
                                   ELSE Waiting' /\ ~OnItsWay']_lvars
  BY StaysLost, StaysOnItsWay
<1> QED BY <1>3, <1>4, LettersInvariance, PTL DEF LifecycleSpec, MsgrecvDecided
=============================================================================
