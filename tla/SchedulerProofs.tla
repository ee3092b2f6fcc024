-------------------------- MODULE SchedulerProofs --------------------------
(***************************************************************************)
(* The safety of Scheduler for every number of slots, every priority range *)
(* and every set of inputs.                                                *)
(***************************************************************************)
EXTENDS Scheduler, TLAPS

\* What a caller of scheduler_yield may rely on: the states are the ones it
\* left, the tables keep their types, and the CPU goes to a runnable process
\* or to the master.
YieldResult(st) ==
  /\ execution_state' = st
  /\ running_process_index' \in Active
  /\ running_process_index' # 0 => st[running_process_index'] = "RUNNING"
  /\ kernel_elapsed_ticks' \in 0 .. TICK_MOD - 1
  /\ sleep_until_tick' \in [Index -> 0 .. TICK_MOD - 1]
  /\ dynamic_priority' \in [Index -> 0 .. SCHED_MAX_PRIORITY]
  /\ accumulation_cycles' \in [Index -> 0 .. SCHED_PRIORITY_AGING_LIMIT - 1]

\* The tick counter stays below its modulus (kernel_elapsed_ticks++).
LEMMA TickType ==
  ASSUME TypeOK
  PROVE  NextTick \in 0 .. TICK_MOD - 1
BY SchedulerConstants DEF TypeOK, NextTick

\* One pass of scheduler_apply_aging keeps priorities and counts in range.
LEMMA AgingType ==
  ASSUME TypeOK, NEW st, NEW i \in Index
  PROVE  /\ AgedPriority(st, i) \in 0 .. SCHED_MAX_PRIORITY
         /\ AgedCycles(st, i) \in 0 .. SCHED_PRIORITY_AGING_LIMIT - 1
<1>1. /\ dynamic_priority[i] \in 0 .. SCHED_MAX_PRIORITY
      /\ accumulation_cycles[i] \in 0 .. SCHED_PRIORITY_AGING_LIMIT - 1
      /\ SCHED_MAX_PRIORITY \in Nat
      /\ SCHED_PRIORITY_AGING_LIMIT \in Nat \ {0}
  BY SchedulerConstants DEF TypeOK
<1>2. AgedPriority(st, i) \in 0 .. SCHED_MAX_PRIORITY
  BY <1>1 DEF AgedPriority
<1>3. AgedCycles(st, i) \in 0 .. SCHED_PRIORITY_AGING_LIMIT - 1
  BY <1>1 DEF AgedCycles, PointDue
<1> QED BY <1>2, <1>3

\* The master's slot is always in use.
LEMMA MasterActive ==
  ASSUME TypeOK
  PROVE  0 \in Active
BY SchedulerConstants DEF TypeOK, Active, Index

\* scheduler_yield does what its callers rely on, whatever states and
\* deadlines they pass.
LEMMA YieldLemma ==
  ASSUME TypeOK,
         NEW st, NEW sl,
         st \in [Index -> ExecutionStates],
         sl \in [Index -> 0 .. TICK_MOD - 1],
         scheduler_yield(st, sl)
  PROVE  YieldResult(st)
<1>1. kernel_elapsed_ticks' \in 0 .. TICK_MOD - 1 /\ execution_state' = st
  BY TickType DEF scheduler_yield
<1>2. CASE active_process_count <= 1
  <2>1. running_process_index = 0
    BY <1>2, SchedulerConstants DEF TypeOK, Active, Index
  <2> QED BY <1>1, <1>2, <2>1, MasterActive
          DEF scheduler_yield, YieldResult, TypeOK
<1>3. CASE ~(active_process_count <= 1)
  <2>1. SelectAndSwitch(st, sl)
    BY <1>3 DEF scheduler_yield
  <2>2. PICK next \in Index :
          /\ SelectedNext(st, sl, next)
          /\ running_process_index' = next
          /\ sleep_until_tick' =
               [i \in Index |-> IF Eligible(st, sl, i) THEN 0 ELSE sl[i]]
          /\ dynamic_priority' =
               [i \in Index |-> IF i = next /\ Eligible(st, sl, i)
                                  THEN base_priority[i] ELSE AgedPriority(st, i)]
          /\ accumulation_cycles' =
               [i \in Index |-> IF i = next /\ Eligible(st, sl, i)
                                  THEN 0 ELSE AgedCycles(st, i)]
    BY <2>1 DEF SelectAndSwitch, ExpiredCleared
  <2>3. next \in Active /\ (next # 0 => st[next] = "RUNNING")
    BY <2>2, MasterActive DEF SelectedNext, Eligible
  <2>4. sleep_until_tick' \in [Index -> 0 .. TICK_MOD - 1]
    BY <2>2, SchedulerConstants
  <2>5. dynamic_priority' \in [Index -> 0 .. SCHED_MAX_PRIORITY]
    BY <2>2, AgingType DEF TypeOK
  <2>6. accumulation_cycles' \in [Index -> 0 .. SCHED_PRIORITY_AGING_LIMIT - 1]
    BY <2>2, AgingType, SchedulerConstants
  <2> QED BY <1>1, <2>2, <2>3, <2>4, <2>5, <2>6 DEF YieldResult
<1> QED BY <1>2, <1>3

-----------------------------------------------------------------------------
(***************************************************************************)
(* Type correctness.                                                       *)
(***************************************************************************)

\* The part of TypeOK that scheduler_yield does not touch.
TableOK ==
  /\ active_process_count \in 1 .. SYS_MAX_TASKS
  /\ global_process_identifier_seed = MASTER_PID + active_process_count - 1
  /\ task_id \in [Index -> Pids \cup {0}]
  /\ \A i \in Active : task_id[i] \in Pids
  /\ base_priority \in [Index -> 0 .. SCHED_MAX_PRIORITY]
  /\ critical \in [Index -> BOOLEAN]
  /\ waiting_on_pid \in [Index -> Pids \cup {0}]
  /\ pending_signals \in [Index -> SUBSET Signals]
  /\ channel \in [Index -> Seq(Messages)]
  /\ resume \in [Index -> {"run", "recv", "exit", "reset"}]

\* A step that yields with well-typed states and deadlines, and keeps the
\* rest well-typed, preserves the type invariant.
LEMMA YieldKeepsType ==
  ASSUME TypeOK,
         NEW st \in [Index -> ExecutionStates],
         NEW sl \in [Index -> 0 .. TICK_MOD - 1],
         scheduler_yield(st, sl),
         UNCHANGED active_process_count,
         TableOK'
  PROVE  TypeOK'
<1>1. YieldResult(st)
  BY YieldLemma
<1>2. running_process_index' \in Active'
  BY <1>1 DEF YieldResult, Active
<1> QED BY <1>1, <1>2 DEF YieldResult, TableOK, TypeOK

\* The same for a step after which the caller still has the CPU.
LEMMA NoSwitchKeepsType ==
  ASSUME TypeOK,
         NEW st \in [Index -> ExecutionStates],
         NoSwitch(st),
         UNCHANGED active_process_count,
         TableOK'
  PROVE  TypeOK'
<1>1. running_process_index' \in Active'
  BY DEF NoSwitch, TypeOK, Active
<1> QED BY <1>1 DEF NoSwitch, TableOK, TypeOK

\* The states a termination leaves are states.
LEMMA TerminationType ==
  ASSUME TypeOK, NEW i \in Index
  PROVE  /\ AfterTermination(i) \in [Index -> ExecutionStates]
         /\ WaitsAfterTermination(i) \in [Index -> Pids \cup {0}]
BY DEF TypeOK, AfterTermination, WaitsAfterTermination, ExecutionStates

\* TypeOK holds initially: scheduler_initialize fills the whole table.
LEMMA TypeInit ==
  ASSUME Init
  PROVE  TypeOK
<1>1. 0 \in Index
  BY SchedulerConstants DEF Index
<1>2. /\ active_process_count \in 1 .. SYS_MAX_TASKS
      /\ kernel_elapsed_ticks \in 0 .. TICK_MOD - 1
      /\ running_process_index \in Active
  BY <1>1, SchedulerConstants DEF Init, Active
<1>3. global_process_identifier_seed = MASTER_PID + active_process_count - 1
  BY SchedulerConstants DEF Init, Pids, MASTER_PID
<1>4. /\ task_id \in [Index -> Pids \cup {0}]
      /\ execution_state \in [Index -> ExecutionStates]
      /\ \A i \in Active : task_id[i] \in Pids
      /\ waiting_on_pid \in [Index -> Pids \cup {0}]
      /\ critical \in [Index -> BOOLEAN]
      /\ resume \in [Index -> {"run", "recv", "exit", "reset"}]
      /\ pending_signals \in [Index -> SUBSET Signals]
  <2>1. MASTER_PID \in Pids
    BY SchedulerConstants DEF Pids, MAX_PID, MASTER_PID
  <2>2. \A i \in Active : i = 0
    BY <1>1, SchedulerConstants DEF Init, Active, Index
  <2> QED BY <2>1, <2>2 DEF Init, ExecutionStates, Active
<1>5. /\ base_priority \in [Index -> 0 .. SCHED_MAX_PRIORITY]
      /\ dynamic_priority \in [Index -> 0 .. SCHED_MAX_PRIORITY]
      /\ accumulation_cycles \in [Index -> 0 .. SCHED_PRIORITY_AGING_LIMIT - 1]
      /\ sleep_until_tick \in [Index -> 0 .. TICK_MOD - 1]
  BY SchedulerConstants DEF Init
<1>6. channel \in [Index -> Seq(Messages)]
  BY DEF Init
<1> QED BY <1>2, <1>3, <1>4, <1>5, <1>6 DEF TypeOK

\* Every operation keeps the type invariant.
LEMMA TypeStep ==
  ASSUME TypeOK, [Next]_vars
  PROVE  TypeOK'
<1> USE DEF ProcessTable, table, me
<1>0. TableOK
  BY DEF TypeOK, TableOK
<1>1. CASE Yield
  <2>1. TableOK'
    BY <1>0, <1>1 DEF Yield, TableOK, Active
  <2> QED BY <1>1, <2>1, YieldKeepsType DEF Yield, TypeOK
<1>2. ASSUME NEW t \in SleepTicks, Sleep(t)
      PROVE  TypeOK'
  <2> DEFINE sl == [sleep_until_tick EXCEPT ![me] = (kernel_elapsed_ticks + t) % TICK_MOD]
  <2>1. TableOK'
    BY <1>0, <1>2 DEF Sleep, TableOK, Active
  <2>2. (kernel_elapsed_ticks + t) % TICK_MOD \in 0 .. TICK_MOD - 1
    BY SchedulerConstants DEF TypeOK
  <2>3. sl \in [Index -> 0 .. TICK_MOD - 1]
    BY <2>2 DEF TypeOK
  <2>4. scheduler_yield(execution_state, sl) /\ UNCHANGED active_process_count
    BY <1>2 DEF Sleep
  <2> HIDE DEF sl
  <2> QED BY <2>1, <2>3, <2>4, YieldKeepsType DEF TypeOK
<1>3. ASSUME NEW p \in Priorities, NEW c \in BOOLEAN, RegisterProcess(p, c)
      PROVE  TypeOK'
  <2> DEFINE new == active_process_count
  <2>1. /\ new \in Index
        /\ new \in Nat
        /\ active_process_count' = new + 1
        /\ active_process_count' \in 1 .. SYS_MAX_TASKS
    BY <1>3, SchedulerConstants DEF RegisterProcess, TypeOK, Index
  <2>2. /\ running_process_index' \in Active'
        /\ kernel_elapsed_ticks' \in 0 .. TICK_MOD - 1
    BY <1>3, <2>1 DEF RegisterProcess, TypeOK, Active, Index
  <2>3. /\ global_process_identifier_seed' = MASTER_PID + active_process_count' - 1
        /\ global_process_identifier_seed \in Pids
    BY <1>3, <2>1, SchedulerConstants DEF RegisterProcess, TypeOK, Pids, MAX_PID, MASTER_PID
  <2>4. /\ task_id' \in [Index -> Pids \cup {0}]
        /\ execution_state' \in [Index -> ExecutionStates]
        /\ waiting_on_pid' \in [Index -> Pids \cup {0}]
        /\ critical' \in [Index -> BOOLEAN]
        /\ resume' \in [Index -> {"run", "recv", "exit", "reset"}]
        /\ pending_signals' \in [Index -> SUBSET Signals]
    BY <1>3, <2>3 DEF RegisterProcess, generated_pid, TypeOK, ExecutionStates
  <2>5. \A i \in Active' : task_id'[i] \in Pids
    <3> SUFFICES ASSUME NEW i \in Active' PROVE task_id'[i] \in Pids
      OBVIOUS
    <3>1. CASE i = new
      BY <1>3, <2>1, <2>3, <3>1 DEF RegisterProcess, generated_pid, TypeOK
    <3>2. CASE i # new
      <4>1. i \in Active
        BY <2>1, <3>2 DEF Active, Index
      <4> QED BY <1>3, <3>2, <4>1 DEF RegisterProcess, TypeOK, Active
    <3> QED BY <3>1, <3>2
  <2>6. p \in 0 .. SCHED_MAX_PRIORITY
    BY SchedulerConstants
  <2>7. /\ base_priority' \in [Index -> 0 .. SCHED_MAX_PRIORITY]
        /\ dynamic_priority' \in [Index -> 0 .. SCHED_MAX_PRIORITY]
        /\ accumulation_cycles' \in [Index -> 0 .. SCHED_PRIORITY_AGING_LIMIT - 1]
        /\ sleep_until_tick' \in [Index -> 0 .. TICK_MOD - 1]
    <3>1. 0 \in 0 .. SCHED_PRIORITY_AGING_LIMIT - 1 /\ 0 \in 0 .. TICK_MOD - 1
      BY SchedulerConstants
    <3>2. /\ base_priority' = [base_priority EXCEPT ![new] = p]
          /\ dynamic_priority' = [dynamic_priority EXCEPT ![new] = p]
          /\ accumulation_cycles' = [accumulation_cycles EXCEPT ![new] = 0]
          /\ sleep_until_tick' = [sleep_until_tick EXCEPT ![new] = 0]
      BY <1>3 DEF RegisterProcess
    <3>3. /\ base_priority \in [Index -> 0 .. SCHED_MAX_PRIORITY]
          /\ dynamic_priority \in [Index -> 0 .. SCHED_MAX_PRIORITY]
          /\ accumulation_cycles \in [Index -> 0 .. SCHED_PRIORITY_AGING_LIMIT - 1]
          /\ sleep_until_tick \in [Index -> 0 .. TICK_MOD - 1]
      BY DEF TypeOK
    <3> QED BY <2>6, <3>1, <3>2, <3>3
  <2>8. channel' \in [Index -> Seq(Messages)]
    <3>1. channel' = [channel EXCEPT ![new] = << >>] /\ << >> \in Seq(Messages)
      BY <1>3 DEF RegisterProcess
    <3> QED BY <3>1 DEF TypeOK
  <2> QED BY <2>1, <2>2, <2>3, <2>4, <2>5, <2>7, <2>8 DEF TypeOK
<1>4. ASSUME NEW pid \in Pids, NEW sig \in Signals, SendSignal(pid, sig)
      PROVE  TypeOK'
  <2>1. PICK i \in Index :
          /\ pending_signals' = [pending_signals EXCEPT ![i] = @ \cup {sig}]
          /\ LET st == [execution_state EXCEPT ![i] = SignalledState(sig, @)]
             IN \/ scheduler_yield(st, sleep_until_tick)
                \/ NoSwitch(st)
    BY <1>4 DEF SendSignal
  <2> DEFINE st == [execution_state EXCEPT ![i] = SignalledState(sig, @)]
  <2>2. TableOK'
    BY <1>0, <1>4, <2>1 DEF SendSignal, TableOK, Active
  <2>3. st \in [Index -> ExecutionStates]
    BY DEF TypeOK, SignalledState, ExecutionStates
  <2>4. scheduler_yield(st, sleep_until_tick) \/ NoSwitch(st)
    BY <2>1
  <2>5. UNCHANGED active_process_count
    BY <1>4 DEF SendSignal
  <2> HIDE DEF st
  <2> QED BY <2>2, <2>3, <2>4, <2>5, YieldKeepsType, NoSwitchKeepsType DEF TypeOK
<1>5. CASE CheckPendingSignals
  <2>1. TableOK'
    BY <1>0, <1>5 DEF CheckPendingSignals, TableOK, Active
  <2> QED BY <1>5, <2>1, NoSwitchKeepsType DEF CheckPendingSignals, TypeOK
<1>6. ASSUME NEW pid \in Pids, NEW d \in Payloads, IpcSend(pid, d)
      PROVE  TypeOK'
  <2>1. PICK i \in Index :
          /\ channel' = [channel EXCEPT ![i] =
               Append(@, [sender_id |-> task_id[me], data |-> d])]
          /\ NoSwitch(WokenBySend(i))
    BY <1>6 DEF IpcSend
  <2>2. [sender_id |-> task_id[me], data |-> d] \in Messages
    BY DEF TypeOK, Messages, Active
  <2>3. TableOK'
    BY <1>0, <1>6, <2>1, <2>2 DEF IpcSend, TableOK, Active
  <2>4. WokenBySend(i) \in [Index -> ExecutionStates]
    BY DEF TypeOK, WokenBySend, ExecutionStates
  <2> QED BY <1>6, <2>1, <2>3, <2>4, NoSwitchKeepsType DEF IpcSend
<1>7. CASE IpcReceiveBlock
  <2>1. TableOK'
    BY <1>0, <1>7 DEF IpcReceiveBlock, TableOK, Active
  <2>2. [execution_state EXCEPT ![me] = "BLOCKED"] \in [Index -> ExecutionStates]
    BY DEF TypeOK, ExecutionStates
  <2> QED BY <1>7, <2>1, <2>2, YieldKeepsType DEF IpcReceiveBlock, TypeOK
<1>8. CASE IpcReceiveTake
  <2>1. me \in Index
    BY DEF TypeOK, Active
  <2>2. Tail(channel[me]) \in Seq(Messages)
    BY <1>8, <2>1 DEF IpcReceiveTake, TypeOK
  <2>3. TableOK'
    BY <1>0, <1>8, <2>2 DEF IpcReceiveTake, TableOK, Active
  <2> QED BY <1>8, <2>3, NoSwitchKeepsType DEF IpcReceiveTake, TypeOK
<1>9. ASSUME NEW pid \in Pids, TerminateProcess(pid)
       PROVE  TypeOK'
  <2>1. PICK i \in Index : /\ waiting_on_pid' = WaitsAfterTermination(i)
                           /\ NoSwitch(AfterTermination(i))
    BY <1>9 DEF TerminateProcess
  <2>2. TableOK'
    BY <1>0, <1>9, <2>1, TerminationType DEF TerminateProcess, TableOK, Active
  <2> QED BY <1>9, <2>1, <2>2, TerminationType, NoSwitchKeepsType DEF TerminateProcess
<1>10. ASSUME NEW then \in {"run", "exit"}, TerminateCurrent(then)
       PROVE  TypeOK'
  <2>1. PICK i \in Index :
          \/ /\ scheduler_yield(execution_state, sleep_until_tick)
             /\ UNCHANGED waiting_on_pid
          \/ /\ scheduler_yield(AfterTermination(i), sleep_until_tick)
             /\ waiting_on_pid' = WaitsAfterTermination(i)
    BY <1>10 DEF TerminateCurrent
  <2>2. TableOK'
    BY <1>0, <1>10, <2>1, TerminationType DEF TerminateCurrent, TableOK, Active
  <2> QED BY <1>10, <2>1, <2>2, TerminationType, YieldKeepsType DEF TerminateCurrent, TypeOK
<1>11. ASSUME NEW pid \in Pids, WaitPid(pid)
       PROVE  TypeOK'
  <2>1. TableOK'
    BY <1>0, <1>11 DEF WaitPid, TableOK, Active
  <2>2. [execution_state EXCEPT ![me] = "BLOCKED"] \in [Index -> ExecutionStates]
    BY DEF TypeOK, ExecutionStates
  <2> QED BY <1>11, <2>1, <2>2, YieldKeepsType DEF WaitPid, TypeOK
<1>12. CASE UNCHANGED vars
  BY <1>12 DEF vars, TypeOK, Active
<1>13. CASE Halted
  BY <1>12, <1>13 DEF Halted
<1>14. CASE TimerInterrupt
  <2>1. TableOK'
    BY <1>0, <1>14 DEF TimerInterrupt, TableOK, Active
  <2> QED BY <1>14, <2>1, NoSwitchKeepsType DEF TimerInterrupt, TypeOK
<1> QED
  BY <1>1, <1>2, <1>3, <1>4, <1>5, <1>6, <1>7, <1>8, <1>9, <1>10,
     <1>11, <1>12, <1>13, <1>14 DEF Next

-----------------------------------------------------------------------------
(***************************************************************************)
(* Pids.                                                                   *)
(***************************************************************************)

\* Pids are drawn in increasing order, after the master took 100.
PidsDrawnInOrder ==
  /\ task_id[0] = MASTER_PID
  /\ \A i \in Active \ {0} : task_id[i] < global_process_identifier_seed

PidInv == PidsDrawnInOrder /\ OnlyMasterPidShared

\* PidInv holds when only the master exists.
LEMMA PidInit ==
  ASSUME Init
  PROVE  PidInv
<1>1. 0 \in Index /\ \A i \in Active : i = 0
  BY SchedulerConstants DEF Init, Active, Index
<1> QED BY <1>1 DEF Init, PidInv, PidsDrawnInOrder, OnlyMasterPidShared

\* A registration takes the seed, above every pid but possibly the master's;
\* nothing else touches pids.
LEMMA PidStep ==
  ASSUME TypeOK, PidInv, [Next]_vars
  PROVE  PidInv'
<1> USE DEF ProcessTable, table
<1>1. ASSUME NEW p \in Priorities, NEW c \in BOOLEAN, RegisterProcess(p, c)
      PROVE  PidInv'
  <2> DEFINE new == active_process_count
             seed == global_process_identifier_seed
  <2>1. /\ new \in Index /\ new # 0 /\ new \in Nat
        /\ active_process_count' = new + 1
        /\ seed \in Nat /\ seed' = seed + 1
        /\ task_id' = [task_id EXCEPT ![new] = seed]
        /\ task_id \in [Index -> Pids \cup {0}]
    <3>1. /\ active_process_count' = new + 1
          /\ seed' = seed + 1
          /\ task_id' = [task_id EXCEPT ![new] = seed]
          /\ new < SYS_MAX_TASKS
      BY <1>1 DEF RegisterProcess, generated_pid
    <3>2. new \in Index /\ new # 0 /\ new \in Nat
      BY <3>1, SchedulerConstants DEF TypeOK, Index
    <3>3. seed \in Nat
      BY SchedulerConstants DEF TypeOK, MASTER_PID
    <3> QED BY <3>1, <3>2, <3>3 DEF TypeOK
  <2>2. /\ \A i \in Active' : i \in Active \/ i = new
        /\ \A i \in Active : i \in Nat /\ i < new
    BY <2>1 DEF Active, Index
  <2>3. \A i \in Active : task_id'[i] = task_id[i]
    BY <2>1, <2>2 DEF Active
  <2>4. task_id'[new] = seed
    BY <2>1
  <2>5. task_id'[0] = MASTER_PID
    BY <2>3, MasterActive DEF PidInv, PidsDrawnInOrder
  <2>6. \A i \in Active : task_id[i] \in Nat
    BY SchedulerConstants DEF TypeOK, Pids, MASTER_PID
  <2>7. ASSUME NEW i \in Active' \ {0}
        PROVE  task_id'[i] < seed'
    BY <2>1, <2>2, <2>3, <2>4, <2>6 DEF PidInv, PidsDrawnInOrder
  <2>8. ASSUME NEW i \in Active', NEW j \in Active', i < j, task_id'[i] = task_id'[j]
        PROVE  i = 0 /\ task_id'[j] = MASTER_PID
    <3>1. CASE j = new
      <4>1. i \in Active
        BY <2>1, <2>2, <2>8, <3>1
      <4>2. task_id[i] = seed
        BY <2>3, <2>4, <2>8, <3>1, <4>1
      <4>3. i = 0
        BY <2>1, <2>6, <4>1, <4>2 DEF PidInv, PidsDrawnInOrder
      <4> QED BY <2>5, <2>8, <4>3
    <3>2. CASE j # new
      <4>1. j \in Active /\ i \in Active
        BY <2>1, <2>2, <2>8, <3>2
      <4> QED BY <2>3, <2>8, <4>1 DEF PidInv, OnlyMasterPidShared
    <3> QED BY <3>1, <3>2
  <2> QED BY <2>5, <2>7, <2>8 DEF PidInv, PidsDrawnInOrder, OnlyMasterPidShared
<1>2. CASE UNCHANGED <<active_process_count, global_process_identifier_seed, task_id>>
  BY <1>2 DEF PidInv, PidsDrawnInOrder, OnlyMasterPidShared, Active
<1>3. \/ \E p \in Priorities, c \in BOOLEAN : RegisterProcess(p, c)
      \/ UNCHANGED <<active_process_count, global_process_identifier_seed, task_id>>
  BY DEF Next, vars, Yield, Sleep, SendSignal, CheckPendingSignals, IpcSend,
         IpcReceiveBlock, IpcReceiveTake, TerminateProcess, TerminateCurrent,
         Halted, WaitPid, TimerInterrupt
<1> QED BY <1>1, <1>2, <1>3

-----------------------------------------------------------------------------
(***************************************************************************)
(* What a step does to the other processes.                                *)
(***************************************************************************)

\* Besides registering, an operation changes neither the table nor where
\* another process continues.
LEMMA OthersKeepPlace ==
  ASSUME TypeOK, Next
  PROVE  \/ \E p \in Priorities, c \in BOOLEAN : RegisterProcess(p, c)
         \/ /\ UNCHANGED <<active_process_count, table>>
            /\ \A i \in Index \ {me} : resume'[i] = resume[i]
BY DEF Next, vars, ProcessTable, Yield, Sleep, SendSignal,
       CheckPendingSignals, IpcSend, IpcReceiveBlock, IpcReceiveTake,
       TerminateProcess, TerminateCurrent, Halted, WaitPid, TimerInterrupt, TypeOK

\* The place a registered process starts from.
LEMMA RegisterEffect ==
  ASSUME TypeOK, NEW p, NEW c, RegisterProcess(p, c)
  PROVE  /\ active_process_count \in Index
         /\ active_process_count # 0
         /\ Active' = Active \cup {active_process_count}
         /\ active_process_count \notin Active
         /\ me' = me
         /\ execution_state' = [execution_state EXCEPT ![active_process_count] = "RUNNING"]
         /\ channel' = [channel EXCEPT ![active_process_count] = << >>]
         /\ waiting_on_pid' = [waiting_on_pid EXCEPT ![active_process_count] = 0]
         /\ resume' = [resume EXCEPT ![active_process_count] = "run"]
         /\ pending_signals' = [pending_signals EXCEPT ![active_process_count] = {}]
         /\ critical' = [critical EXCEPT ![active_process_count] = c]
         /\ task_id' = [task_id EXCEPT ![active_process_count] = global_process_identifier_seed]
<1>1. active_process_count < SYS_MAX_TASKS /\ active_process_count' = active_process_count + 1
  BY DEF RegisterProcess
<1>2. active_process_count \in Index /\ active_process_count # 0
  BY <1>1, SchedulerConstants DEF TypeOK, Index
<1>3. Active' = Active \cup {active_process_count} /\ active_process_count \notin Active
  BY <1>1, <1>2 DEF Active, Index
<1> QED BY <1>2, <1>3 DEF RegisterProcess, generated_pid, me

\* A dead process other than the master and the one that has the CPU stays
\* dead and is not selected, whatever operation is executed.
LEMMA DeadStep ==
  ASSUME TypeOK, [Next]_vars,
         NEW k \in Active, k # 0, k # me, execution_state[k] = "DEAD"
  PROVE  execution_state'[k] = "DEAD" /\ me' # k
<1> USE DEF ProcessTable, table, me
<1>0. /\ k \in Index
      /\ running_process_index \in Index
      /\ execution_state \in [Index -> ExecutionStates]
      /\ sleep_until_tick \in [Index -> 0 .. TICK_MOD - 1]
  BY DEF TypeOK, Active
<1>1. ASSUME NEW st \in [Index -> ExecutionStates],
             NEW sl \in [Index -> 0 .. TICK_MOD - 1],
             st[k] = "DEAD", scheduler_yield(st, sl)
      PROVE  execution_state'[k] = "DEAD" /\ me' # k
  BY <1>1, YieldLemma DEF YieldResult
<1>2. ASSUME NEW st, st[k] = "DEAD", NoSwitch(st)
      PROVE  execution_state'[k] = "DEAD" /\ me' # k
  BY <1>2 DEF NoSwitch
<1>3. ASSUME NEW i \in Index
      PROVE  /\ AfterTermination(i)[k] = "DEAD"
             /\ AfterTermination(i) \in [Index -> ExecutionStates]
  BY <1>0, TerminationType DEF AfterTermination, Released, WaitsFor
<1>4. /\ [execution_state EXCEPT ![me] = "BLOCKED"] \in [Index -> ExecutionStates]
      /\ [execution_state EXCEPT ![me] = "BLOCKED"][k] = "DEAD"
  BY <1>0 DEF ExecutionStates
<1>5. CASE Yield
  BY <1>0, <1>1, <1>5 DEF Yield
<1>6. ASSUME NEW t \in SleepTicks, Sleep(t)
      PROVE  execution_state'[k] = "DEAD" /\ me' # k
  <2> DEFINE sl == [sleep_until_tick EXCEPT ![me] = (kernel_elapsed_ticks + t) % TICK_MOD]
  <2>1. (kernel_elapsed_ticks + t) % TICK_MOD \in 0 .. TICK_MOD - 1
    BY SchedulerConstants DEF TypeOK
  <2>2. sl \in [Index -> 0 .. TICK_MOD - 1]
    BY <1>0, <2>1
  <2>3. scheduler_yield(execution_state, sl)
    BY <1>6 DEF Sleep
  <2> HIDE DEF sl
  <2> QED BY <1>0, <1>1, <2>2, <2>3
<1>7. ASSUME NEW p \in Priorities, NEW c \in BOOLEAN, RegisterProcess(p, c)
      PROVE  execution_state'[k] = "DEAD" /\ me' # k
  BY <1>0, <1>7, RegisterEffect
<1>8. ASSUME NEW pid \in Pids, NEW sig \in Signals, SendSignal(pid, sig)
      PROVE  execution_state'[k] = "DEAD" /\ me' # k
  <2>1. PICK i \in Index :
          /\ IsFirstLive(i, pid)
          /\ LET st == [execution_state EXCEPT ![i] = SignalledState(sig, @)]
             IN \/ scheduler_yield(st, sleep_until_tick)
                \/ NoSwitch(st)
    BY <1>8 DEF SendSignal
  <2> DEFINE st == [execution_state EXCEPT ![i] = SignalledState(sig, @)]
  <2>2. i # k
    BY <2>1 DEF IsFirstLive
  <2>3. st \in [Index -> ExecutionStates] /\ st[k] = "DEAD"
    BY <1>0, <2>2 DEF SignalledState, ExecutionStates
  <2>4. scheduler_yield(st, sleep_until_tick) \/ NoSwitch(st)
    BY <2>1
  <2> HIDE DEF st
  <2> QED BY <1>0, <1>1, <1>2, <2>3, <2>4
<1>9. CASE CheckPendingSignals \/ TimerInterrupt
  BY <1>0, <1>2, <1>9 DEF CheckPendingSignals, TimerInterrupt
<1>10. ASSUME NEW pid \in Pids, NEW d \in Payloads, IpcSend(pid, d)
       PROVE  execution_state'[k] = "DEAD" /\ me' # k
  <2>1. PICK i \in Index : NoSwitch(WokenBySend(i))
    BY <1>10 DEF IpcSend
  <2>2. WokenBySend(i)[k] = "DEAD"
    BY <1>0 DEF WokenBySend
  <2> QED BY <1>2, <2>1, <2>2
<1>11. CASE IpcReceiveBlock
  BY <1>0, <1>1, <1>4, <1>11 DEF IpcReceiveBlock
<1>12. CASE IpcReceiveTake
  BY <1>0, <1>2, <1>12 DEF IpcReceiveTake
<1>13. ASSUME NEW pid \in Pids, TerminateProcess(pid)
       PROVE  execution_state'[k] = "DEAD" /\ me' # k
  BY <1>2, <1>3, <1>13 DEF TerminateProcess
<1>14. ASSUME NEW then \in {"run", "exit"}, TerminateCurrent(then)
       PROVE  execution_state'[k] = "DEAD" /\ me' # k
  BY <1>0, <1>1, <1>3, <1>14 DEF TerminateCurrent
<1>15. ASSUME NEW pid \in Pids, WaitPid(pid)
       PROVE  execution_state'[k] = "DEAD" /\ me' # k
  BY <1>0, <1>1, <1>4, <1>15 DEF WaitPid
<1>16. CASE UNCHANGED vars \/ Halted
  BY <1>16 DEF vars, Halted
<1> QED
  BY <1>5, <1>6, <1>7, <1>8, <1>9, <1>10, <1>11, <1>12, <1>13, <1>14,
     <1>15, <1>16 DEF Next

-----------------------------------------------------------------------------
(***************************************************************************)
(* No lost wakeup.                                                         *)
(***************************************************************************)

\* What every operation does to the four fields NoLostWakeup reads, the
\* yields abstracted to the states they pass.
LEMMA WakeupFields ==
  ASSUME TypeOK, NEW st, NEW sl, scheduler_yield(st, sl) \/ NoSwitch(st)
  PROVE  execution_state' = st
BY DEF scheduler_yield, NoSwitch

\* Every operation keeps NoLostWakeup: a sender wakes the receiver in the
\* same step that fills the channel, a receiver blocks only after it found the
\* channel empty, and no interrupt reaches the master, the only process that
\* may have the CPU while it is blocked.
LEMMA WakeupStep ==
  ASSUME TypeOK, NoLostWakeup, OnlyMasterOverrun, [Next]_vars
  PROVE  NoLostWakeup'
<1> USE DEF ProcessTable, table, me
<1>0. /\ running_process_index \in Index
      /\ Active \subseteq Index
      /\ execution_state \in [Index -> ExecutionStates]
      /\ waiting_on_pid \in [Index -> Pids \cup {0}]
      /\ channel \in [Index -> Seq(Messages)]
      /\ resume \in [Index -> {"run", "recv", "exit", "reset"}]
  BY DEF TypeOK, Active
<1>1. ASSUME NEW p \in Priorities, NEW c \in BOOLEAN, RegisterProcess(p, c)
      PROVE  NoLostWakeup'
  <2> DEFINE new == active_process_count
  <2>1. /\ new \in Index /\ new \notin Active /\ Active' = Active \cup {new}
        /\ execution_state' = [execution_state EXCEPT ![new] = "RUNNING"]
        /\ channel' = [channel EXCEPT ![new] = << >>]
        /\ waiting_on_pid' = [waiting_on_pid EXCEPT ![new] = 0]
        /\ resume' = [resume EXCEPT ![new] = "run"]
    BY <1>1, RegisterEffect
  <2> HIDE DEF new
  <2> QED BY <1>0, <2>1 DEF NoLostWakeup
<1>2. ASSUME UNCHANGED active_process_count,
             \A i \in Active :
               execution_state'[i] = "BLOCKED" /\ waiting_on_pid'[i] = 0
                 => channel'[i] = << >> /\ resume'[i] = "recv"
      PROVE  NoLostWakeup'
  BY <1>2 DEF NoLostWakeup, Active
<1>3. CASE UNCHANGED <<active_process_count, execution_state, waiting_on_pid, channel, resume>>
  BY <1>2, <1>3 DEF NoLostWakeup
<1>4. CASE Yield \/ (\E t \in SleepTicks : Sleep(t))
           \/ CheckPendingSignals \/ Halted \/ UNCHANGED vars
  BY <1>3, <1>4, WakeupFields
     DEF Yield, Sleep, CheckPendingSignals, Halted, vars
<1>5. ASSUME NEW pid \in Pids, NEW sig \in Signals, SendSignal(pid, sig)
      PROVE  NoLostWakeup'
  <2>1. PICK i \in Index :
          LET st == [execution_state EXCEPT ![i] = SignalledState(sig, @)]
          IN scheduler_yield(st, sleep_until_tick) \/ NoSwitch(st)
    BY <1>5 DEF SendSignal
  <2>2. execution_state' = [execution_state EXCEPT ![i] = SignalledState(sig, @)]
    BY <2>1, WakeupFields
  <2>3. \A j \in Active : execution_state'[j] = "BLOCKED" => execution_state[j] = "BLOCKED"
    BY <1>0, <2>2 DEF SignalledState
  <2>4. UNCHANGED <<active_process_count, waiting_on_pid, channel, resume>>
    BY <1>5 DEF SendSignal
  <2> QED BY <1>2, <2>3, <2>4 DEF NoLostWakeup
<1>6. ASSUME NEW pid \in Pids, NEW d \in Payloads, IpcSend(pid, d)
      PROVE  NoLostWakeup'
  <2>1. PICK i \in Index :
          /\ channel' = [channel EXCEPT ![i] =
               Append(@, [sender_id |-> task_id[me], data |-> d])]
          /\ execution_state' = WokenBySend(i)
    BY <1>6, WakeupFields DEF IpcSend
  <2>2. UNCHANGED <<active_process_count, waiting_on_pid, resume>>
    BY <1>6 DEF IpcSend
  <2>3. ASSUME NEW j \in Active, execution_state'[j] = "BLOCKED", waiting_on_pid'[j] = 0
        PROVE  channel'[j] = << >> /\ resume'[j] = "recv"
    <3>1. j # i /\ execution_state[j] = "BLOCKED"
      BY <1>0, <2>1, <2>2, <2>3 DEF WokenBySend
    <3>2. channel'[j] = channel[j]
      BY <1>0, <2>1, <3>1
    <3> QED BY <2>2, <2>3, <3>1, <3>2 DEF NoLostWakeup
  <2> QED BY <1>2, <2>2, <2>3
<1>7. CASE IpcReceiveBlock
  <2>1. /\ execution_state' = [execution_state EXCEPT ![me] = "BLOCKED"]
        /\ waiting_on_pid' = [waiting_on_pid EXCEPT ![me] = 0]
        /\ resume' = [resume EXCEPT ![me] = "recv"]
        /\ channel[me] = << >>
        /\ UNCHANGED <<active_process_count, channel>>
    BY <1>7, WakeupFields DEF IpcReceiveBlock
  <2> QED BY <1>0, <1>2, <2>1 DEF NoLostWakeup
<1>8. CASE IpcReceiveTake
  <2>1. /\ channel[me] # << >>
        /\ channel' = [channel EXCEPT ![me] = Tail(@)]
        /\ resume' = [resume EXCEPT ![me] = "run"]
        /\ UNCHANGED <<active_process_count, execution_state, waiting_on_pid>>
    BY <1>8, WakeupFields DEF IpcReceiveTake
  <2>2. ASSUME NEW j \in Active, execution_state'[j] = "BLOCKED", waiting_on_pid'[j] = 0
        PROVE  channel'[j] = << >> /\ resume'[j] = "recv"
    <3>1. j # me
      BY <2>1, <2>2 DEF NoLostWakeup
    <3>2. channel'[j] = channel[j] /\ resume'[j] = resume[j]
      BY <1>0, <2>1, <3>1
    <3> QED BY <2>1, <2>2, <3>2 DEF NoLostWakeup
  <2> QED BY <1>2, <2>1, <2>2
<1>9. ASSUME NEW i \in Index,
             execution_state' = AfterTermination(i),
             waiting_on_pid' = WaitsAfterTermination(i),
             UNCHANGED <<active_process_count, channel>>,
             \A j \in Active : resume'[j] = resume[j] \/ (j = me /\ InOwnCode)
      PROVE  NoLostWakeup'
  <2>1. ASSUME NEW j \in Active, execution_state'[j] = "BLOCKED", waiting_on_pid'[j] = 0
        PROVE  execution_state[j] = "BLOCKED" /\ waiting_on_pid[j] = 0
    BY <1>0, <1>9, <2>1 DEF AfterTermination, WaitsAfterTermination
  <2> QED BY <1>2, <1>9, <2>1 DEF NoLostWakeup, InOwnCode
<1>10. ASSUME NEW pid \in Pids, TerminateProcess(pid)
       PROVE  NoLostWakeup'
  BY <1>9, <1>10, WakeupFields DEF TerminateProcess
<1>11. ASSUME NEW then \in {"run", "exit"}, TerminateCurrent(then)
       PROVE  NoLostWakeup'
  <2>1. /\ \A j \in Active : resume'[j] = resume[j] \/ (j = me /\ InOwnCode)
        /\ UNCHANGED <<active_process_count, channel>>
    BY <1>0, <1>11 DEF TerminateCurrent
  <2>2. CASE UNCHANGED <<execution_state, waiting_on_pid>>
    BY <1>2, <2>1, <2>2 DEF NoLostWakeup, InOwnCode
  <2>3. \/ UNCHANGED <<execution_state, waiting_on_pid>>
        \/ \E i \in Index : /\ execution_state' = AfterTermination(i)
                            /\ waiting_on_pid' = WaitsAfterTermination(i)
    BY <1>11, WakeupFields DEF TerminateCurrent
  <2> QED BY <1>9, <2>1, <2>2, <2>3
<1>12. ASSUME NEW pid \in Pids, WaitPid(pid)
       PROVE  NoLostWakeup'
  <2>1. /\ execution_state' = [execution_state EXCEPT ![me] = "BLOCKED"]
        /\ waiting_on_pid' = [waiting_on_pid EXCEPT ![me] = pid]
        /\ UNCHANGED <<active_process_count, channel, resume>>
    BY <1>12, WakeupFields DEF WaitPid
  <2>2. pid # 0
    BY SchedulerConstants DEF Pids, MASTER_PID
  <2> QED BY <1>0, <1>2, <2>1, <2>2 DEF NoLostWakeup
<1>13. CASE TimerInterrupt
  <2>1. /\ execution_state' = execution_state
        /\ resume' = [resume EXCEPT ![me] = "reset"]
        /\ UNCHANGED <<active_process_count, waiting_on_pid, channel>>
    BY <1>13, WakeupFields DEF TimerInterrupt
  <2>2. execution_state[me] # "BLOCKED"
    BY <1>13 DEF TimerInterrupt, InterruptsOn, OnlyMasterOverrun
  <2>3. \A j \in Active : execution_state[j] = "BLOCKED" => resume'[j] = resume[j]
    BY <1>0, <2>1, <2>2
  <2> QED BY <1>2, <2>1, <2>3 DEF NoLostWakeup
<1> QED BY <1>1, <1>4, <1>5, <1>6, <1>7, <1>8, <1>10, <1>11, <1>12, <1>13 DEF Next

-----------------------------------------------------------------------------
(***************************************************************************)
(* Who has the CPU.                                                        *)
(***************************************************************************)

\* The state of the process that keeps the CPU is never made BLOCKED, and
\* STOPPED only with a yield.
LEMMA OverrunStep ==
  ASSUME TypeOK, OnlyMasterOverrun, [Next]_vars
  PROVE  OnlyMasterOverrun'
<1> USE DEF ProcessTable, table, me
<1>0. /\ running_process_index \in Index
      /\ execution_state \in [Index -> ExecutionStates]
      /\ sleep_until_tick \in [Index -> 0 .. TICK_MOD - 1]
  BY DEF TypeOK, Active
<1>1. ASSUME NEW st \in [Index -> ExecutionStates],
             NEW sl \in [Index -> 0 .. TICK_MOD - 1], scheduler_yield(st, sl)
      PROVE  OnlyMasterOverrun'
  BY <1>1, YieldLemma DEF YieldResult, OnlyMasterOverrun
<1>2. ASSUME NEW st, NoSwitch(st),
             st[me] \in {execution_state[me], "RUNNING", "DEAD"}
      PROVE  OnlyMasterOverrun'
  BY <1>2 DEF NoSwitch, OnlyMasterOverrun
<1>3. ASSUME NEW i \in Index
      PROVE  /\ AfterTermination(i)[me] \in {execution_state[me], "RUNNING", "DEAD"}
             /\ AfterTermination(i) \in [Index -> ExecutionStates]
  BY <1>0, TerminationType DEF AfterTermination
<1>4. [execution_state EXCEPT ![me] = "BLOCKED"] \in [Index -> ExecutionStates]
  BY <1>0 DEF ExecutionStates
<1>5. CASE Yield
  BY <1>0, <1>1, <1>5 DEF Yield
<1>6. ASSUME NEW t \in SleepTicks, Sleep(t)
      PROVE  OnlyMasterOverrun'
  <2> DEFINE sl == [sleep_until_tick EXCEPT ![me] = (kernel_elapsed_ticks + t) % TICK_MOD]
  <2>1. (kernel_elapsed_ticks + t) % TICK_MOD \in 0 .. TICK_MOD - 1
    BY SchedulerConstants DEF TypeOK
  <2>2. sl \in [Index -> 0 .. TICK_MOD - 1]
    BY <1>0, <2>1
  <2>3. scheduler_yield(execution_state, sl)
    BY <1>6 DEF Sleep
  <2> HIDE DEF sl
  <2> QED BY <1>0, <1>1, <2>2, <2>3
<1>7. ASSUME NEW p \in Priorities, NEW c \in BOOLEAN, RegisterProcess(p, c)
      PROVE  OnlyMasterOverrun'
  BY <1>0, <1>7, RegisterEffect DEF OnlyMasterOverrun
<1>8. ASSUME NEW pid \in Pids, NEW sig \in Signals, SendSignal(pid, sig)
      PROVE  OnlyMasterOverrun'
  <2>1. PICK i \in Index :
          LET st == [execution_state EXCEPT ![i] = SignalledState(sig, @)]
          IN IF i = me /\ sig \in {"SIGKILL", "SIGSTOP"}
               THEN scheduler_yield(st, sleep_until_tick)
               ELSE NoSwitch(st)
    BY <1>8 DEF SendSignal
  <2> DEFINE st == [execution_state EXCEPT ![i] = SignalledState(sig, @)]
  <2>2. st \in [Index -> ExecutionStates]
    BY <1>0 DEF SignalledState, ExecutionStates
  <2>3. CASE i = me /\ sig \in {"SIGKILL", "SIGSTOP"}
    BY <1>0, <1>1, <2>1, <2>2, <2>3
  <2>4. CASE ~(i = me /\ sig \in {"SIGKILL", "SIGSTOP"})
    <3>1. st[me] \in {execution_state[me], "RUNNING", "DEAD"}
      BY <1>0, <2>4 DEF SignalledState
    <3>2. NoSwitch(st)
      BY <2>1, <2>4
    <3> HIDE DEF st
    <3> QED BY <1>2, <3>1, <3>2
  <2> QED BY <2>3, <2>4
<1>9. ASSUME NEW pid \in Pids, NEW d \in Payloads, IpcSend(pid, d)
      PROVE  OnlyMasterOverrun'
  <2>1. PICK i \in Index : NoSwitch(WokenBySend(i))
    BY <1>9 DEF IpcSend
  <2>2. WokenBySend(i)[me] \in {execution_state[me], "RUNNING", "DEAD"}
    BY <1>0 DEF WokenBySend
  <2> QED BY <1>2, <2>1, <2>2
<1>10. CASE CheckPendingSignals \/ IpcReceiveTake \/ TimerInterrupt
  BY <1>2, <1>10 DEF CheckPendingSignals, IpcReceiveTake, TimerInterrupt
<1>11. CASE IpcReceiveBlock \/ \E pid \in Pids : WaitPid(pid)
  BY <1>0, <1>1, <1>4, <1>11 DEF IpcReceiveBlock, WaitPid
<1>12. ASSUME NEW pid \in Pids, TerminateProcess(pid)
       PROVE  OnlyMasterOverrun'
  BY <1>2, <1>3, <1>12 DEF TerminateProcess
<1>13. ASSUME NEW then \in {"run", "exit"}, TerminateCurrent(then)
       PROVE  OnlyMasterOverrun'
  BY <1>0, <1>1, <1>3, <1>13 DEF TerminateCurrent
<1>14. CASE UNCHANGED vars \/ Halted
  BY <1>14 DEF vars, Halted, OnlyMasterOverrun
<1> QED BY <1>5, <1>6, <1>7, <1>8, <1>9, <1>10, <1>11, <1>12, <1>13, <1>14 DEF Next

-----------------------------------------------------------------------------
(***************************************************************************)
(* The hlt loop of scheduler_exit_stub.                                    *)
(***************************************************************************)

\* A process whose function returned is protected, or dead and without the
\* CPU; the master's never returns.
HangInv ==
  /\ resume[0] # "exit"
  /\ \A i \in Active : resume[i] = "exit" =>
       Protected(i) \/ (execution_state[i] = "DEAD" /\ i # me)

\* Every operation keeps HangInv: a pid other than 100 finds its own process,
\* so the process that returns is the one that dies, and the dead stay dead.
LEMMA HangStep ==
  ASSUME TypeOK, PidInv, HangInv, [Next]_vars
  PROVE  HangInv'
<1> USE DEF ProcessTable, table, me
<1>0. /\ running_process_index \in Active
      /\ Active \subseteq Index
      /\ 0 \in Active
      /\ execution_state \in [Index -> ExecutionStates]
      /\ sleep_until_tick \in [Index -> 0 .. TICK_MOD - 1]
      /\ resume \in [Index -> {"run", "recv", "exit", "reset"}]
      /\ task_id \in [Index -> Pids \cup {0}]
      /\ critical \in [Index -> BOOLEAN]
  BY MasterActive DEF TypeOK, Active
<1>1. ASSUME NEW p \in Priorities, NEW c \in BOOLEAN, RegisterProcess(p, c)
      PROVE  HangInv'
  <2> DEFINE new == active_process_count
  <2>1. /\ new \in Index /\ new # 0 /\ new \notin Active
        /\ Active' = Active \cup {new}
        /\ me' = me
        /\ execution_state' = [execution_state EXCEPT ![new] = "RUNNING"]
        /\ resume' = [resume EXCEPT ![new] = "run"]
        /\ critical' = [critical EXCEPT ![new] = c]
        /\ task_id' = [task_id EXCEPT ![new] = global_process_identifier_seed]
    BY <1>1, RegisterEffect
  <2>2. resume'[0] # "exit"
    BY <1>0, <2>1 DEF HangInv
  <2>3. ASSUME NEW i \in Active', resume'[i] = "exit"
        PROVE  Protected(i)' \/ (execution_state'[i] = "DEAD" /\ i # me')
    <3>1. i # new /\ i \in Active
      BY <1>0, <2>1, <2>3
    <3>2. /\ resume'[i] = resume[i] /\ task_id'[i] = task_id[i]
          /\ critical'[i] = critical[i] /\ execution_state'[i] = execution_state[i]
      BY <1>0, <2>1, <3>1
    <3> QED BY <2>1, <2>3, <3>1, <3>2 DEF HangInv, Protected
  <2> QED BY <2>2, <2>3 DEF HangInv
<1>2. CASE ~(\E p \in Priorities, c \in BOOLEAN : RegisterProcess(p, c)) /\ Next
  <2>1. /\ UNCHANGED <<active_process_count, table>>
        /\ \A i \in Index \ {me} : resume'[i] = resume[i]
    BY <1>2, OthersKeepPlace
  <2>2. Active' = Active /\ \A i : Protected(i)' = Protected(i)
    BY <2>1 DEF Active, Protected
  <2>3. ASSUME NEW i \in Active, i # me, resume'[i] = "exit"
        PROVE  Protected(i)' \/ (execution_state'[i] = "DEAD" /\ i # me')
    <3>1. resume[i] = "exit" /\ i # 0
      BY <1>0, <2>1, <2>3 DEF HangInv
    <3> QED BY <2>2, <2>3, <3>1, DeadStep DEF HangInv
  <2>4. resume'[me] = "exit" =>
          resume[me] = "exit" \/ TerminateCurrent("exit")
    BY <1>0, <1>2 DEF Next, vars, Yield, Sleep, SendSignal,
       CheckPendingSignals, IpcSend, IpcReceiveBlock, IpcReceiveTake,
       TerminateProcess, TerminateCurrent, Halted, WaitPid, TimerInterrupt
  <2>5. CASE resume[me] = "exit"
    <3>1. Protected(me)
      BY <1>0, <2>5 DEF HangInv
    <3>2. me # 0
      BY <2>5 DEF HangInv
    <3> QED BY <1>0, <2>1, <2>2, <2>3, <3>1, <3>2 DEF HangInv
  <2>6. CASE TerminateCurrent("exit")
    <3>1. me # 0
      BY <2>6 DEF TerminateCurrent
    <3>2. PICK i \in Index :
            /\ IsFirst(i, task_id[me])
            /\ \/ Protected(i)
               \/ /\ ~Protected(i)
                  /\ scheduler_yield(AfterTermination(i), sleep_until_tick)
      BY <2>6 DEF TerminateCurrent
    <3>3. i # me => task_id[me] = MASTER_PID
      <4>1. i \in Active /\ task_id[i] = task_id[me] /\ ~(me < i)
        BY <1>0, <3>2 DEF IsFirst
      <4>2. i # me => i < me
        BY <1>0, <4>1 DEF Index
      <4> QED BY <1>0, <4>1, <4>2 DEF PidInv, OnlyMasterPidShared
    <3>4. CASE Protected(i)
      <4>1. Protected(me)
        BY <3>3, <3>4 DEF Protected
      <4> QED BY <1>0, <2>1, <2>2, <2>3, <3>1, <4>1 DEF HangInv
    <3>5. CASE /\ ~Protected(i)
               /\ scheduler_yield(AfterTermination(i), sleep_until_tick)
      <4>1. i = me
        BY <3>2, <3>3, <3>5 DEF Protected, IsFirst
      <4>2. AfterTermination(i)[me] = "DEAD"
        BY <1>0, <4>1 DEF AfterTermination
      <4>3. YieldResult(AfterTermination(i))
        BY <1>0, <3>5, TerminationType, YieldLemma
      <4>4. execution_state'[me] = "DEAD" /\ me' # me
        BY <3>1, <4>2, <4>3 DEF YieldResult
      <4> QED BY <1>0, <2>1, <2>2, <2>3, <3>1, <4>4 DEF HangInv
    <3> QED BY <3>2, <3>4, <3>5
  <2>7. CASE resume'[me] # "exit"
    BY <1>0, <2>1, <2>2, <2>3, <2>7 DEF HangInv
  <2> QED BY <2>4, <2>5, <2>6, <2>7
<1>3. CASE UNCHANGED vars
  BY <1>3 DEF vars, HangInv, Active, Protected
<1> QED BY <1>1, <1>2, <1>3

-----------------------------------------------------------------------------
(***************************************************************************)
(* Waiting for a process.                                                  *)
(***************************************************************************)

\* A process with SIGKILL pending is dead and without the CPU, so it never
\* clears the signal.  The master is the exception: it runs dead.
KillInv ==
  \A j \in Active \ {0} :
    "SIGKILL" \in pending_signals[j] => execution_state[j] = "DEAD" /\ j # me

\* KillInv is kept: the step that makes SIGKILL pending makes the process
\* dead, and takes the CPU from it.
LEMMA KillStep ==
  ASSUME TypeOK, KillInv, [Next]_vars
  PROVE  KillInv'
<1> USE DEF ProcessTable, table, me
<1>0. /\ running_process_index \in Active
      /\ Active \subseteq Index
      /\ execution_state \in [Index -> ExecutionStates]
      /\ sleep_until_tick \in [Index -> 0 .. TICK_MOD - 1]
      /\ pending_signals \in [Index -> SUBSET Signals]
  BY DEF TypeOK, Active
<1>1. ASSUME NEW p \in Priorities, NEW c \in BOOLEAN, RegisterProcess(p, c)
      PROVE  KillInv'
  <2> DEFINE new == active_process_count
  <2>1. /\ new \in Index /\ new \notin Active /\ Active' = Active \cup {new}
        /\ me' = me
        /\ execution_state' = [execution_state EXCEPT ![new] = "RUNNING"]
        /\ pending_signals' = [pending_signals EXCEPT ![new] = {}]
    BY <1>1, RegisterEffect
  <2> HIDE DEF new
  <2> QED BY <1>0, <2>1 DEF KillInv
<1>2. ASSUME NEW pid \in Pids, NEW sig \in Signals, SendSignal(pid, sig)
      PROVE  KillInv'
  <2>1. PICK i \in Index :
          /\ IsFirstLive(i, pid)
          /\ pending_signals' = [pending_signals EXCEPT ![i] = @ \cup {sig}]
          /\ LET st == [execution_state EXCEPT ![i] = SignalledState(sig, @)]
             IN IF i = me /\ sig \in {"SIGKILL", "SIGSTOP"}
                  THEN scheduler_yield(st, sleep_until_tick)
                  ELSE NoSwitch(st)
    BY <1>2 DEF SendSignal
  <2> DEFINE st == [execution_state EXCEPT ![i] = SignalledState(sig, @)]
  <2>2. Active' = Active
    BY <1>2 DEF SendSignal, Active
  <2>3. ASSUME NEW j \in Active \ {0}, "SIGKILL" \in pending_signals'[j]
        PROVE  execution_state'[j] = "DEAD" /\ j # me'
    <3>1. CASE j # i \/ "SIGKILL" \in pending_signals[j]
      <4>1. "SIGKILL" \in pending_signals[j]
        BY <1>0, <2>1, <2>3, <3>1
      <4> QED BY <4>1, DeadStep DEF KillInv
    <3>2. CASE j = i /\ sig = "SIGKILL"
      <4>1. st \in [Index -> ExecutionStates] /\ st[i] = "DEAD"
        BY <1>0 , <3>2 DEF SignalledState, ExecutionStates
      <4>2. CASE i = me
        <5>1. scheduler_yield(st, sleep_until_tick)
          BY <2>1, <3>2, <4>2
        <5> HIDE DEF st
        <5>2. YieldResult(st)
          BY <1>0, <4>1, <5>1, YieldLemma
        <5> QED BY <3>2, <4>1, <5>2 DEF YieldResult
      <4>3. CASE i # me
        <5>1. NoSwitch(st)
          BY <2>1, <4>3
        <5> HIDE DEF st
        <5> QED BY <3>2, <4>1, <4>3, <5>1 DEF NoSwitch
      <4> QED BY <4>2, <4>3
    <3> QED BY <1>0, <2>1, <2>3, <3>1, <3>2
  <2> QED BY <2>2, <2>3 DEF KillInv
<1>3. CASE /\ UNCHANGED active_process_count
           /\ \A j \in Active : pending_signals'[j] \subseteq pending_signals[j]
  <2>1. Active' = Active
    BY <1>3 DEF Active
  <2> QED BY <1>3, <2>1, DeadStep DEF KillInv
<1>4. \/ \E p \in Priorities, c \in BOOLEAN : RegisterProcess(p, c)
      \/ \E pid \in Pids, sig \in Signals : SendSignal(pid, sig)
      \/ /\ UNCHANGED active_process_count
         /\ \A j \in Active : pending_signals'[j] \subseteq pending_signals[j]
  BY <1>0 DEF Next, vars, Yield, Sleep, CheckPendingSignals,
     IpcSend, IpcReceiveBlock, IpcReceiveTake, TerminateProcess,
     TerminateCurrent, Halted, WaitPid, TimerInterrupt
<1> QED BY <1>1, <1>2, <1>3, <1>4

\* What makes process j a reason to wait for its pid.
Awaited(j) == execution_state[j] # "DEAD" \/ "SIGKILL" \in pending_signals[j]

\* Every operation keeps WaiterHasTarget: a termination releases the waiters
\* of its pid in the same step, and a wait starts only for a live process.
LEMMA WaiterStep ==
  ASSUME TypeOK, PidInv, KillInv, WaiterHasTarget, [Next]_vars
  PROVE  WaiterHasTarget'
<1> USE DEF ProcessTable, table, me
<1>0. /\ running_process_index \in Active
      /\ Active \subseteq Index
      /\ execution_state \in [Index -> ExecutionStates]
      /\ waiting_on_pid \in [Index -> Pids \cup {0}]
      /\ pending_signals \in [Index -> SUBSET Signals]
      /\ task_id \in [Index -> Pids \cup {0}]
  BY DEF TypeOK, Active
<1>1. ASSUME NEW p \in Priorities, NEW c \in BOOLEAN, RegisterProcess(p, c)
      PROVE  WaiterHasTarget'
  BY <1>0, <1>1, RegisterEffect DEF WaiterHasTarget
<1>2. ASSUME UNCHANGED <<active_process_count, task_id>>,
             \A i \in Active : execution_state'[i] = "BLOCKED"
                                 /\ waiting_on_pid'[i] \notin {0, MASTER_PID} =>
                               /\ execution_state[i] = "BLOCKED"
                               /\ waiting_on_pid'[i] = waiting_on_pid[i],
             \A j \in Active, i \in Active :
               /\ Awaited(j)
               /\ task_id[j] = waiting_on_pid[i]
               /\ execution_state'[i] = "BLOCKED"
               /\ waiting_on_pid[i] \notin {0, MASTER_PID}
               => Awaited(j)'
      PROVE  WaiterHasTarget'
  <2>1. Active' = Active
    BY <1>2 DEF Active
  <2> QED BY <1>2, <2>1 DEF WaiterHasTarget, Awaited
<1>3. CASE /\ UNCHANGED <<active_process_count, task_id, execution_state,
                          waiting_on_pid, pending_signals>>
  BY <1>2, <1>3 DEF Awaited
<1>4. CASE Yield \/ (\E t \in SleepTicks : Sleep(t))
           \/ IpcReceiveTake \/ Halted \/ TimerInterrupt \/ UNCHANGED vars
  BY <1>3, <1>4, WakeupFields
     DEF Yield, Sleep, IpcReceiveTake, Halted, TimerInterrupt, vars
<1>5. CASE CheckPendingSignals
  <2>1. /\ pending_signals' = [pending_signals EXCEPT ![me] = {}]
        /\ UNCHANGED <<active_process_count, task_id, execution_state, waiting_on_pid>>
    BY <1>5, WakeupFields DEF CheckPendingSignals
  <2>2. ASSUME NEW j \in Active, Awaited(j), task_id[j] # MASTER_PID
        PROVE  Awaited(j)'
    BY <1>0, <2>1, <2>2 DEF Awaited, KillInv, PidInv, PidsDrawnInOrder
  <2> QED BY <1>2, <2>1, <2>2
<1>6. ASSUME NEW pid \in Pids, NEW sig \in Signals, SendSignal(pid, sig)
      PROVE  WaiterHasTarget'
  <2>1. PICK i \in Index :
          /\ pending_signals' = [pending_signals EXCEPT ![i] = @ \cup {sig}]
          /\ LET st == [execution_state EXCEPT ![i] = SignalledState(sig, @)]
             IN scheduler_yield(st, sleep_until_tick) \/ NoSwitch(st)
    BY <1>6 DEF SendSignal
  <2>2. execution_state' = [execution_state EXCEPT ![i] = SignalledState(sig, @)]
    BY <2>1, WakeupFields
  <2>3. \A j \in Active : execution_state'[j] = "BLOCKED" => execution_state[j] = "BLOCKED"
    BY <1>0, <2>2 DEF SignalledState
  <2>4. \A j \in Active : Awaited(j) => Awaited(j)'
    BY <1>0, <2>1, <2>2 DEF SignalledState, Awaited
  <2>5. UNCHANGED <<active_process_count, task_id, waiting_on_pid>>
    BY <1>6 DEF SendSignal
  <2> QED BY <1>2, <2>3, <2>4, <2>5
<1>7. ASSUME NEW pid \in Pids, NEW d \in Payloads, IpcSend(pid, d)
      PROVE  WaiterHasTarget'
  <2>1. PICK i \in Index : execution_state' = WokenBySend(i)
    BY <1>7, WakeupFields DEF IpcSend
  <2>2. UNCHANGED <<active_process_count, task_id, waiting_on_pid, pending_signals>>
    BY <1>7 DEF IpcSend
  <2>3. \A j \in Active : execution_state'[j] = "BLOCKED" => execution_state[j] = "BLOCKED"
    BY <1>0, <2>1 DEF WokenBySend
  <2>4. \A j \in Active : Awaited(j) => Awaited(j)'
    BY <1>0, <2>1, <2>2 DEF WokenBySend, Awaited
  <2> QED BY <1>2, <2>2, <2>3, <2>4
<1>8. CASE IpcReceiveBlock
  <2>1. /\ execution_state' = [execution_state EXCEPT ![me] = "BLOCKED"]
        /\ waiting_on_pid' = [waiting_on_pid EXCEPT ![me] = 0]
        /\ UNCHANGED <<active_process_count, task_id, pending_signals>>
    BY <1>8, WakeupFields DEF IpcReceiveBlock
  <2>2. \A j \in Active : Awaited(j) => Awaited(j)'
    BY <1>0, <2>1 DEF Awaited
  <2>3. \A i \in Active : waiting_on_pid'[i] # 0 =>
          /\ waiting_on_pid'[i] = waiting_on_pid[i]
          /\ execution_state'[i] = execution_state[i]
    BY <1>0, <2>1
  <2> QED BY <1>2, <2>1, <2>2, <2>3
<1>9. ASSUME NEW i \in Active,
             execution_state' = AfterTermination(i),
             waiting_on_pid' = WaitsAfterTermination(i),
             UNCHANGED <<active_process_count, task_id, pending_signals>>
      PROVE  WaiterHasTarget'
  <2>1. ASSUME NEW j \in Active, execution_state'[j] = "BLOCKED"
        PROVE  /\ execution_state[j] = "BLOCKED"
               /\ waiting_on_pid'[j] = waiting_on_pid[j]
               /\ waiting_on_pid[j] # task_id[i]
    BY <1>0, <1>9, <2>1
       DEF AfterTermination, WaitsAfterTermination, Released, WaitsFor
  <2>2. ASSUME NEW j \in Active, Awaited(j), task_id[j] # task_id[i]
        PROVE  Awaited(j)'
    BY <1>0, <1>9, <2>2 DEF AfterTermination, Awaited
  <2> QED BY <1>2, <1>9, <2>1, <2>2
<1>10. ASSUME NEW pid \in Pids, TerminateProcess(pid)
       PROVE  WaiterHasTarget'
  BY <1>9, <1>10, WakeupFields DEF TerminateProcess, IsFirst
<1>11. ASSUME NEW then \in {"run", "exit"}, TerminateCurrent(then)
       PROVE  WaiterHasTarget'
  <2>1. /\ UNCHANGED <<active_process_count, task_id, pending_signals>>
        /\ \/ UNCHANGED <<execution_state, waiting_on_pid>>
           \/ \E i \in Active : /\ execution_state' = AfterTermination(i)
                                /\ waiting_on_pid' = WaitsAfterTermination(i)
    BY <1>11, WakeupFields DEF TerminateCurrent, IsFirst
  <2> QED BY <1>3, <1>9, <2>1
<1>12. ASSUME NEW pid \in Pids, WaitPid(pid)
       PROVE  WaiterHasTarget'
  <2>1. /\ execution_state' = [execution_state EXCEPT ![me] = "BLOCKED"]
        /\ waiting_on_pid' = [waiting_on_pid EXCEPT ![me] = pid]
        /\ UNCHANGED <<active_process_count, task_id, pending_signals>>
    BY <1>12, WakeupFields DEF WaitPid
  <2>2. PICK k \in Active : task_id[k] = pid /\ execution_state[k] # "DEAD"
    BY <1>12 DEF WaitPid, IsFirstLive
  <2>3. Active' = Active
    BY <2>1 DEF Active
  <2>4. \A j \in Active : Awaited(j) => Awaited(j)'
    BY <1>0, <2>1 DEF Awaited
  <2>5. ASSUME NEW i \in Active', execution_state'[i] = "BLOCKED",
               waiting_on_pid'[i] \notin {0, MASTER_PID}
        PROVE  \E j \in Active' : task_id'[j] = waiting_on_pid'[i] /\ Awaited(j)'
    <3>1. CASE i = me
      BY <1>0, <2>1, <2>2, <2>3, <2>4, <3>1 DEF Awaited
    <3>2. CASE i # me
      <4>1. /\ execution_state[i] = "BLOCKED"
            /\ waiting_on_pid'[i] = waiting_on_pid[i]
        BY <1>0, <2>1, <2>3, <2>5, <3>2
      <4>2. PICK j \in Active : task_id[j] = waiting_on_pid[i] /\ Awaited(j)
        BY <2>3, <2>5, <4>1 DEF WaiterHasTarget, Awaited
      <4> QED BY <2>1, <2>3, <2>4, <4>1, <4>2
    <3> QED BY <3>1, <3>2
  <2> QED BY <2>5 DEF WaiterHasTarget, Awaited
<1> QED BY <1>1, <1>4, <1>5, <1>6, <1>7, <1>8, <1>10, <1>11, <1>12 DEF Next

-----------------------------------------------------------------------------
(***************************************************************************)
(* The theorems.                                                           *)
(***************************************************************************)

\* The inductive invariant of the scheduler.
SchedulerInv ==
  /\ TypeOK
  /\ PidInv
  /\ NoLostWakeup
  /\ OnlyMasterOverrun
  /\ HangInv
  /\ KillInv
  /\ WaiterHasTarget

\* SchedulerInv holds after scheduler_initialize.
LEMMA InvInit ==
  ASSUME Init
  PROVE  SchedulerInv
<1>1. 0 \in Index /\ \A i \in Active : i = 0
  BY SchedulerConstants DEF Init, Active, Index
<1>2. NoLostWakeup /\ OnlyMasterOverrun /\ HangInv /\ KillInv /\ WaiterHasTarget
  BY <1>1 DEF Init, NoLostWakeup, OnlyMasterOverrun, HangInv, KillInv,
     WaiterHasTarget, me
<1> QED BY <1>2, TypeInit, PidInit DEF SchedulerInv

\* Every operation keeps SchedulerInv.
LEMMA InvStep ==
  ASSUME SchedulerInv, [Next]_vars
  PROVE  SchedulerInv'
BY TypeStep, PidStep, WakeupStep, OverrunStep, HangStep, KillStep, WaiterStep
   DEF SchedulerInv

\* SchedulerInv is an invariant.
LEMMA SchedulerInvariance == Spec => []SchedulerInv
BY InvInit, InvStep, PTL DEF Spec

\* The process table stays well-formed under every operation of
\* multitasking.h, for every table size and priority range.
THEOREM TypeCorrect == Spec => []TypeOK
<1>1. SchedulerInv => TypeOK
  BY DEF SchedulerInv
<1> QED BY <1>1, SchedulerInvariance, PTL

\* No message waits for a receiver that nobody will wake
\* (scheduler_ipc_send against scheduler_ipc_receive).
THEOREM NoWakeupIsLost == Spec => []NoLostWakeup
<1>1. SchedulerInv => NoLostWakeup
  BY DEF SchedulerInv
<1> QED BY <1>1, SchedulerInvariance, PTL

\* Only the master process is ever run while it is blocked or stopped
\* (the fallback of scheduler_select_next_candidate).
THEOREM OnlyMasterRunsBlocked == Spec => []OnlyMasterOverrun
<1>1. SchedulerInv => OnlyMasterOverrun
  BY DEF SchedulerInv
<1> QED BY <1>1, SchedulerInvariance, PTL

\* Pid 100 is the only pid two processes can share.
THEOREM PidsUniqueButMaster == Spec => []OnlyMasterPidShared
<1>1. SchedulerInv => OnlyMasterPidShared
  BY DEF SchedulerInv, PidInv
<1> QED BY <1>1, SchedulerInvariance, PTL

\* Only the return of a protected process hangs the CPU in
\* scheduler_exit_stub.
THEOREM HangNeedsProtection == Spec => []HangOnlyIfProtected
<1>1. SchedulerInv => HangOnlyIfProtected
  BY DEF SchedulerInv, HangInv, HangOnlyIfProtected, TypeOK, me
<1> QED BY <1>1, SchedulerInvariance, PTL

\* SIGKILL is the only way to leave a process waiting for a dead one
\* (scheduler_wait_pid).
THEOREM WaitersHaveTargets == Spec => []WaiterHasTarget
<1>1. SchedulerInv => WaiterHasTarget
  BY DEF SchedulerInv
<1> QED BY <1>1, SchedulerInvariance, PTL

\* No operation revives a dead process or hands it the CPU.
THEOREM TheDeadStayDead == Spec => DeadStaysDead
<1>1. ASSUME SchedulerInv, [Next]_vars
      PROVE  [\A k \in Active : k \notin {0, me} /\ execution_state[k] = "DEAD"
                => execution_state'[k] = "DEAD" /\ me' # k]_vars
  BY <1>1, DeadStep DEF SchedulerInv
<1> QED BY <1>1, SchedulerInvariance, PTL DEF Spec, DeadStaysDead

\* What no operation does to process j.
Untouched(j) ==
  /\ Len(channel'[j]) <= Len(channel[j])
  /\ pending_signals'[j] \subseteq pending_signals[j]
  /\ execution_state'[j] = "DEAD" => execution_state[j] = "DEAD"

\* While the master lives, every search by its pid stops at slot 0, so a
\* process that shares the pid gets no message and no signal and is not ended.
LEMMA ShadowStep ==
  ASSUME TypeOK, PidInv, Next,
         NEW j \in Active, j # 0, task_id[j] = MASTER_PID, execution_state[0] # "DEAD"
  PROVE  Untouched(j)
<1> USE DEF ProcessTable, table, me
<1>1. j \in Index /\ j \in Nat /\ j < active_process_count /\ active_process_count \in Nat
  BY SchedulerConstants DEF TypeOK, Active, Index
<1>2. /\ j \in Index /\ 0 \in Active /\ j > 0
      /\ running_process_index \in Index
      /\ execution_state \in [Index -> ExecutionStates]
      /\ channel \in [Index -> Seq(Messages)]
      /\ pending_signals \in [Index -> SUBSET Signals]
      /\ task_id[0] = MASTER_PID
  <2>1. 0 \in Active
    BY MasterActive
  <2>2. j > 0
    BY <1>1
  <2>3. task_id[0] = MASTER_PID
    BY DEF PidInv, PidsDrawnInOrder
  <2>4. /\ execution_state \in [Index -> ExecutionStates]
        /\ channel \in [Index -> Seq(Messages)]
        /\ pending_signals \in [Index -> SUBSET Signals]
        /\ running_process_index \in Active
    BY DEF TypeOK
  <2>5. running_process_index \in Index
    BY <2>4 DEF Active
  <2> QED BY <1>1, <2>1, <2>2, <2>3, <2>4, <2>5
<1>3. ASSUME channel'[j] = channel[j], pending_signals'[j] = pending_signals[j],
             execution_state'[j] = "DEAD" => execution_state[j] = "DEAD"
      PROVE  Untouched(j)
  <2>1. Len(channel[j]) \in Nat
    BY <1>2
  <2> QED BY <1>3, <2>1 DEF Untouched
<1>4. ASSUME NEW pid, NEW i \in Index, IsFirst(i, pid) \/ IsFirstLive(i, pid)
      PROVE  i # j
  BY <1>2, <1>4 DEF IsFirst, IsFirstLive
<1>5. ASSUME NEW st, NEW sl, scheduler_yield(st, sl)
      PROVE  execution_state' = st
  BY <1>5 DEF scheduler_yield
<1>6. ASSUME NEW st, NoSwitch(st)
      PROVE  execution_state' = st
  BY <1>6 DEF NoSwitch
<1>7. [execution_state EXCEPT ![me] = "BLOCKED"][j] = "DEAD" => execution_state[j] = "DEAD"
  BY <1>2
<1>8. ASSUME NEW i \in Index, i # j, AfterTermination(i)[j] = "DEAD"
      PROVE  execution_state[j] = "DEAD"
  BY <1>2, <1>8 DEF AfterTermination
<1>9. CASE Yield
  BY <1>3, <1>5, <1>9 DEF Yield
<1>10. ASSUME NEW t \in SleepTicks, Sleep(t)
      PROVE  Untouched(j)
  <2>1. execution_state' = execution_state
    BY <1>5, <1>10 DEF Sleep
  <2> QED BY <1>3, <1>10, <2>1 DEF Sleep
<1>11. ASSUME NEW p \in Priorities, NEW c \in BOOLEAN, RegisterProcess(p, c)
      PROVE  Untouched(j)
  <2>1. j # active_process_count
    BY <1>1
  <2> QED BY <1>2, <1>3, <1>11, <2>1 DEF RegisterProcess
<1>12. ASSUME NEW pid \in Pids, NEW sig \in Signals, SendSignal(pid, sig)
       PROVE  Untouched(j)
  <2>1. PICK i \in Index :
          /\ IsFirstLive(i, pid)
          /\ pending_signals' = [pending_signals EXCEPT ![i] = @ \cup {sig}]
          /\ execution_state' = [execution_state EXCEPT ![i] = SignalledState(sig, @)]
    BY <1>5, <1>6, <1>12 DEF SendSignal
  <2>2. i # j
    BY <1>4, <2>1
  <2>3. channel' = channel
    BY <1>12 DEF SendSignal
  <2> QED BY <1>2, <1>3, <2>1, <2>2, <2>3
<1>13. CASE CheckPendingSignals
  <2>1. /\ channel' = channel /\ execution_state' = execution_state
        /\ pending_signals' = [pending_signals EXCEPT ![me] = {}]
    BY <1>6, <1>13 DEF CheckPendingSignals
  <2>2. Len(channel[j]) \in Nat
    BY <1>2
  <2> QED BY <1>2, <2>1, <2>2 DEF Untouched
<1>14. ASSUME NEW pid \in Pids, NEW d \in Payloads, IpcSend(pid, d)
       PROVE  Untouched(j)
  <2>1. PICK i \in Index :
          /\ IsFirstLive(i, pid)
          /\ channel' = [channel EXCEPT ![i] =
               Append(@, [sender_id |-> task_id[me], data |-> d])]
          /\ execution_state' = WokenBySend(i)
    BY <1>6, <1>14 DEF IpcSend
  <2>2. i # j
    BY <1>4, <2>1
  <2>3. pending_signals' = pending_signals
    BY <1>14 DEF IpcSend
  <2>4. channel'[j] = channel[j] /\ execution_state'[j] = execution_state[j]
    BY <1>2, <2>1, <2>2 DEF WokenBySend
  <2> QED BY <1>3, <2>3, <2>4
<1>15. CASE IpcReceiveBlock
  BY <1>3, <1>5, <1>7, <1>15 DEF IpcReceiveBlock
<1>16. CASE IpcReceiveTake
  <2>1. /\ pending_signals' = pending_signals /\ execution_state' = execution_state
        /\ channel' = [channel EXCEPT ![me] = Tail(@)] /\ channel[me] # << >>
    BY <1>6, <1>16 DEF IpcReceiveTake
  <2>2. Len(channel[j]) \in Nat /\ (me = j => Len(Tail(channel[j])) <= Len(channel[j]))
    BY <1>2, <2>1
  <2>3. channel'[j] = IF me = j THEN Tail(channel[j]) ELSE channel[j]
    BY <1>2, <2>1
  <2> QED BY <2>1, <2>2, <2>3 DEF Untouched
<1>17. ASSUME NEW pid \in Pids, TerminateProcess(pid)
       PROVE  Untouched(j)
  <2>1. PICK i \in Index : IsFirst(i, pid) /\ execution_state' = AfterTermination(i)
    BY <1>6, <1>17 DEF TerminateProcess
  <2> QED BY <1>3, <1>4, <1>8, <1>17, <2>1 DEF TerminateProcess
<1>18. ASSUME NEW then \in {"run", "exit"}, TerminateCurrent(then)
       PROVE  Untouched(j)
  <2>1. PICK i \in Index : /\ IsFirst(i, task_id[me])
                           /\ execution_state' \in {execution_state, AfterTermination(i)}
    BY <1>5, <1>18 DEF TerminateCurrent
  <2> QED BY <1>3, <1>4, <1>8, <1>18, <2>1 DEF TerminateCurrent
<1>19. CASE Halted
  BY <1>3, <1>19 DEF Halted, vars
<1>20. ASSUME NEW pid \in Pids, WaitPid(pid)
       PROVE  Untouched(j)
  BY <1>3, <1>5, <1>7, <1>20 DEF WaitPid
<1>21. CASE TimerInterrupt
  BY <1>3, <1>6, <1>21 DEF TimerInterrupt
<1> QED BY <1>9, <1>10, <1>11, <1>12, <1>13, <1>14, <1>15, <1>16, <1>17, <1>18, <1>19, <1>20, <1>21
        DEF Next

\* The first registered process, which shares the pid of the master, cannot be
\* reached by a message, a signal or kill while the master lives.
THEOREM NamesakeIsUnreachable == Spec => ShadowedByMaster
<1>1. ASSUME SchedulerInv, [Next]_vars
      PROVE  [\A j \in Active :
                j # 0 /\ task_id[j] = MASTER_PID /\ execution_state[0] # "DEAD"
                => Untouched(j)]_vars
  BY <1>1, ShadowStep DEF SchedulerInv
<1> QED BY <1>1, SchedulerInvariance, PTL DEF Spec, ShadowedByMaster, Untouched
=============================================================================
