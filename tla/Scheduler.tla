------------------------------ MODULE Scheduler ------------------------------
(***************************************************************************)
(* The cooperative scheduler of multitasking.h: the process table,         *)
(* priority aging, scheduler_yield, sleeping, signals, waiting for a       *)
(* process and the blocking side of message passing.                       *)
(*                                                                         *)
(* One CPU runs one process, running_process_index.  No interrupt has a    *)
(* handler: where interrupts are off none comes, and where they are on the *)
(* first one ends everything (TimerInterrupt).  So control moves only      *)
(* inside scheduler_yield.  An action is what the running process does     *)
(* between two points where control can move.  The variable resume says    *)
(* where a process continues when it gets the CPU back.  A call that       *)
(* returns an error code changes nothing and is a stuttering step.  The    *)
(* context switch itself (the inline assembly) is the assignment of        *)
(* running_process_index.                                                  *)
(***************************************************************************)
EXTENDS Naturals, Sequences

CONSTANTS
  SYS_MAX_TASKS,               \* slots of the process table (1024)
  SCHED_MAX_PRIORITY,          \* ceiling of aging (100)
  SCHED_DEFAULT_PRIORITY,      \* priority of the master process (20)
  SCHED_PRIORITY_AGING_LIMIT,  \* selections waited per priority point (500)
  SCHED_IPC_MAX_MESSAGES,      \* messages a channel holds (32)
  TICK_MOD,                    \* kernel_elapsed_ticks wraps here (2^32)
  Priorities,                  \* priorities processes are registered with
  SleepTicks,                  \* arguments of scheduler_sleep
  Signals,                     \* signals that are sent
  Payloads                     \* message contents

ASSUME SchedulerConstants ==
  /\ SYS_MAX_TASKS \in Nat \ {0}
  /\ SCHED_MAX_PRIORITY \in Nat \ {0}
  /\ SCHED_PRIORITY_AGING_LIMIT \in Nat \ {0}
  /\ SCHED_IPC_MAX_MESSAGES \in Nat \ {0}
  /\ TICK_MOD \in Nat \ {0}
  /\ SCHED_DEFAULT_PRIORITY \in 1..SCHED_MAX_PRIORITY
  /\ Priorities \subseteq 1..SCHED_MAX_PRIORITY
  /\ SleepTicks \subseteq Nat

VARIABLES
  active_process_count,           \* slots handed out; never decreases
  running_process_index,          \* the process that has the CPU
  kernel_elapsed_ticks,           \* calls of scheduler_yield, modulo TICK_MOD
  global_process_identifier_seed, \* next pid
  task_id, execution_state, base_priority, dynamic_priority,
  accumulation_cycles, critical, sleep_until_tick, waiting_on_pid,
  pending_signals, channel,       \* the fields of the process control blocks
  resume                          \* where the process continues: its own code,
                                  \* the loop of scheduler_ipc_receive, the hlt
                                  \* loop of scheduler_exit_stub, or nowhere,
                                  \* the machine being reset

table == <<task_id, base_priority, critical>>
vars == <<active_process_count, running_process_index, kernel_elapsed_ticks,
          global_process_identifier_seed, table, execution_state,
          dynamic_priority, accumulation_cycles, sleep_until_tick,
          waiting_on_pid, pending_signals, channel, resume>>

MASTER_PID == 100
Index == 0 .. SYS_MAX_TASKS - 1
Active == {i \in Index : i < active_process_count}
MAX_PID == MASTER_PID + SYS_MAX_TASKS - 1   \* the table is full before
Pids == MASTER_PID .. MAX_PID
ExecutionStates == {"RUNNING", "BLOCKED", "STOPPED", "DEAD"}
Messages == [sender_id : Pids, data : Payloads]

(***************************************************************************)
(* scheduler_initialize: every slot is cleared and the master process gets *)
(* slot 0 with pid 100.  The seed starts at 100 as well.                   *)
(***************************************************************************)
Init ==
  /\ active_process_count = 1
  /\ running_process_index = 0
  /\ kernel_elapsed_ticks = 0
  /\ global_process_identifier_seed = MASTER_PID
  /\ task_id = [i \in Index |-> IF i = 0 THEN MASTER_PID ELSE 0]
  /\ execution_state = [i \in Index |-> IF i = 0 THEN "RUNNING" ELSE "DEAD"]
  /\ base_priority = [i \in Index |-> IF i = 0 THEN SCHED_DEFAULT_PRIORITY ELSE 0]
  /\ dynamic_priority = base_priority
  /\ accumulation_cycles = [i \in Index |-> 0]
  /\ critical = [i \in Index |-> i = 0]
  /\ sleep_until_tick = [i \in Index |-> 0]
  /\ waiting_on_pid = [i \in Index |-> 0]
  /\ pending_signals = [i \in Index |-> {}]
  /\ channel = [i \in Index |-> << >>]
  /\ resume = [i \in Index |-> "run"]

-----------------------------------------------------------------------------
(***************************************************************************)
(* scheduler_yield.  st and sl are execution_state and sleep_until_tick as *)
(* the caller left them.                                                   *)
(***************************************************************************)
NextTick == (kernel_elapsed_ticks + 1) % TICK_MOD

\* scheduler_apply_aging touches the runnable processes that do not have the
\* CPU, sleepers included.
Ages(st, i) ==
  /\ i \in Active
  /\ st[i] = "RUNNING"
  /\ i # running_process_index

PointDue(i) == accumulation_cycles[i] + 1 >= SCHED_PRIORITY_AGING_LIMIT

\* Mutant of AgedPriority: no aging.
AgedPriority_none(st, i) == dynamic_priority[i]

AgedPriority(st, i) ==
  IF Ages(st, i) /\ PointDue(i) /\ dynamic_priority[i] < SCHED_MAX_PRIORITY
    THEN dynamic_priority[i] + 1
    ELSE dynamic_priority[i]

AgedCycles(st, i) ==
  IF Ages(st, i)
    THEN IF PointDue(i) THEN 0 ELSE accumulation_cycles[i] + 1
    ELSE accumulation_cycles[i]

\* A process the selection loop does not skip.
Eligible(st, sl, i) ==
  /\ i \in Active
  /\ st[i] = "RUNNING"
  /\ sl[i] = 0 \/ NextTick >= sl[i]

\* The loop keeps the first process of the highest aged priority; when it
\* finds none the function returns 0, the master, whatever state that is in.
SelectedNext(st, sl, next) ==
  \/ /\ Eligible(st, sl, next)
     /\ \A j \in Active : Eligible(st, sl, j) =>
          \/ AgedPriority(st, j) < AgedPriority(st, next)
          \/ AgedPriority(st, j) = AgedPriority(st, next) /\ next <= j
  \/ /\ \A j \in Active : ~Eligible(st, sl, j)
     /\ next = 0

\* Mutant of ExpiredCleared: the deadline stays.
ExpiredCleared_kept(st, sl) == sl

\* The loop clears the deadline of every process it does not skip.
ExpiredCleared(st, sl) ==
  [i \in Index |-> IF Eligible(st, sl, i) THEN 0 ELSE sl[i]]

SelectAndSwitch(st, sl) ==
  \E next \in Index :
    /\ SelectedNext(st, sl, next)
    /\ running_process_index' = next
    /\ sleep_until_tick' = ExpiredCleared(st, sl)
    /\ dynamic_priority' =
         [i \in Index |-> IF i = next /\ Eligible(st, sl, i)
                            THEN base_priority[i] ELSE AgedPriority(st, i)]
    /\ accumulation_cycles' =
         [i \in Index |-> IF i = next /\ Eligible(st, sl, i)
                            THEN 0 ELSE AgedCycles(st, i)]

scheduler_yield(st, sl) ==
  /\ kernel_elapsed_ticks' = NextTick
  /\ execution_state' = st
  /\ IF active_process_count <= 1
       THEN /\ sleep_until_tick' = sl
            /\ UNCHANGED <<running_process_index, dynamic_priority, accumulation_cycles>>
       ELSE SelectAndSwitch(st, sl)

\* The caller keeps the CPU, having changed at most execution states.
NoSwitch(st) ==
  /\ execution_state' = st
  /\ UNCHANGED <<kernel_elapsed_ticks, running_process_index, sleep_until_tick,
                 dynamic_priority, accumulation_cycles>>

-----------------------------------------------------------------------------
(***************************************************************************)
(* The operations, called by the process that has the CPU.                 *)
(***************************************************************************)
me == running_process_index
InOwnCode == resume[me] = "run"
ProcessTable == <<active_process_count, global_process_identifier_seed, table>>

Yield ==
  /\ InOwnCode
  /\ scheduler_yield(execution_state, sleep_until_tick)
  /\ UNCHANGED <<ProcessTable, waiting_on_pid, pending_signals, channel, resume>>

Sleep(ticks) ==
  /\ InOwnCode
  /\ scheduler_yield(execution_state,
       [sleep_until_tick EXCEPT ![me] = (kernel_elapsed_ticks + ticks) % TICK_MOD])
  /\ UNCHANGED <<ProcessTable, waiting_on_pid, pending_signals, channel, resume>>

(***************************************************************************)
(* scheduler_register_process.  The slot is the next one, a slot is never  *)
(* reused.  The two allocations give memory of their own or stop the       *)
(* machine, so the returns for a failed allocation are never taken: a      *)
(* request sys_alloc_pages cannot satisfy ends in sys_oom_panic            *)
(* (OomControl).  The frame it starts from turns interrupts on             *)
(* (TimerInterrupt).                                                       *)
(***************************************************************************)
generated_pid == global_process_identifier_seed

RegisterProcess(priority, crit) ==
  /\ InOwnCode
  /\ active_process_count < SYS_MAX_TASKS
  /\ LET new == active_process_count
     IN /\ task_id' = [task_id EXCEPT ![new] = generated_pid]
        /\ base_priority' = [base_priority EXCEPT ![new] = priority]
        /\ critical' = [critical EXCEPT ![new] = crit]
        /\ execution_state' = [execution_state EXCEPT ![new] = "RUNNING"]
        /\ dynamic_priority' = [dynamic_priority EXCEPT ![new] = priority]
        /\ accumulation_cycles' = [accumulation_cycles EXCEPT ![new] = 0]
        /\ waiting_on_pid' = [waiting_on_pid EXCEPT ![new] = 0]
        /\ sleep_until_tick' = [sleep_until_tick EXCEPT ![new] = 0]
        /\ pending_signals' = [pending_signals EXCEPT ![new] = {}]
        /\ channel' = [channel EXCEPT ![new] = << >>]
        /\ resume' = [resume EXCEPT ![new] = "run"]
        /\ active_process_count' = new + 1
  /\ global_process_identifier_seed' = global_process_identifier_seed + 1
  /\ UNCHANGED <<running_process_index, kernel_elapsed_ticks>>

-----------------------------------------------------------------------------
\* The slot a search by pid stops at: the first one, or the first one that
\* is not dead.
IsFirst(i, pid) ==
  /\ i \in Active
  /\ task_id[i] = pid
  /\ \A j \in Active : j < i => task_id[j] # pid

\* Mutants of IsFirstLive: the search runs from the end; it finds the dead.
IsFirstLive_last(i, pid) ==
  /\ i \in Active
  /\ task_id[i] = pid
  /\ execution_state[i] # "DEAD"
  /\ \A j \in Active : j > i => task_id[j] # pid \/ execution_state[j] = "DEAD"
IsFirstLive_dead(i, pid) == IsFirst(i, pid)

IsFirstLive(i, pid) ==
  /\ i \in Active
  /\ task_id[i] = pid
  /\ execution_state[i] # "DEAD"
  /\ \A j \in Active : j < i => task_id[j] # pid \/ execution_state[j] = "DEAD"

(***************************************************************************)
(* scheduler_send_signal                                                   *)
(***************************************************************************)
SignalledState(sig, state) ==
  IF sig = "SIGKILL" THEN "DEAD"
  ELSE IF sig = "SIGSTOP" THEN "STOPPED"
  ELSE IF sig = "SIGCONT" THEN "RUNNING" ELSE state

\* Mutant of SendSignal: a process that stops or kills itself keeps the CPU.
SendSignal_keeps(pid, sig) ==
  /\ InOwnCode
  /\ \E i \in Index :
       /\ IsFirstLive(i, pid)
       /\ pending_signals' = [pending_signals EXCEPT ![i] = @ \cup {sig}]
       /\ NoSwitch([execution_state EXCEPT ![i] = SignalledState(sig, @)])
  /\ UNCHANGED <<ProcessTable, waiting_on_pid, channel, resume>>

SendSignal(pid, sig) ==
  /\ InOwnCode
  /\ \E i \in Index :
       /\ IsFirstLive(i, pid)
       /\ pending_signals' = [pending_signals EXCEPT ![i] = @ \cup {sig}]
       /\ LET st == [execution_state EXCEPT ![i] = SignalledState(sig, @)]
          IN IF i = me /\ sig \in {"SIGKILL", "SIGSTOP"}
               THEN scheduler_yield(st, sleep_until_tick)
               ELSE NoSwitch(st)
  /\ UNCHANGED <<ProcessTable, waiting_on_pid, channel, resume>>

\* scheduler_check_pending_signals: every pending bit is cleared (nothing
\* sets blocked_signals); a handler is code of the process itself.
CheckPendingSignals ==
  /\ InOwnCode
  /\ pending_signals[me] # {}
  /\ pending_signals' = [pending_signals EXCEPT ![me] = {}]
  /\ NoSwitch(execution_state)
  /\ UNCHANGED <<ProcessTable, waiting_on_pid, channel, resume>>

(***************************************************************************)
(* scheduler_ipc_send and scheduler_ipc_receive                            *)
(***************************************************************************)
\* Mutant of WokenBySend: the sender wakes nobody.
WokenBySend_none(i) == execution_state

WokenBySend(i) ==
  [execution_state EXCEPT ![i] =
     IF @ = "BLOCKED" /\ waiting_on_pid[i] = 0 THEN "RUNNING" ELSE @]

IpcSend(pid, data) ==
  /\ InOwnCode
  /\ \E i \in Index :
       /\ IsFirstLive(i, pid)
       /\ Len(channel[i]) < SCHED_IPC_MAX_MESSAGES
       /\ channel' = [channel EXCEPT ![i] =
            Append(@, [sender_id |-> task_id[me], data |-> data])]
       /\ NoSwitch(WokenBySend(i))
  /\ UNCHANGED <<ProcessTable, waiting_on_pid, pending_signals, resume>>

\* One turn of the loop: the call finds the channel empty, or control comes
\* back to the loop and the channel is still empty.
IpcReceiveBlock ==
  /\ resume[me] \in {"run", "recv"}
  /\ channel[me] = << >>
  /\ waiting_on_pid' = [waiting_on_pid EXCEPT ![me] = 0]
  /\ resume' = [resume EXCEPT ![me] = "recv"]
  /\ scheduler_yield([execution_state EXCEPT ![me] = "BLOCKED"], sleep_until_tick)
  /\ UNCHANGED <<ProcessTable, pending_signals, channel>>

IpcReceiveTake ==
  /\ resume[me] \in {"run", "recv"}
  /\ channel[me] # << >>
  /\ channel' = [channel EXCEPT ![me] = Tail(@)]
  /\ resume' = [resume EXCEPT ![me] = "run"]
  /\ NoSwitch(execution_state)
  /\ UNCHANGED <<ProcessTable, waiting_on_pid, pending_signals>>

(***************************************************************************)
(* scheduler_terminate_process marks the first process with that pid dead  *)
(* and releases the processes that wait for the pid.                       *)
(***************************************************************************)
Protected(i) == task_id[i] = MASTER_PID \/ critical[i]
WaitsFor(j, pid) ==
  j \in Active /\ execution_state[j] = "BLOCKED" /\ waiting_on_pid[j] = pid

\* Mutant of Released: the waiters for the caller are released.
Released_caller(i, j) == j # i /\ WaitsFor(j, task_id[me])

\* Slot i dies first, so a process that waits for itself is not released.
Released(i, j) == j # i /\ WaitsFor(j, task_id[i])

\* Mutant of AfterTermination: the process itself is not marked dead.
AfterTermination_alive(i) ==
  [j \in Index |-> IF Released(i, j) THEN "RUNNING" ELSE execution_state[j]]

AfterTermination(i) ==
  [j \in Index |-> IF j = i THEN "DEAD"
                   ELSE IF Released(i, j) THEN "RUNNING" ELSE execution_state[j]]

WaitsAfterTermination(i) ==
  [j \in Index |-> IF Released(i, j) THEN 0 ELSE waiting_on_pid[j]]

TerminateProcess(pid) ==
  /\ InOwnCode
  /\ \E i \in Index :
       /\ IsFirst(i, pid)
       /\ ~Protected(i)
       /\ waiting_on_pid' = WaitsAfterTermination(i)
       /\ NoSwitch(AfterTermination(i))
  /\ UNCHANGED <<ProcessTable, pending_signals, channel, resume>>

(***************************************************************************)
(* scheduler_terminate_current ignores the refusal of a protected process  *)
(* and yields in any case.  then says what follows the call: more of the   *)
(* process, or, when the process function returned into                    *)
(* scheduler_exit_stub, the hlt loop.  The master process never returns.   *)
(***************************************************************************)
TerminateCurrent(then) ==
  /\ InOwnCode
  /\ then = "exit" => me # 0
  /\ resume' = [resume EXCEPT ![me] = then]
  /\ \E i \in Index :
       /\ IsFirst(i, task_id[me])
       /\ \/ /\ Protected(i)
             /\ scheduler_yield(execution_state, sleep_until_tick)
             /\ UNCHANGED waiting_on_pid
          \/ /\ ~Protected(i)
             /\ scheduler_yield(AfterTermination(i), sleep_until_tick)
             /\ waiting_on_pid' = WaitsAfterTermination(i)
  /\ UNCHANGED <<ProcessTable, pending_signals, channel>>

\* The hlt loop of scheduler_exit_stub, and the end of the machine's run: the
\* CPU stays there.
Halted ==
  /\ resume[me] \in {"exit", "reset"}
  /\ UNCHANGED vars

\* scheduler_wait_pid blocks once; it does not look again after the yield.
WaitPid(pid) ==
  /\ InOwnCode
  /\ \E i \in Index : IsFirstLive(i, pid)
  /\ waiting_on_pid' = [waiting_on_pid EXCEPT ![me] = pid]
  /\ scheduler_yield([execution_state EXCEPT ![me] = "BLOCKED"], sleep_until_tick)
  /\ UNCHANGED <<ProcessTable, pending_signals, channel, resume>>

-----------------------------------------------------------------------------
(***************************************************************************)
(* Interrupts.  The master runs with the flag it was booted with: off.  A  *)
(* registered process starts with EFLAGS 0x202 in its frame, which popfl   *)
(* loads, and nothing it calls turns interrupts off again.  The timer runs *)
(* and no line of the PIC is masked, but every gate of the table is        *)
(* absent, that of the resulting fault included: the processor resets the  *)
(* machine.  What boots afterwards is another run, from Init.              *)
(***************************************************************************)
InterruptsOn == me # 0

TimerInterrupt ==
  /\ InterruptsOn
  /\ resume' = [resume EXCEPT ![me] = "reset"]
  /\ NoSwitch(execution_state)
  /\ UNCHANGED <<ProcessTable, waiting_on_pid, pending_signals, channel>>

-----------------------------------------------------------------------------
Next ==
  \/ Yield
  \/ \E t \in SleepTicks : Sleep(t)
  \/ \E p \in Priorities, c \in BOOLEAN : RegisterProcess(p, c)
  \/ \E pid \in Pids, sig \in Signals : SendSignal(pid, sig)
  \/ CheckPendingSignals
  \/ \E pid \in Pids, d \in Payloads : IpcSend(pid, d)
  \/ IpcReceiveBlock
  \/ IpcReceiveTake
  \/ \E pid \in Pids : TerminateProcess(pid)
  \/ \E then \in {"run", "exit"} : TerminateCurrent(then)
  \/ Halted
  \/ \E pid \in Pids : WaitPid(pid)
  \/ TimerInterrupt

Spec == Init /\ [][Next]_vars

-----------------------------------------------------------------------------
(***************************************************************************)
(* Properties                                                              *)
(***************************************************************************)

\* Every field of every process control block holds a value the code gives
\* it; the slots that were never handed out are as scheduler_initialize left
\* them.
TypeOK ==
  /\ active_process_count \in 1 .. SYS_MAX_TASKS
  /\ running_process_index \in Active
  /\ kernel_elapsed_ticks \in 0 .. TICK_MOD - 1
  /\ global_process_identifier_seed = MASTER_PID + active_process_count - 1
  /\ task_id \in [Index -> Pids \cup {0}]
  /\ \A i \in Active : task_id[i] \in Pids
  /\ execution_state \in [Index -> ExecutionStates]
  /\ base_priority \in [Index -> 0 .. SCHED_MAX_PRIORITY]
  /\ dynamic_priority \in [Index -> 0 .. SCHED_MAX_PRIORITY]
  /\ accumulation_cycles \in [Index -> 0 .. SCHED_PRIORITY_AGING_LIMIT - 1]
  /\ critical \in [Index -> BOOLEAN]
  /\ sleep_until_tick \in [Index -> 0 .. TICK_MOD - 1]
  /\ waiting_on_pid \in [Index -> Pids \cup {0}]
  /\ pending_signals \in [Index -> SUBSET Signals]
  /\ channel \in [Index -> Seq(Messages)]
  /\ resume \in [Index -> {"run", "recv", "exit", "reset"}]

\* No lost wakeup: a process blocked for a message (scheduler_ipc_receive)
\* has an empty channel and is still inside the receive loop, whatever sends,
\* signals, terminations and waits came in between.
NoLostWakeup ==
  \A i \in Active :
    execution_state[i] = "BLOCKED" /\ waiting_on_pid[i] = 0
      => channel[i] = << >> /\ resume[i] = "recv"

\* A blocked or stopped process has the CPU only if it is the master process,
\* to which scheduler_select_next_candidate falls back when nobody can run.
OnlyMasterOverrun ==
  me # 0 => execution_state[me] \notin {"BLOCKED", "STOPPED"}

\* A process that waits for a pid (scheduler_wait_pid) waits for somebody who
\* is still alive, unless that process was killed by SIGKILL, which releases
\* no waiter.  (Pid 100 is left out: it names two processes.)
WaiterHasTarget ==
  \A i \in Active :
    execution_state[i] = "BLOCKED" /\ waiting_on_pid[i] \notin {0, MASTER_PID} =>
      \E j \in Active :
        /\ task_id[j] = waiting_on_pid[i]
        /\ execution_state[j] # "DEAD" \/ "SIGKILL" \in pending_signals[j]

\* The seed starts at the pid of the master, so pid 100 may name two
\* processes; no other pid does.
OnlyMasterPidShared ==
  \A i, j \in Active :
    i < j /\ task_id[i] = task_id[j] => i = 0 /\ task_id[j] = MASTER_PID

\* The CPU gets into the hlt loop of scheduler_exit_stub, which no process
\* leaves, only when the process that returned is one
\* scheduler_terminate_process refuses to terminate.
HangOnlyIfProtected ==
  resume[me] = "exit" => Protected(me)

\* A dead process other than the master never comes back: no signal, message
\* or termination revives it and the selection never picks it.
DeadStaysDead ==
  [][\A k \in Active : k \notin {0, me} /\ execution_state[k] = "DEAD"
       => execution_state'[k] = "DEAD" /\ me' # k]_vars

\* A process that shares pid 100 with the master cannot be reached by pid as
\* long as the master is not dead: nobody else sends it a message or a
\* signal, and nobody terminates it, itself included.
ShadowedByMaster ==
  [][\A j \in Active : j # 0 /\ task_id[j] = MASTER_PID /\ execution_state[0] # "DEAD"
       => /\ Len(channel'[j]) <= Len(channel[j])
          /\ pending_signals'[j] \subseteq pending_signals[j]
          /\ execution_state'[j] = "DEAD" => execution_state[j] = "DEAD"]_vars

\* A runnable process never sleeps longer than the longest time anybody asks
\* for, although the tick counter wraps: an expired deadline does not come
\* back.  (Slot 0 is left out: while it is alone nobody clears its deadline.)
SleepBounded ==
  \A i \in Active \ {0} :
    execution_state[i] = "RUNNING" =>
      \/ sleep_until_tick[i] <= kernel_elapsed_ticks
      \/ \E t \in SleepTicks : sleep_until_tick[i] - kernel_elapsed_ticks <= t
=============================================================================
