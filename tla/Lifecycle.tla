----------------------------- MODULE Lifecycle ------------------------------
(***************************************************************************)
(* The processes this kernel runs, on top of Scheduler: the shell (the     *)
(* master process) with the commands lcreset, msgsend, msgrecv, kill and   *)
(* top, and the processes lcreset registers: one kernel_lifecycle_auditor  *)
(* and a number of kernel_daemon_worker, which send every message back to  *)
(* where it came from.                                                     *)
(*                                                                         *)
(* Every step is a step of Scheduler; at[i] says which call of its body    *)
(* process i makes next.  Between two calls that yield a process has the   *)
(* CPU to itself, so its calls follow one another without interleaving.    *)
(* Nothing sends signals here, so scheduler_check_pending_signals changes  *)
(* nothing; the counters of telemetry are left out.                        *)
(*                                                                         *)
(* The shell has interrupts off, the other processes have them on, and the *)
(* first interrupt resets the machine (TimerInterrupt).                    *)
(***************************************************************************)
EXTENDS Scheduler, FiniteSets

CONSTANTS
  WORKERS,         \* workers one lcreset registers (16)
  AUDITOR_SLEEP,   \* ticks the auditor sleeps (100)
  LETTERS          \* bound: letters the user sends

ASSUME LifecycleConstants ==
  /\ WORKERS \in Nat
  /\ AUDITOR_SLEEP \in SleepTicks \ {0}
  /\ SCHED_MAX_PRIORITY \in Priorities
  /\ SCHED_DEFAULT_PRIORITY \in Priorities
  /\ LETTERS \in Nat
  /\ Payloads = 1 .. LETTERS

VARIABLES
  body,      \* what each slot executes
  at,        \* the call it makes next
  letter,    \* packet_buffer and sender_id of each worker
  to_come,   \* registrations lcreset has still to make
  posted,    \* history: letters msgsend has sent, numbered from 1
  heard,     \* history: the set of messages msgrecv has shown
  dropped    \* history: letters whose echo was refused

lifecycle == <<body, at, letter, to_come>>
history == <<posted, heard, dropped>>
lvars == <<vars, lifecycle, history>>

NoLetter == [sender_id |-> 0, data |-> 0]

LifecycleInit ==
  /\ Init
  /\ body = [i \in Index |-> IF i = 0 THEN "shell" ELSE "none"]
  /\ at = [i \in Index |-> "prompt"]
  /\ letter = [i \in Index |-> NoLetter]
  /\ to_come = << >>
  /\ posted = 0
  /\ heard = {}
  /\ dropped = {}

Goto(point) == at' = [at EXCEPT ![me] = point]
Shell(point) == me = 0 /\ at[0] = point
MachineReset == resume[me] = "reset"

-----------------------------------------------------------------------------
(***************************************************************************)
(* The commands of the shell.  At the prompt it polls the keyboard and     *)
(* never yields.                                                           *)
(***************************************************************************)
\* cmd_lifecycle_reset: system_lifecycle_bootstrap.
Reset ==
  /\ Shell("prompt")
  /\ to_come' = <<"auditor">> \o [n \in 1 .. WORKERS |-> "worker"]
  /\ Goto("bootstrap")
  /\ UNCHANGED <<vars, body, letter, history>>

\* One turn of the bootstrap; a registration that finds the table full is
\* skipped, since its result is not looked at.
Bootstrap ==
  /\ Shell("bootstrap")
  /\ to_come # << >>
  /\ to_come' = Tail(to_come)
  /\ \/ /\ active_process_count = SYS_MAX_TASKS
        /\ UNCHANGED <<vars, body, at>>
     \/ /\ IF Head(to_come) = "auditor"
             THEN RegisterProcess(SCHED_MAX_PRIORITY, TRUE)
             ELSE RegisterProcess(SCHED_DEFAULT_PRIORITY, FALSE)
        /\ body' = [body EXCEPT ![active_process_count] = Head(to_come)]
        /\ at' = [at EXCEPT ![active_process_count] =
                    IF Head(to_come) = "auditor" THEN "sleep" ELSE "receive"]
  /\ UNCHANGED <<letter, history>>

BootstrapDone ==
  /\ Shell("bootstrap")
  /\ to_come = << >>
  /\ Goto("prompt")
  /\ UNCHANGED <<vars, body, letter, to_come, history>>

cmd_msgsend(pid) ==
  /\ Shell("prompt")
  /\ posted < LETTERS
  /\ IpcSend(pid, posted + 1)
  /\ posted' = posted + 1
  /\ UNCHANGED <<lifecycle, heard, dropped>>

\* Mutant of cmd_msgrecv: it gives up when nothing has come after a yield.
cmd_msgrecv_once ==
  /\ \/ /\ Shell("prompt")
        /\ IpcReceiveBlock
        /\ Goto("msgrecv")
        /\ UNCHANGED heard
     \/ /\ Shell("msgrecv")
        /\ UNCHANGED <<vars, heard>>
        /\ Goto("prompt")
     \/ /\ Shell("prompt")
        /\ IpcReceiveTake
        /\ heard' = heard \cup {Head(channel[0])}
        /\ Goto("prompt")
  /\ UNCHANGED <<body, letter, to_come, posted, dropped>>

cmd_msgrecv ==
  /\ Shell("prompt") \/ Shell("msgrecv")
  /\ \/ /\ IpcReceiveBlock
        /\ Goto("msgrecv")
        /\ UNCHANGED heard
     \/ /\ IpcReceiveTake
        /\ heard' = heard \cup {Head(channel[0])}
        /\ Goto("prompt")
  /\ UNCHANGED <<body, letter, to_come, posted, dropped>>

cmd_kill(pid) ==
  /\ Shell("prompt")
  /\ TerminateProcess(pid)
  /\ UNCHANGED <<lifecycle, history>>

\* cmd_top yields until a key ends it.
TopStart == Shell("prompt") /\ Goto("top")
              /\ UNCHANGED <<vars, body, letter, to_come, history>>
TopYield == Shell("top") /\ Yield /\ UNCHANGED <<lifecycle, history>>
TopQuit == Shell("top") /\ Goto("prompt")
              /\ UNCHANGED <<vars, body, letter, to_come, history>>

-----------------------------------------------------------------------------
(***************************************************************************)
(* kernel_daemon_worker                                                    *)
(***************************************************************************)
Worker(point) == body[me] = "worker" /\ at[me] = point /\ ~MachineReset

\* Mutant of WorkerReceive: the message stays in the channel.
WorkerReceive_peek ==
  /\ Worker("receive")
  /\ \/ /\ IpcReceiveBlock
        /\ UNCHANGED <<at, letter>>
     \/ /\ channel[me] # << >>
        /\ resume' = [resume EXCEPT ![me] = "run"]
        /\ NoSwitch(execution_state)
        /\ UNCHANGED <<ProcessTable, waiting_on_pid, pending_signals, channel>>
        /\ letter' = [letter EXCEPT ![me] = Head(channel[me])]
        /\ Goto("echo")
  /\ UNCHANGED <<body, to_come, history>>

WorkerReceive ==
  /\ Worker("receive")
  /\ \/ /\ IpcReceiveBlock
        /\ UNCHANGED <<at, letter>>
     \/ /\ IpcReceiveTake
        /\ letter' = [letter EXCEPT ![me] = Head(channel[me])]
        /\ Goto("echo")
  /\ UNCHANGED <<body, to_come, history>>

\* Mutant of EchoTarget: the echo goes back to the worker.
EchoTarget_self == task_id[me]

EchoTarget == letter[me].sender_id

\* The echo is refused when the channel it goes to is full or the sender is
\* gone; the worker does not look at the result.
Refused(pid) ==
  \A i \in Index : IsFirstLive(i, pid) => Len(channel[i]) >= SCHED_IPC_MAX_MESSAGES

WorkerEcho ==
  /\ Worker("echo")
  /\ Goto("yield")
  /\ \/ /\ IpcSend(EchoTarget, letter[me].data)
        /\ UNCHANGED dropped
     \/ /\ Refused(EchoTarget)
        /\ dropped' = dropped \cup {letter[me].data}
        /\ UNCHANGED vars
  /\ UNCHANGED <<body, letter, to_come, posted, heard>>

\* packet_buffer is not read again before the next receive.
WorkerYield ==
  /\ Worker("yield")
  /\ Yield
  /\ Goto("receive")
  /\ letter' = [letter EXCEPT ![me] = NoLetter]
  /\ UNCHANGED <<body, to_come, history>>

(***************************************************************************)
(* kernel_lifecycle_auditor                                                *)
(***************************************************************************)
AuditorSleep ==
  /\ body[me] = "auditor" /\ at[me] = "sleep"
  /\ Sleep(AUDITOR_SLEEP)
  /\ Goto("yield")
  /\ UNCHANGED <<body, letter, to_come, history>>

AuditorYield ==
  /\ body[me] = "auditor" /\ at[me] = "yield"
  /\ Yield
  /\ Goto("sleep")
  /\ UNCHANGED <<body, letter, to_come, history>>

-----------------------------------------------------------------------------
\* What the user chooses, and what the machine does by itself.
Command ==
  \/ Reset
  \/ \E pid \in Pids : cmd_msgsend(pid)
  \/ Shell("prompt") /\ cmd_msgrecv
  \/ \E pid \in Pids : cmd_kill(pid)
  \/ TopStart
  \/ TopQuit

Machine ==
  \/ Bootstrap
  \/ BootstrapDone
  \/ Shell("msgrecv") /\ cmd_msgrecv
  \/ TopYield
  \/ WorkerReceive
  \/ WorkerEcho
  \/ WorkerYield
  \/ AuditorSleep
  \/ AuditorYield

Interrupt == (TimerInterrupt \/ Halted) /\ UNCHANGED <<lifecycle, history>>

LifecycleNext == Command \/ Machine \/ Interrupt

\* A process that has the CPU and waits for no key goes on, unless an
\* interrupt ends it and everything else.
LifecycleSpec == LifecycleInit /\ [][LifecycleNext]_lvars /\ WF_lvars(Machine)

-----------------------------------------------------------------------------
(***************************************************************************)
(* Properties                                                              *)
(***************************************************************************)
Workers == {i \in Active : body[i] = "worker"}
Held(i) == at[i] = "echo"
Unread(i) == {k \in DOMAIN channel[0] : channel[0][k].sender_id = task_id[i]}
Rising(s, S) == \A j, k \in S : j < k => s[j].data < s[k].data

\* The way of the letters that pass through worker i, seen from its end: shown
\* by msgrecv, echoed and unread, in the worker, waiting for it.
Stages(i) ==
  <<{m.data : m \in {m \in heard : m.sender_id = task_id[i]}},
    {channel[0][k].data : k \in Unread(i)},
    {n \in {letter[i].data} : Held(i)},
    {channel[i][k].data : k \in DOMAIN channel[i]}>>

\* The echoes of one worker reach the shell in the order its letters were
\* sent, however yields, kills and resets come in between; a full channel
\* only leaves gaps.
EchoInOrder ==
  \A i \in Workers :
    /\ Rising(channel[0], Unread(i))
    /\ Rising(channel[i], DOMAIN channel[i])
    /\ \A s, t \in 1 .. 4 :
         s < t => \A a \in Stages(i)[s], b \in Stages(i)[t] : a < b

\* Where letter n is: shown by msgrecv, in a channel, held by a worker, or
\* lost because its echo was refused.
ShownAt(n) == {<<"heard", m.sender_id, 0>> : m \in {m \in heard : m.data = n}}
QueuedAt(n) ==
  UNION {{<<"channel", i, k>> : k \in {k \in DOMAIN channel[i] : channel[i][k].data = n}}
           : i \in Index}
HeldAt(n) == {<<"held", i, 0>> : i \in {i \in Index : Held(i) /\ letter[i].data = n}}
LostAt(n) == {<<"dropped", 0, 0>> : d \in dropped \cap {n}}
Places(n) == ShownAt(n) \cup QueuedAt(n) \cup HeldAt(n) \cup LostAt(n)

\* Every letter msgsend sent is in exactly one place: yields, kills, refused
\* echoes and repeated resets neither lose one silently nor double it.
LettersAccounted == \A n \in 1 .. posted : Cardinality(Places(n)) = 1

\* A letter is on its way: it will reach the shell unless the user kills the
\* worker that has it.
OnItsWay ==
  \/ channel[0] # << >>
  \/ \E i \in Workers : /\ execution_state[i] # "DEAD"
                        /\ channel[i] # << >> \/ Held(i)
Waiting == at[0] = "msgrecv"

\* A process climbs from the default priority to the ceiling in Climb
\* selections, so in that time no other one gets the CPU twice, except the
\* auditors: they stay at the ceiling and take two turns each between two
\* sleeps.  If all this fills the climb, some processes may never get the CPU.
\* (In the kernel, from 50 auditors on, and there is room for 61: every lcreset
\* adds one, with 16 workers.)
Auditors == {i \in Active : body[i] = "auditor"}
Climb == SCHED_PRIORITY_AGING_LIMIT * (SCHED_MAX_PRIORITY - SCHED_DEFAULT_PRIORITY)
AuditorTurns ==
  2 * Cardinality(Auditors) * ((Climb + AUDITOR_SLEEP) \div (AUDITOR_SLEEP + 1))
Crowded ==
  AuditorTurns + Cardinality(Active \ Auditors) - 1 \notin 0 .. Climb - 1

\* msgrecv comes back when a letter is on its way, whatever the priority of
\* the shell: it yields, the workers get the CPU and the echo wakes the shell.
\* What can prevent it is an interrupt, which resets the machine, or too many
\* auditors.
ReplyArrives == Waiting /\ OnItsWay ~> ~Waiting \/ MachineReset \/ Crowded

\* Whether msgrecv comes back is decided when it is called.  A letter on its
\* way stays on its way: while the shell waits nobody can kill the worker that
\* has it, and the echo finds room.  With none on its way nobody else sends,
\* and the keyboard is not read: the machine is then lost.
MsgrecvDecided ==
  [][Waiting => IF OnItsWay THEN Waiting' => OnItsWay'
                            ELSE Waiting' /\ ~OnItsWay']_lvars

\* While the shell yields, every runnable process gets the CPU, although the
\* auditors have the highest priority: their sleep leaves the others their
\* turn, until lcreset has been repeated so often that it does not, or an
\* interrupt resets the machine.
DaemonsRun ==
  \A i \in Index :
    []<>(me = i \/ i \notin Active \/ execution_state[i] # "RUNNING"
         \/ at[0] \in {"prompt", "bootstrap"} \/ MachineReset \/ Crowded)
=============================================================================
