# WhiteX kernel: TLA+ models, checks and proofs

The WhiteX kernel (`src/i386/whitex/`) is a 32-bit hobby kernel: one CPU, one
address space, everything included into `Kernel.c`. No interrupt has a handler:
every gate of the table is absent (`idt.h:65`). The shell runs with interrupts off
(`cli`), but a registered process starts with EFLAGS 0x202 (`multitasking.h:321`),
which turns them on; the timer runs and no line is masked, so the first timer
interrupt there resets the machine, at any point. Otherwise control moves between
processes only inside `scheduler_yield`, and whatever runs between two yields is
atomic. This is the concurrency the models have.

## 1. Inventory

| Component | State | Operations | Interacts with | Hard behaviour |
|---|---|---|---|---|
| Scheduler (`multitasking.h`) | process table, running index, tick counter, pid seed | register, yield, sleep, send_signal, check_pending_signals, ipc_send, ipc_receive, terminate_process, terminate_current, wait_pid | allocates from the page allocator; called by the shell commands and daemons (`tasks.h`, `sys_tools.h`) | state read before a yield and used after it; wakeups; a fallback to slot 0; signals against blocked processes; priorities and starvation; a wrapping clock; interrupts without a handler |
| IPC channel (`ipc_channel_t`) | ring with head, tail, count | send, receive | part of a process control block | full and empty ring |
| File system (`fs.h`, `fssdd.h`) | `storage[]`, `current_dir` | init_fs, mkdir, touch, cd, rm, sync (ls, pwd print) | block device | slots reused while entries still name them; rm of a directory with entries |
| Block device (`sdd.h`) | device type, disk | Sdd, read, write | file system | missing device, drive timeout in the middle of a sync |
| Page accounting, OOM killer (`oomk.h`) | zones with free pages and watermarks, task list, counters | sys_oom_init, sys_alloc_pages, sys_register_task, new_task, monitor check | scheduler (registration), main loop (monitor) | retries that change several counters; killing; unsigned counters |
| Shell (`Kernel.c`) | `g_env` flags, log ring, tick counter | main loop, dispatch, sudo, logs, integrity checks, panic | all commands | privilege flags over sequences of commands; ring; table bounds |
| Login (`login.h`), keyboard (`keyboard.h`) | attempts; line buffer, modifiers | login, scan, scan_password | every command reads its lines here; some read the controller themselves | two readers over the same modifiers; codes of two bytes, shifts a keyboard makes up; codes taken by somebody else; a full line |
| Network (`internet.h`, `pkg.h`, `ping.h`) | buffer pool, ARP cache, TCP control blocks, e1000 rings and base address | alloc/free, ARP, IP, ICMP, TCP, poll, socket calls, ping | card (DMA) | ownership of buffers, cache replacement, connection states, ring indices, a transmission without a card |
| Lifecycle (`tasks.h`) and process commands (`sys_tools.h`) | what each process does next, the letter a worker holds | lcreset, msgsend, msgrecv, kill, top; the bodies of the workers and of the auditor | scheduler, shell | a shell that waits for a message nobody sends; echoes refused by a full channel; a daemon at the highest priority |
| Mutex (`sys_tools.h`) | state, owner | init, lock, unlock | scheduler | holder killed, stopped or ended; two processes with one pid |
| Heap (`malloc.h`) | block headers | malloc, free | new_task | a last block that does not fit |
| Calculator (`calc.h`) | stacks of values and operators | one call per expression | shell | stack limits, precedence, malformed input, int arithmetic |
| Paging (`paging.h`), VM (`vm.h`), editors, clock, console, power, tables and fault screens | see `PROJECT.json` | | | |

What makes the modelled components correct: no process sleeps on a message that
has arrived; nobody but the master runs while blocked; the dead stay dead; a
waiter's target can still end; runnable processes get the CPU; a channel is a
queue; the working directory exists and hangs from the root; page counts balance
and keep the reserve; a protected task is not killed; every letter given to a worker
comes back once, in order, or is known to be dropped; a mutex has one holder; an
expression gets the value of its tree. `PROJECT.json` lists the hazards with the line
where each one bites.

## 2. Modules

| Module | Models | Proved in |
|---|---|---|
| `Scheduler` | `multitasking.h` | `SchedulerProofs` |
| `IpcChannel` | the ring in `ipc_channel_t`; implements `BoundedFifo` | `IpcChannelProofs` |
| `FileSystem` | `fs.h`, `fssdd.h`, writing in `sdd.h` | `FileSystemProofs` |
| `Lifecycle` | `tasks.h` and the process commands of `sys_tools.h`, on top of `Scheduler` | `ProcessProofs` |
| `Mutex` | the mutex of `sys_tools.h`, on top of `Scheduler` | `ProcessProofs` |
| `OomControl` | `oomk.h`, the allocations of `scheduler_register_process`, `whitex_malloc` for `new_task` | `OomControlProofs` |
| `Calc` | `calc.h` | `ShellProofs` |
| `Network` | `internet.h`, `pkg.h`, `ping.h`, and the e1000 card as external | `NetworkProofs` |
| `Shell` | `Kernel.c`, `login.h`; its log ring implements `RecentLog` | `ShellProofs` |
| `Keyboard` | `keyboard.h`, `scan_password` of `login.h`; implements `LineEditor` | `KeyboardProofs` |
| `MC*` | the instances TLC checks | |

Operators named `X_something`, directly before `X`, are mutants of `X`: small
mistakes of the kind the code could contain. Replacing `X` by the mutant must
make TLC report the property paired with it in `PROJECT.json`; this shows that
the property depends on the code.

**Scheduler.** One variable per field of the process control blocks and of
`g_system_scheduler`; `resume[i]` is where process `i` continues when it gets the
CPU: its own code, the loop of `scheduler_ipc_receive`, the `hlt` loop of
`scheduler_exit_stub`, or nowhere, because `TimerInterrupt` has reset the machine while
it ran; that ends the behaviour, and what boots afterwards begins another one. Only registered processes have
interrupts on (`InterruptsOn`): the master's own flags, which each switch saves and restores, have them off. Each action is a whole call up to the next point where
control can move, the trailing `scheduler_yield` with aging, selection, clearing
of expired deadlines and priority reset included. Calls that only return an error
code are stuttering steps. Left out: performance metrics, parent ids, message
lengths and types, signal handlers (code of the process itself), the register
frame of the context switch. Two things are assumed and are not true of every
state the code can reach: the memory of a new process is its own (in fact
`sys_alloc_pages` returns an address that depends only on the number of pages
reclaimed, `oomk.h:251`), and a new process starts at its entry point (the frame
built by `scheduler_register_process` must fit the epilogue the compiler gives
`scheduler_yield`).

**Lifecycle.** `Scheduler` with the bodies its processes have in this kernel: `at[i]` is the
call process `i` makes next, and every step is one of the scheduler's operations with the
arguments the body gives it, or a step of the shell between two of them. The shell is the
master; at its prompt it polls the keyboard and does not yield, so nothing else runs. One
`lcreset` registers an auditor at the highest priority and the workers, and may be repeated
until the table is full. `posted`, `heard` and `dropped` are histories. `system_lifecycle_bootstrap`
does not look at the results of its registrations, so a full table is skipped over. The counters that
`telemetry` prints are left out, as is `dummy_task_procedure`, whose only user `newtask2` has no caller.
`Interrupt` is the timer's, in a daemon.
The daemons exist only where registration works: as this kernel boots, without `sys_oom_init`,
the first one ends in a panic or a divide error (see **OomControl**).

**Mutex.** Any number of processes of `Scheduler` lock, unlock and otherwise do what processes
do. `mutex_lock` yields only while it finds the mutex taken, so its last test and its assignments
are one step. Nothing in the repository calls the mutex yet; the model says what a caller gets.

**IpcChannel.** The ring of one process. `Scheduler` has a sequence in its place;
`IsFifo` shows that the ring is that sequence (`Contents`), message for message.

**FileSystem.** The fields of `storage[]` as functions, `current_dir`, and the disk
image block by block. `path` is a history variable: the directories the user
walked through. Names have at most 31 characters. A node is taken to lie in one
block, while in the code some nodes straddle two; the sync property does not
depend on it.

**OomControl.** A call of `sys_alloc_pages` in progress is the variable `call`, with its
`retry_count` and what its caller does next; its steps (test, slab caches, page cache,
killer, panic) follow one another with no other action between them, because nothing
there yields and the zone locks are free. The statistic `total_oom_kills`, which only
`htop` prints, is left out. Initial states are those after `sys_oom_init`, and the zeroed ones,
which are the only ones this kernel has, because `sys_oom_init` is never called.
A task is a record at an address: `task_array` holds addresses, and two registrations get the
same address when nothing was reclaimed between them, so the second record replaces the first.
`scheduler_register_process` is here with its two allocations, either of which may kill, also
the task being registered; `Scheduler` has the rest of it. `new_task` takes its record from the heap; since
`whitex_free` has no caller that can run, the heap is the number of its blocks.
`sys_oom_monitor_check` is the predicate `MonitorFires`; `MonitorSilent` shows that
the main loop's check never finds anything to do.

**Calc.** `cmd_calc_handler` token by token; each turn of its three loops that applies the top operator
is a step. A numeral is a model value with the int its digits add up to. int is `WIDTH` bits wide and wraps,
which is what the instructions do that the compiler emits for this code; the division of the
smallest int by -1 is the processor's divide error. What is right is a grammar (`GrammarAssumption`): which
expressions have which result, by numerals, parentheses and four levels of operators, all applied from the
left. The constant `Reading` is any relation that obeys it, and `CalcCorrect` compares the calculator with it; only the arithmetic of
one operator is shared with the model. `MCCalc` gives `Reading` the results of a recursive
evaluation of the tokens as a tree. `CalcCorrect` speaks of expressions read to their end: an error
found while tokens are still to come is not compared. `itoa2` is left out; it
has no digits for the smallest int, whose negation is negative.

**Network.** `internetmain` polls and has the CPU to itself; it waits in one place, the
loop at the end of `wx_e1000_tx_raw`. The command `ping` (`Ping`, `PingDone`) transmits from the shell, with
or without `internet` having run before: `e1000_base` is 0 until then, and what the driver writes to the tail register
reaches no card. It pings 127.0.0.1, which no peer has, so what goes out is an ARP request. Handling a frame is therefore one step, or two
steps (a `Poll` action that ends in `Transmit`, then `TxDone`) with steps of the card between them.
`sending` holds what the driver does when the loop ends. What a handler does is
computed by operators on the set of buffers in use (`Alloc`, `IpSend`, `Respond`,
`ArpProcess`), one per C function. The card (`CardReceive`, `CardSkip`,
`CardTransmit`) is external, modelled from the descriptors and registers the driver
uses: it fills from `RDH` up to `RDT` and reads from `TDH` up to `TDT`. Peers follow
their protocols: they acknowledge a SYN-ACK only when they have one. Frames carry
what the handlers tell apart; header layout, lengths and checksums are left out, and
so are frames longer than a buffer. A peer is an address with one TCP port. The pool is
assumed to hold at least three buffers (the code has 256), the most one frame needs.

**Shell.** One action per line read, since a line is handled to its end; `sudo` reads
two more. A command is its record in the dispatch table, one for each shape a record
has; what the commands do is in the other modules. `Contents` is the log as
`cmd_sys_logs` reads it. Functions of `Kernel.c` that nothing calls
(`sys_open_safe`, `sys_kill_protect`, `sys_vm_init`, `cmd_sys_logs`) are no actions, so the
protection once lifted never comes back.

**Keyboard.** `keyboard_handler` is one step per scan code, as is the body of the loop in
`scan_password`; both work on the same line and modifiers. `CommandRead` is a command
that polls the controller for its own key (`cmd_top`, `internetmain`, the clock) and drops what
it reads. The keyboard itself is external (`Press`, `Release`): one key for each way the
code treats a scan code, codes in the order the keys move, a prefix and its code sent
together. The shifts a keyboard makes up, with a prefix, around an arrow or Print Screen may come at any time. The controller's queue does not overflow. `missed` and `split`
remember what somebody else took, `outlived` that the prefix of a made-up shift has not been forgotten; no reader looks at them.

## 3. Runs

| Run | Instance | Shows |
|---|---|---|
| `scheduler_ipc` | 3 slots, one priority, SIGSTOP, SIGCONT, 1 message per channel | `NoLostWakeup`, `OnlyMasterOverrun`, `HangOnlyIfProtected`, `ShadowedByMaster` |
| `mutex` | 3 slots, aging, SIGKILL, SIGSTOP | `MutualExclusion`, `NeverReclaimed`, `WaiterHasTarget`, `DeadStaysDead` |
| `lifecycle` | 5 slots (shell and two of auditor and worker), channels of 2, clock modulo 5, sleep of 3; 3 letters, or 2 when `lcreset` is repeated | `EchoInOrder`, `LettersAccounted`, `SleepBounded`, `ReplyArrives`, `MsgrecvDecided`, `DaemonsRun` |
| `ipc_channel` | ring of 4, 3 messages | `IsFifo` |
| `file_system` | 5 slots, names `root` and `a` | `WorkingDirRooted`, `NoDirectoryCycle`, `OrphanKept` |
| `file_system_sync` | 3 slots, blocks of 2 | counterexample to `SyncedMeansOnDisk` |
| `network` | 2 peers, one with two addresses; 3 buffers, cache of 1; 3 and 3 descriptors | `BuffersAccounted`, `RxWindow`, `StuckOnlyOutOfStep`, `StaleOnlyAfterRestart`, `CacheCoherent`, `EstablishedAnswered`, `HalfOpenExplained`, `OneHandshake` |
| `network_fair` | one peer; 3 buffers; 3 and 2 descriptors | `FramesConsumed` |
| `keyboard` | 9 keys, lines of 2 characters, 2 codes waiting | `NoStuckShift`, `PrefixPaired`, `IsLineEditor` |
| `shell` | log of 3 entries, tick period 3 | `NeverPanics`, `RootLogged`, `IsRecentLog` |
| `calc` | 4-bit int, stacks of 4, four numerals, five operators, expressions of 7 tokens and any input of 5 | `StackDiscipline`, `CalcCorrect` |
| `oom_control` | zones of 0, and of 96 and 256 pages; requests of 5 and 60; tasks of 1 and 100 pages; a heap of 3 blocks and a bit | `MonitorSilent`, `PagesAccounted`, `OnlyKillsOverfill`, `ProtectedSurvive`, `HeapHolds` |

*Bounds.* Three slots are the master, its namesake with pid 100 and a process with a
pid of its own: every rule on pids tells these three apart. In the runs without
sleeping the clock is constant (`TICK_MOD = 1`), which no guard can notice when
nobody sleeps. Five file slots allow two directories on a path, a reused slot and
an orphan at once; one ordinary name suffices because duplicates are allowed.
The zones give every watermark a value above 0, and the requests reach the slab
stage, the page-cache stage, the killer and both ways it ends; `MAX_RECLAIMED`
stops requests once that many pages were reclaimed, since the counter only grows.

Three receive descriptors leave the card two, so that frames queue up and the ring
wraps while the driver waits; three transmit descriptors tell an index one too far
from one that wrapped (`network_fair` has two, which it does not need to tell apart).
A received frame, its answer and the ARP request that replaces it take three buffers,
so the pool is used to its end; one cache entry for two peers makes the cache full. The two addresses of the first peer can be exchanged (`SYMMETRY`);
frames that are dropped in any case come in `network_fair`.
In `scheduler_ipc` there is one priority level, so the lowest runnable slot runs and the
others get the CPU when it blocks or stops; `mutex` and `lifecycle` have aging, and
the theorems on the scheduler hold for all priorities. In `lifecycle` five slots are filled by
two `lcreset`, and a third finds no room; two auditors are where `Crowded` begins with these
constants, as 50 are in the kernel; a channel of two messages is full with two
unread echoes, so the third is refused; the clock wraps during a sleep. `UserBound`, in `MCLifecycle`,
lets the user send the third letter only as long as there is one auditor; it restricts the user's commands and no step of the machine. In `calc` seven tokens
are two parenthesised operators or four operands, five values fill a stack of four, and one operator of each kind
(two of the kind of `*`, which tells the order of equal precedence) is enough because the code
looks at precedences only; in a 4-bit int the numerals 8 and 15
wrap to -8 and -1, so that the one quotient that does not fit occurs.
In `oom_control` two task slots are the victim and the
protected task, or two that share a record. Two codes on the wire are a prefixed
key, or a key with the release of another; two characters are a line that can be full, erased and
full again. Three log entries hold a failed `sudo`, a later one and its command.

*Deadlock.* It is checked in the runs of the scheduler, the mutex, the daemons, the channel, the file system,
the keyboard and the killer. The scheduler's model always has a step: a process that waits for ever
hands the CPU to the master. The network, shell and calculator runs do not check it, because
those really stop: the driver in the transmit loop when the card has nothing to send
(`StuckOnlyOutOfStep` says when), the shell after three failed logins, the calculator after its output.

*Fairness.* `lifecycle` assumes weak fairness of `Machine`: a process that has the CPU and does not
wait for a key makes its next call. The bodies are loops without other exits
(`kernel_daemon_worker`, `kernel_lifecycle_auditor`, `cmd_top`, the loop in `scheduler_ipc_receive`).
A timer interrupt may come instead whenever a registered process has the CPU, and nothing keeps it away: `Interrupt` is a
step without fairness, after which `Machine` is disabled, and `ReplyArrives` and `DaemonsRun` promise
their goal *or* the reset. Nothing is assumed about the user's commands, `lcreset` included. The scheduler's
aging is fair up to a limit that the kernel's constants do not respect: a process at the default priority
needs `Climb` = 40000 selections to the ceiling, where the auditors stay and take two turns each between two sleeps. From 50 auditors on these
turns fill the climb, and there is room for 61. Both properties state the exception (`Crowded`), computed from the
constants and the processes registered.

`network_fair` assumes that polling, the transmit loop and the card's reading of
transmit descriptors go on while they can: the first two run in the shell, with interrupts off, and have the CPU to themselves;
the last is what the card is for. Nothing is assumed about arriving frames.

*What the runs found.* `Sdd_Sync` prints "FS Synced to Disk." whether or not
`write_block` succeeded, a text `test.sh` counts as success. `panic` and `nano`, which `help` lists,
call nothing: their records in the dispatch table have the routine in the column for commands with an
argument, and `requires_args` 0 (`Kernel.c:430`, `Kernel.c:433`). Also visible in the
models, without a run of its own: the first timer interrupt in a registered process resets the machine
(`TimerInterrupt`); `ping` before the first `internet` waits for ever (the exception in `StuckOnlyOutOfStep`); after Shift with an arrow, or
Print Screen, the next key may be swallowed, because the press of a made-up shift leaves `is_extended` set (the exception in `PrefixPaired`);
from 50 auditors on, the other processes may never run (`Crowded`); `pkg start` leaves its socket in state 2, which is not the listening
state its comment names (`pkg.h:9`); an arrow key types a digit into a password, since `scan_password`
ignores the prefix and not the code behind it; the first
registered process shares pid 100 with the master and cannot be killed
(`ShadowedByMaster`); SIGKILL releases no waiter (the exception in
`WaiterHasTarget`); a critical process that returns stays in the `hlt` loop, until an interrupt resets the machine
(`HangOnlyIfProtected`); the killer credits pages to a zone that did not lose
them (`OnlyKillsOverfill`); a run of `internet` serves one peer, and if its
hardware address is unknown when its SYN comes, none (`OneHandshake`,
`HalfOpenExplained`); running `internet` again can make the driver skip or overwrite
frames, send old data or wait for ever (the exceptions in `RxWindow`,
`StaleOnlyAfterRestart` and `StuckOnlyOutOfStep`); without `sys_oom_init` the first process
registration is a divide error; `msgrecv` with no letter on its way takes the machine down with it
(`MsgrecvDecided`); the master and its namesake open each other's mutex (the exception in `MutualExclusion`), and a
mutex whose holder was killed is lost (`NeverReclaimed`); a critical task can be killed in the place of
another whose record has the same page (the exception in `ProtectedSurvive`); a deadline computed just before the clock
wraps may be 0, which is no deadline, so that sleep ends at once; the calculator
accepts input that is no expression, such as `1 2 +`, and divides the smallest int by -1.

## 4. Proofs

TLAPS proves the following for every value of the constants that satisfies the
named assumptions (`SchedulerConstants`, `ChannelConstants`, `FileSystemConstants`, `KeysAssumption`,
`LimitAssumption`, `LifecycleConstants`, `CalcConstants`, `GrammarAssumption`, `NetworkConstants`, `OomConstants`, `ShellConstants`).
`GrammarAssumption` says that `Reading` is closed under the rules of the grammar, so what is proved holds in particular for the least such relation, the
meaning of expressions; TLC evaluates it on the `calc` run for the evaluation of trees.

* **Scheduler.** `SchedulerInv` is inductive: `TypeOK`, pids drawn in increasing order
  (`PidInv`), `NoLostWakeup`, `OnlyMasterOverrun`, `HangInv`, `KillInv` and
  `WaiterHasTarget`. `HangOnlyIfProtected` alone is not inductive: a process inside
  the hlt loop must be dead if it is not protected, and the dead must not be
  selected, which needs the result of the selection (`YieldResult`).
  `WaiterHasTarget` needs `KillInv` (a process dead by SIGKILL keeps the bit, because
  only its own code clears it) and unique pids (the release loop looks at pids, the
  waiter at processes). `NoLostWakeup` is about two processes: a send wakes the
  receiver it finds, and only the receiver itself can block again; an interrupt finds no receiver in its loop, because
  only the master runs while blocked (`OnlyMasterOverrun`) and the master has interrupts off. `ShadowedByMaster` follows from
  `PidInv`: the master is the first slot of its pid.
* **Lifecycle and Mutex.** Both are shown to implement `Scheduler` (`LifecycleImplementsScheduler`,
  `MutexImplementsScheduler`), so `SchedulerInv` and the theorems above hold for them.
  `LifecycleInv` says what the bodies add: where each process is (`CodeOK`), that a daemon with the CPU is runnable
  (`DaemonRuns`), and that only auditors have deadlines, none of them past (`SleepInv`). `SleepBounded` alone is not
  inductive: a deadline left behind would be ahead again when the clock wraps, so the proof needs that every
  selection clears the expired ones.
  `MsgrecvDecided` has two halves. With no letter on its way nobody can produce one: workers only send what they hold. A letter
  on its way is not lost: only the shell calls kill and it waits, the shell itself is alive (`MasterLives`), and by `MailInv` an echo goes to the shell's
  channel or finds it full, and then a letter is unread there. For the mutex, `MutexInv`
  ties `state` and `owner_pid` to `holds`: the owner's pid is the pid of whoever holds it.
* **The letters of Lifecycle.** The lemma `Moves` says what any step does to the letters: nothing, a new process with
  an empty channel, a letter posted, shown, taken, echoed or refused. `WorkerInv`: no worker has the master's pid.
  The first process registered does get it, but that is always an auditor, since `lcreset` registers the auditor first
  (`AuditorFirst`). With the unique pids of `SchedulerInv` an echo therefore never goes to a worker, and `MailInv` holds: all
  a worker has comes from the shell, and every message in a channel, held or shown has a sender in the table and a
  number already sent. Each move then takes the first letter of one stage (channel, worker, shell's channel, shown)
  to the end of the next, which is why `OrderInv`, hence `EchoInOrder`, is kept.
  `AccountInv` says of each letter that it has exactly one place; `Places` has then one element.
* **IpcChannel.** `TypeOK` and `WindowFilled` are inductive; the refinement of
  `BoundedFifo` follows step by step from arithmetic modulo the capacity.
* **FileSystem.** `WorkingDirRooted` needs that the path visits no slot twice, so
  that `rm`, which takes an entry of the last directory, cannot hit the path.
  `NoDirectoryCycle` is inductive next to it. A new node may land in a slot that orphans still name as their parent; if that closed
  a cycle, the cycle would contain the working directory and with it a part of the path, and that part
  would have been a cycle already.
* **OomControl.** `OomInv` is `PagesInv` and `TasksInv`. For the pages, the watermarks of a zone are in order and a
  shrinker never goes past the high one, so `MonitorSilent`, `PagesAccounted` and `OnlyKillsOverfill` are inductive
  with their types. `ProtectedSurvive` needs `RecordInv`: unless a later task has the same address, the record the killer reads has the flags the
  task was registered with. `HeapHolds` needs `HeapInv`: every block belongs to a task in the list, but for one whose
  registration stopped the kernel.
* **Shell.** `ShellInv` has three parts. `RingInv`: head, tail and count of the log describe one window of messages; from it
  each `LogWrite` is one step of `RecentLog`, with the arithmetic modulo the capacity done once, in `RingArithmetic`. `RootInv` states `RootLogged` between the two
  questions of `sudo` too. `GuardInv`: the guard word is cleared only together with `isolation_active`.
* **Keyboard.** `KeyboardInv` adds to `TypeOK` what the codes not yet read look like:
  a prefix is followed by its own code (`WireInv`), and a shift key whose code waits
  is still down or has its release behind it (`ShiftInv`). `NoStuckShift` needs the
  latter, since reading such a code sets `shift_pressed`. `PrefixPaired` speaks of
  `scan` only; `PrefixInv` says it for every reader: a code comes without its prefix only if the last reader took
  that (`split`), and `is_extended` is set without such a code only while `outlived` holds. The refinement of `LineEditor`
  needs `LineInv`: the buffer is blank behind the line, so the copying loop stops there.

* **Calc.** `CalcInv` adds to `StackDiscipline` what the stacks contain; an operator is pushed only when the loop
  has left nothing on top that binds as tightly, and popping keeps the order.
  `CalcCorrect` is proved from `CalcReads`, which takes the two stacks for an unfinished parse of the tokens dealt with:
  `Stacked` gives each operator that waits its place in the text and a left operand that the grammar reads as the value
  beneath it, `ExpectsOperand` and `HasOperand` say what lies above the top, and `Least` how tightly it binds. Each step of the
  calculator then takes one reading to the next (`OpenRead` to `PrintRead`). The number of parentheses on the stack is the depth of the tokens, so a
  `)` finds its parenthesis and none is left at the end. An error found in the last loop is the result of the whole expression,
  however many operators wait beneath it: `FaultReported` descends the stack, by the least element of a set of places (`LeastNatural`), which takes the
  place of an induction.
* **Network.** `IInv` has eight parts. `BufferInv` names the buffers of the frame being sent. `ServerInv`: one socket
  serves, and it is bound to one peer at most. `RxInv` adds to `RxWindow` that the frame being answered is still in the ring. `TxPhase` says where the transmit
  indices are: never set up, fresh, in the first send after `internet` was run, in a later one, or with everything sent; `StuckOnlyOutOfStep` and
  `StaleOnlyAfterRestart` are statements about the first and the third and need the others. `AnswerInv` and `HalfOpenInv` relate a
  socket's state to what went out. `CacheCoherent` is inductive by itself.

Only model-checked: the liveness properties (`ReplyArrives`, `DaemonsRun`, `FramesConsumed`), since the prover has no rules for
fairness; that the recursive evaluation in `MCCalc` obeys the grammar, which would need induction over expressions; and
`SyncedMeansOnDisk`, which is false. Every other property of a run is also a theorem.

`ShellProofs` and `ProcessProofs` each hold two components: the calculator is a command of the shell, and both the mutex and the daemons build on
the scheduler's invariant.

## 5. Plan

Done: the modules and proofs above. Worth adding: `itoa2` and the other number formatters against a reference; that `OomControl`
returns distinct pages to live processes, once `sys_alloc_pages` does.

## 6. Not modelled

* Paging: `initialize_paging_system` has no caller, so neither the frame bitmap nor the page tables are ever set up.
* The virtual machine and its system calls: `sys_vm_init` has no caller.
* The fault screens: every gate of the interrupt table is absent, so no handler runs; an interrupt, where one can come, is `TimerInterrupt`.
* Editors: `nano` cannot be started from the dispatch table; `notepad` works on a local buffer and reads its keys
  through the modelled handler.
* Console output, clock, power and port I/O, machine information: no state that another part reads.
* The assembly demos and the host-side scripts.
