------------------------------- MODULE Shell -------------------------------
(***************************************************************************)
(* The shell of Kernel.c: login, the main loop with its tick counter, the  *)
(* dispatch table, sudo with the protection flags of g_env, the integrity  *)
(* checks and the log ring.  It reads one line at a time and a line is     *)
(* handled to its end, except that sudo asks two questions.                *)
(*                                                                         *)
(* Commands are the other components; here a command is its record in the  *)
(* dispatch table.  The canaries and the kernel zone are written once, in  *)
(* sys_env_bootstrap, so of what sys_verify_integrity compares only the    *)
(* guard word can differ.  A log entry is its text; texts are shorter than *)
(* 128 characters.  A name that is not in the table is compared with two   *)
(* words behind it too (DISPATCH_TABLE_SIZE is 40, there are 38 records)   *)
(* and is taken not to match.                                              *)
(***************************************************************************)
EXTENDS Naturals, Sequences

CONSTANTS SYS_LOG_CAPACITY,   \* 128
          SYS_TICK_MAX        \* 3000

ASSUME ShellConstants ==
  /\ SYS_LOG_CAPACITY \in Nat \ {0}
  /\ SYS_TICK_MAX \in Nat \ {0}

VARIABLES
  pc,          \* what scan waits for: "login", "prompt", "confirm" or
               \* "password" (of sudo); "halted" and "panic" are ends
  attempts,    \* login attempts left
  is_root, isolation_active, memory_guard,   \* g_env; memory_guard: intact
  g_tick_counter,
  entries, head, tail, count,                \* g_sys_log
  routine      \* history: the command whose routine was called last

env == <<is_root, isolation_active, memory_guard>>
ring == <<entries, head, tail, count>>
vars == <<pc, attempts, env, g_tick_counter, ring, routine>>

\* One command for each shape of a record of g_dispatch_table.
DispatchEntry(exec, exec_arg, needs) ==
  [exec_ptr |-> exec, exec_arg_ptr |-> exec_arg, requires_args |-> needs,
   min_privilege |-> 0]
g_dispatch_table ==
  [ls    |-> DispatchEntry(TRUE, FALSE, FALSE),
   echo  |-> DispatchEntry(FALSE, TRUE, TRUE),
   sudo  |-> DispatchEntry(FALSE, TRUE, TRUE),
   panic |-> DispatchEntry(FALSE, TRUE, FALSE)]   \* and nano
Command == DOMAIN g_dispatch_table

BOOT == "KERNEL_BOOTSTRAP_INITIALIZED_WITH_ASLR"
SUCCESS == "PRIVILEGE_ESCALATION_SUCCESS_RING0"
FAILED == "PRIVILEGE_ESCALATION_FAILED_INVALID_CREDENTIAL"
DENIED == "UNAUTHORIZED_EXECUTION_ATTEMPT"
Message == Command \cup {BOOT, SUCCESS, FAILED, DENIED}
Empty == "empty"

-----------------------------------------------------------------------------
(* sys_log_write *)
Slot == 0 .. SYS_LOG_CAPACITY - 1
Advance(k) == (k + 1) % SYS_LOG_CAPACITY
Full == count >= SYS_LOG_CAPACITY

\* Mutant: the oldest entry is overwritten but head stays.
LogWrite_headStays(m) ==
  /\ head' = head
  /\ count' = (IF Full THEN count - 1 ELSE count) + 1
  /\ entries' = [entries EXCEPT ![tail] = m]
  /\ tail' = Advance(tail)

LogWrite(m) ==
  /\ head' = IF Full THEN Advance(head) ELSE head
  /\ count' = (IF Full THEN count - 1 ELSE count) + 1
  /\ entries' = [entries EXCEPT ![tail] = m]
  /\ tail' = Advance(tail)

-----------------------------------------------------------------------------
\* sys_env_bootstrap, up to the login prompt
Init ==
  /\ pc = "login"
  /\ attempts = 3
  /\ is_root = FALSE /\ isolation_active = TRUE /\ memory_guard = TRUE
  /\ g_tick_counter = 0
  /\ entries = [s \in Slot |-> IF s = 0 THEN BOOT ELSE Empty]
  /\ head = 0 /\ tail = Advance(0) /\ count = 1
  /\ routine = "none"

\* sys_verify_integrity does not panic.
Intact == memory_guard \/ ~isolation_active

\* The top of the main loop, up to the prompt: the counter starts again at
\* SYS_TICK_MAX, and then the integrity is checked.
Ticked == IF g_tick_counter + 1 >= SYS_TICK_MAX THEN 0 ELSE g_tick_counter + 1
BackToPrompt(intact) ==
  /\ g_tick_counter' = Ticked
  /\ pc' = IF Ticked = 0 /\ ~intact THEN "panic" ELSE "prompt"

Login(granted) ==
  /\ pc = "login"
  /\ \/ granted /\ BackToPrompt(Intact) /\ UNCHANGED attempts
     \/ /\ ~granted
        /\ attempts' = attempts - 1
        /\ pc' = IF attempts = 1 THEN "halted" ELSE "login"
        /\ UNCHANGED g_tick_counter
  /\ UNCHANGED <<env, ring, routine>>

\* An empty line, which is not parsed, or a name that is not in the table.
NoCommand ==
  /\ pc = "prompt"
  /\ \E parsed \in BOOLEAN :
       IF parsed /\ ~Intact
         THEN pc' = "panic" /\ UNCHANGED g_tick_counter
         ELSE BackToPrompt(Intact)
  /\ UNCHANGED <<attempts, env, ring, routine>>

Permitted(c) ==
  g_dispatch_table[c].min_privilege = 0 \/ is_root \/ ~isolation_active
HasRoutine(c) ==
  LET e == g_dispatch_table[c]
  IN IF e.requires_args THEN e.exec_arg_ptr ELSE e.exec_ptr

\* sys_parse_input and sys_execute_vector for a command of the table.
Execute(c) ==
  /\ pc = "prompt"
  /\ IF Intact
       THEN /\ LogWrite(IF Permitted(c) THEN c ELSE DENIED)
            /\ routine' = IF Permitted(c) /\ HasRoutine(c) THEN c ELSE routine
            /\ IF c = "sudo" /\ Permitted(c)
                 THEN pc' = "confirm" /\ UNCHANGED g_tick_counter
                 ELSE BackToPrompt(Intact)
       ELSE pc' = "panic" /\ UNCHANGED <<g_tick_counter, ring, routine>>
  /\ UNCHANGED <<attempts, env>>

\* The first question of sudo; a refusal is not logged.
Confirm(yes) ==
  /\ pc = "confirm"
  /\ \/ yes /\ pc' = "password" /\ UNCHANGED <<g_tick_counter, is_root>>
     \/ ~yes /\ is_root' = FALSE /\ BackToPrompt(Intact)
  /\ UNCHANGED <<attempts, isolation_active, memory_guard, ring, routine>>

\* Mutant: a wrong password leaves is_root alone.
RootAfterFailure_kept == is_root

RootAfterFailure == FALSE

\* Mutant: a success clears the guard word only.
IsolatedAfterSuccess_kept == isolation_active

IsolatedAfterSuccess == FALSE

\* The password of sudo.
Password(right) ==
  /\ pc = "password"
  /\ is_root' = IF right THEN TRUE ELSE RootAfterFailure
  /\ isolation_active' = IF right THEN IsolatedAfterSuccess ELSE isolation_active
  /\ memory_guard' = IF right THEN FALSE ELSE memory_guard
  /\ LogWrite(IF right THEN SUCCESS ELSE FAILED)
  /\ BackToPrompt(memory_guard' \/ ~isolation_active')
  /\ UNCHANGED <<attempts, routine>>

Next ==
  \/ NoCommand
  \/ \E c \in Command : Execute(c)
  \/ \E ok \in BOOLEAN : Login(ok) \/ Confirm(ok) \/ Password(ok)
Spec == Init /\ [][Next]_vars

-----------------------------------------------------------------------------
SlotOf(k) == (head + k - 1) % SYS_LOG_CAPACITY
\* What cmd_sys_logs reads, oldest first.
Contents == [k \in 1 .. count |-> entries[SlotOf(k)]]

TypeOK ==
  /\ pc \in {"login", "prompt", "confirm", "password", "halted", "panic"}
  /\ attempts \in 0 .. 3
  /\ {is_root, isolation_active, memory_guard} \subseteq BOOLEAN
  /\ g_tick_counter \in 0 .. SYS_TICK_MAX - 1
  /\ entries \in [Slot -> Message \cup {Empty}]
  /\ {head, tail} \subseteq Slot
  /\ count \in 0 .. SYS_LOG_CAPACITY
  /\ routine \in Command \cup {"none"}

\* No sequence of commands makes sys_verify_integrity panic: the guard word
\* is gone only where isolation is gone (cmd_sudo_handler).
NeverPanics == pc # "panic" /\ Intact

\* The log vouches for the prompt: while the shell is root, the last sudo the
\* log remembers succeeded (or its entries were dropped).  The converse fails,
\* since a refusal at the first question clears is_root without an entry.
RootLogged ==
  is_root /\ pc = "prompt" =>
    \A k \in 1 .. count :
      Contents[k] = FAILED => \E j \in k + 1 .. count : Contents[j] = SUCCESS

\* The ring holds the latest SYS_LOG_CAPACITY messages in order (sys_log_write,
\* read back from head as in cmd_sys_logs).
Log == INSTANCE RecentLog
         WITH Capacity <- SYS_LOG_CAPACITY, First <- BOOT, messages <- Contents
IsRecentLog == Log!Spec
=============================================================================
