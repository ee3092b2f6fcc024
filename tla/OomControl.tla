----------------------------- MODULE OomControl -----------------------------
(***************************************************************************)
(* Page accounting and the out-of-memory killer of oomk.h.  Interrupts are *)
(* off and nothing here yields, so while a call of sys_alloc_pages is in   *)
(* progress its steps follow one another; the zone locks are always free.  *)
(*                                                                         *)
(* A task is a record in memory and task_array holds its address: a record *)
(* of new_task lies in the heap of malloc.h, one of                        *)
(* scheduler_register_process at an address that sys_alloc_pages computes  *)
(* from the number of pages reclaimed so far, so two registrations may get *)
(* the same one.                                                           *)
(*                                                                         *)
(* Every task is registered with nice_value and oom_score_adj 0 and a pid  *)
(* of 100 or more, so those terms of sys_calculate_badness vanish and the  *)
(* test for pid 1 is never true.                                           *)
(***************************************************************************)
EXTENDS Integers, Sequences

CONSTANTS
  SYS_MAX_TASKS,   \* slots of task_array (1024)
  ZoneSizes,       \* managed pages by zone: arguments of sys_oom_init, or all 0
  Requests,        \* page counts asked of sys_alloc_pages
  RssSizes,        \* rss_pages tasks are registered with
  NEW_TASK_RSS,    \* rss_pages of the tasks of new_task (100)
  HEAP_SIZE,       \* bytes of memory_heap (65536)
  BLOCK,           \* bytes of a block header and a sys_task_t (8 + 48)
  MAX_RECLAIMED    \* bound: no request once so many pages were reclaimed

Zone == {"DMA", "NORMAL", "HIGHMEM"}

ASSUME OomConstants ==
  /\ SYS_MAX_TASKS \in Nat
  /\ ZoneSizes \subseteq [Zone -> Nat]
  /\ Requests \subseteq Nat
  /\ RssSizes \subseteq Nat
  /\ NEW_TASK_RSS \in Nat
  /\ BLOCK \in Nat \ {0}
  /\ HEAP_SIZE \in Nat
  /\ (SYS_MAX_TASKS + 1) * BLOCK <= HEAP_SIZE   \* 57400 <= 65536
  /\ MAX_RECLAIMED \in Nat

VARIABLES
  managed_pages,                  \* by zone; fixed
  free_pages,                     \* by zone
  total_reclaimed,
  task_array,                     \* addresses of records
  record,                         \* the records by address
  heap_blocks,                    \* blocks of the heap in use
  call,                           \* the allocation in progress
  stopped,                        \* "no", or why the CPU stands still
  handed_out,                     \* history: pages sys_alloc_pages returned
  killed_rss,                     \* history: pages sys_send_sigkill credited
  registered                      \* history: the records as they were registered

tasks == <<task_array, record, heap_blocks, registered>>
pages == <<free_pages, total_reclaimed, handed_out, killed_rss>>
vars == <<managed_pages, pages, tasks, call, stopped>>

OOM_SCORE_MAX == 10000
SLAB_BATCH == 100

Divisor ==   \* of managed_pages, for the watermark WM_MIN
  [z \in Zone |-> IF z = "DMA" THEN 64 ELSE IF z = "NORMAL" THEN 128 ELSE 256]
WM_MIN(z) == managed_pages[z] \div Divisor[z]
WM_LOW(z) == managed_pages[z] \div (Divisor[z] \div 2)
WM_HIGH(z) == managed_pages[z] \div (Divisor[z] \div 4)

TotalPages == managed_pages["DMA"] + managed_pages["NORMAL"] + managed_pages["HIGHMEM"]

\* The records scheduler_register_process and new_task write.
NewTasks ==
  [rss_pages : RssSizes, critical : BOOLEAN, unkillable : BOOLEAN, state : {"RUNNING"}]
HeapTask ==
  [rss_pages |-> NEW_TASK_RSS, critical |-> FALSE, unkillable |-> FALSE, state |-> "RUNNING"]

\* A call of sys_alloc_pages: what is asked for, how often it was retried, and
\* what the caller goes on with: "record" and "stack" are the two allocations
\* of scheduler_register_process for task.
Call(then, z, count, task) ==
  [then |-> then, zone |-> z, count |-> count, retry_count |-> 0, task |-> task]
NoCall == Call("none", "NORMAL", 0, HeapTask)

\* sys_oom_init; with all sizes 0, the state of the kernel before it (and of
\* the kernel of this repository, which never calls it).
Init ==
  /\ managed_pages \in ZoneSizes
  /\ free_pages = managed_pages
  /\ total_reclaimed = 0
  /\ task_array = << >>
  /\ record = << >>
  /\ heap_blocks = 0
  /\ call = NoCall
  /\ stopped = "no"
  /\ handed_out = 0
  /\ killed_rss = 0
  /\ registered = << >>

InUse == stopped = "no"
Idle == InUse /\ call = NoCall
Allocating == InUse /\ call # NoCall

\* sys_oom_panic, or the processor's answer to a division by 0.
Stop(why) ==
  /\ stopped' = why
  /\ call' = NoCall

-----------------------------------------------------------------------------
(***************************************************************************)
(* The stages of sys_alloc_pages: a test, and while it fails first the one *)
(* shrinker, then the other, then the killer, then the panic.              *)
(***************************************************************************)
\* Mutant of Fits: the watermark is not kept.
Fits_noReserve == free_pages[call.zone] >= call.count

Fits == free_pages[call.zone] >= call.count + WM_MIN(call.zone)

Retry(n) == Allocating /\ call.retry_count = n /\ ~Fits
RetryAgain == call' = [call EXCEPT !.retry_count = @ + 1]

\* Mutant of SlabGain: the batch size is a minimum.
SlabGain_batch(z) ==
  IF free_pages[z] >= WM_LOW(z) THEN 0
  ELSE IF WM_HIGH(z) - free_pages[z] < SLAB_BATCH THEN SLAB_BATCH
  ELSE WM_HIGH(z) - free_pages[z]

SlabGain(z) ==
  IF free_pages[z] >= WM_LOW(z) THEN 0
  ELSE IF WM_HIGH(z) - free_pages[z] > SLAB_BATCH THEN SLAB_BATCH
  ELSE WM_HIGH(z) - free_pages[z]

sys_shrink_slab_caches ==
  /\ Retry(0)
  /\ free_pages' = [z \in Zone |-> free_pages[z] + SlabGain(z)]
  /\ total_reclaimed' =
       total_reclaimed + SlabGain("DMA") + SlabGain("NORMAL") + SlabGain("HIGHMEM")
  /\ RetryAgain
  /\ UNCHANGED <<managed_pages, handed_out, killed_rss, tasks, stopped>>

PageCacheGain ==
  IF free_pages["NORMAL"] >= WM_HIGH("NORMAL") THEN 0
  ELSE (WM_HIGH("NORMAL") - free_pages["NORMAL"]) \div 2

\* Mutant of sys_shrink_page_cache: the gain is not counted.
sys_shrink_page_cache_uncounted ==
  /\ Retry(1)
  /\ free_pages' = [free_pages EXCEPT !["NORMAL"] = @ + PageCacheGain]
  /\ RetryAgain
  /\ UNCHANGED <<managed_pages, total_reclaimed, handed_out, killed_rss, tasks, stopped>>

sys_shrink_page_cache ==
  /\ Retry(1)
  /\ free_pages' = [free_pages EXCEPT !["NORMAL"] = @ + PageCacheGain]
  /\ total_reclaimed' = total_reclaimed + PageCacheGain
  /\ RetryAgain
  /\ UNCHANGED <<managed_pages, handed_out, killed_rss, tasks, stopped>>

\* Mutant of Excluded: no task is unkillable.
Excluded_mortal(t) == t.state = "DEAD"

\* The score of a task that may be killed is at least 1; 0 excludes it.
\* rss_pages is at most 2048 in this kernel, so the product does not wrap.
Excluded(t) == t.unkillable \/ t.state = "DEAD"

sys_calculate_badness(t) ==
  LET raw == (t.rss_pages * OOM_SCORE_MAX) \div TotalPages
      score == IF t.critical THEN raw \div 4 ELSE raw
  IN IF Excluded(t) THEN 0
     ELSE IF score = 0 THEN 1
     ELSE IF score > OOM_SCORE_MAX THEN OOM_SCORE_MAX ELSE score

\* The task in slot k of task_array.
Task(k) == record[task_array[k]]

\* The first task of the highest score is in slot k.
sys_select_bad_process(k) ==
  /\ ~Excluded(Task(k))
  /\ \A j \in DOMAIN task_array :
       \/ sys_calculate_badness(Task(j)) < sys_calculate_badness(Task(k))
       \/ sys_calculate_badness(Task(j)) = sys_calculate_badness(Task(k)) /\ k <= j

\* The record of a task that was killed.
Killed(t) == [rss_pages |-> 0, critical |-> t.critical, unkillable |-> t.unkillable,
              state |-> "DEAD"]

sys_send_sigkill(addr) ==
  /\ free_pages' = [free_pages EXCEPT !["NORMAL"] = @ + record[addr].rss_pages]
  /\ killed_rss' = killed_rss + record[addr].rss_pages
  /\ record' = [record EXCEPT ![addr] = Killed(@)]

NoVictim == \A k \in DOMAIN task_array : Excluded(Task(k))

\* The score is divided by the number of managed pages: without any, scoring
\* a task is a divide error.
sys_trigger_oom_killer ==
  /\ Retry(2)
  /\ \/ /\ NoVictim
        /\ Stop("panic")
        /\ UNCHANGED <<pages, tasks>>
     \/ /\ ~NoVictim /\ TotalPages = 0
        /\ Stop("divide error")
        /\ UNCHANGED <<pages, tasks>>
     \/ /\ TotalPages # 0
        /\ \E k \in DOMAIN task_array :
             /\ sys_select_bad_process(k)
             /\ \/ /\ Task(k).critical
                   /\ Stop("panic")
                   /\ UNCHANGED <<pages, tasks>>
                \/ /\ ~Task(k).critical
                   /\ sys_send_sigkill(task_array[k])
                   /\ RetryAgain
                   /\ UNCHANGED <<total_reclaimed, handed_out, task_array,
                                  heap_blocks, registered, stopped>>
  /\ UNCHANGED managed_pages

AllocFailed ==
  /\ Retry(3)
  /\ Stop("panic")
  /\ UNCHANGED <<managed_pages, pages, tasks>>

-----------------------------------------------------------------------------
\* Mutant of sys_register_task: a full table is no error.
sys_register_task_silent(addr, t, next) ==
  /\ IF Len(task_array) < SYS_MAX_TASKS
       THEN task_array' = Append(task_array, addr) /\ registered' = Append(registered, t)
       ELSE UNCHANGED <<task_array, registered>>
  /\ call' = next
  /\ UNCHANGED stopped

\* The record t is at addr; next is what the caller goes on with.
sys_register_task(addr, t, next) ==
  \/ /\ Len(task_array) < SYS_MAX_TASKS
     /\ task_array' = Append(task_array, addr)
     /\ registered' = Append(registered, t)
     /\ call' = next
     /\ UNCHANGED stopped
  \/ /\ Len(task_array) >= SYS_MAX_TASKS
     /\ Stop("panic")
     /\ UNCHANGED <<task_array, registered>>

Write(addr, t) ==
  record' = [x \in DOMAIN record \cup {addr} |-> IF x = addr THEN t ELSE record[x]]

\* The address sys_alloc_pages returns.
Address == <<"page", total_reclaimed>>

\* The pages are there: the caller goes on.  scheduler_register_process fills
\* in the record, registers it and asks for a page for the stack.
AllocSucceeds ==
  /\ Allocating /\ Fits
  /\ free_pages' = [free_pages EXCEPT ![call.zone] = @ - call.count]
  /\ handed_out' = handed_out + call.count
  /\ \/ /\ call.then = "record"
        /\ Write(Address, call.task)
        /\ sys_register_task(Address, call.task, Call("stack", "NORMAL", 1, call.task))
     \/ /\ call.then # "record"
        /\ call' = NoCall
        /\ UNCHANGED <<task_array, record, registered, stopped>>
  /\ UNCHANGED <<managed_pages, total_reclaimed, killed_rss, heap_blocks>>

-----------------------------------------------------------------------------
\* An allocation by its zone and size.  (The kernel's own callers ask for one
\* page of NORMAL.)
sys_alloc_pages(z, count) ==
  /\ Idle
  /\ total_reclaimed < MAX_RECLAIMED
  /\ call' = Call("return", z, count, HeapTask)
  /\ UNCHANGED <<managed_pages, pages, tasks, stopped>>

\* The killer may take the task that is being registered, when it asks for its
\* stack.
scheduler_register_process(t) ==
  /\ Idle
  /\ total_reclaimed < MAX_RECLAIMED
  /\ call' = Call("record", "NORMAL", 1, t)
  /\ UNCHANGED <<managed_pages, pages, tasks, stopped>>

\* whitex_malloc appends a block, since nothing frees one while the kernel
\* runs; it returns NULL when the walk over the blocks leaves the heap.
new_task ==
  /\ Idle
  /\ heap_blocks * BLOCK < HEAP_SIZE
  /\ heap_blocks' = heap_blocks + 1
  /\ Write(<<"heap", heap_blocks>>, HeapTask)
  /\ sys_register_task(<<"heap", heap_blocks>>, HeapTask, NoCall)
  /\ UNCHANGED <<managed_pages, pages>>

\* cli; hlt for ever, or a divide error without an interrupt table.
Stopped == ~InUse /\ UNCHANGED vars

Next ==
  \/ \E z \in Zone, count \in Requests : sys_alloc_pages(z, count)
  \/ \E t \in NewTasks : scheduler_register_process(t)
  \/ new_task
  \/ AllocSucceeds
  \/ sys_shrink_slab_caches
  \/ sys_shrink_page_cache
  \/ sys_trigger_oom_killer
  \/ AllocFailed
  \/ Stopped

Spec == Init /\ [][Next]_vars

-----------------------------------------------------------------------------
(***************************************************************************)
(* Properties                                                              *)
(***************************************************************************)
\* The condition on which sys_oom_monitor_check kills a task.
MonitorFires == \E z \in Zone : free_pages[z] < WM_MIN(z)

\* The monitor of the main loop has nothing to do: allocations leave every
\* zone its minimum, so no task is ever killed outside sys_alloc_pages.
MonitorSilent == ~MonitorFires

\* Pages are neither lost nor invented in the retries: what is free and what
\* was handed out are the managed pages, the reclaimed ones and those the
\* killer credited.
PagesAccounted ==
  free_pages["DMA"] + free_pages["NORMAL"] + free_pages["HIGHMEM"] + handed_out
    = TotalPages + total_reclaimed + killed_rss

\* The shrinkers stop at the high watermark: a zone never has more free pages
\* than it manages, but for the rss of killed tasks, which nobody had taken
\* from the zone NORMAL.
OnlyKillsOverfill ==
  \A z \in Zone :
    free_pages[z] <= managed_pages[z] + IF z = "NORMAL" THEN killed_rss ELSE 0

\* A task registered as critical or unkillable is never marked dead, unless a
\* later registration got the same page for its record: then the killer sees
\* that record in its place.
ProtectedSurvive ==
  \A k \in DOMAIN registered :
    /\ registered[k].critical \/ registered[k].unkillable
    /\ Task(k).state = "DEAD"
    => \E j \in DOMAIN registered : j > k /\ task_array[j] = task_array[k]

\* No block of the heap reaches past its end, although whitex_malloc does not
\* test that: the limit on tasks stops the kernel before.
HeapHolds == heap_blocks * BLOCK <= HEAP_SIZE
=============================================================================
