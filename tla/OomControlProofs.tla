-------------------------- MODULE OomControlProofs --------------------------
(***************************************************************************)
(* The page accounts, the victims of the killer and the heap of oomk.h and *)
(* malloc.h, for every size of the zones, every number of tasks and every  *)
(* request.                                                                *)
(***************************************************************************)
EXTENDS OomControl, TLAPS

TaskRecords ==
  [rss_pages : Nat, critical : BOOLEAN, unkillable : BOOLEAN, state : {"RUNNING", "DEAD"}]
Calls ==
  [then : {"none", "return", "record", "stack"}, zone : Zone, count : Nat,
   retry_count : Nat, task : TaskRecords]

PagesType ==
  /\ managed_pages \in [Zone -> Nat]
  /\ free_pages \in [Zone -> Nat]
  /\ total_reclaimed \in Nat
  /\ handed_out \in Nat
  /\ killed_rss \in Nat

TasksType ==
  /\ task_array \in Seq(DOMAIN record)
  /\ \A a \in DOMAIN record : record[a] \in TaskRecords
  /\ registered \in Seq(TaskRecords)
  /\ Len(registered) = Len(task_array)
  /\ Len(task_array) <= SYS_MAX_TASKS
  /\ heap_blocks \in Nat
  /\ call \in Calls
  /\ call.task.state = "RUNNING"

Protects(t) == t.critical \/ t.unkillable

Replaced(k) == \E j \in DOMAIN registered : j > k /\ task_array[j] = task_array[k]

\* The record at the address of a task is the one the latest registration at
\* that address wrote, with the same flags, and dead only if they allow it.
\* (A registration that stops the kernel has written its record already.)
RecordOf(k) ==
  \/ Replaced(k)
  \/ /\ Task(k).state = "DEAD" => ~Protects(registered[k])
     /\ InUse => /\ Task(k).critical = registered[k].critical
                 /\ Task(k).unkillable = registered[k].unkillable
RecordInv == \A k \in DOMAIN registered : RecordOf(k)

\* Every block of the heap is the record of a task, but for the one whose
\* registration stopped the kernel.
HeapInv ==
  \/ heap_blocks <= Len(task_array)
  \/ ~InUse /\ heap_blocks <= Len(task_array) + 1

PagesInv == PagesType /\ MonitorSilent /\ PagesAccounted /\ OnlyKillsOverfill
TasksInv == TasksType /\ RecordInv /\ HeapInv
OomInv == PagesInv /\ TasksInv

-----------------------------------------------------------------------------
(***************************************************************************)
(* The accounts                                                            *)
(***************************************************************************)
\* The watermarks of a zone are in order and none is above its size.
LEMMA Watermarks ==
  ASSUME PagesType, NEW z \in Zone
  PROVE  /\ WM_MIN(z) \in Nat /\ WM_LOW(z) \in Nat /\ WM_HIGH(z) \in Nat
         /\ WM_MIN(z) <= WM_LOW(z)
         /\ WM_LOW(z) <= WM_HIGH(z)
         /\ WM_HIGH(z) <= managed_pages[z]
<1>1. managed_pages[z] \in Nat
  BY DEF PagesType
<1>2. CASE z = "DMA"
  <2>1. Divisor[z] = 64 /\ Divisor[z] \div 2 = 32 /\ Divisor[z] \div 4 = 16
    BY <1>2 DEF Divisor
  <2> QED BY <1>1, <2>1 DEF WM_MIN, WM_LOW, WM_HIGH
<1>3. CASE z = "NORMAL"
  <2>1. Divisor[z] = 128 /\ Divisor[z] \div 2 = 64 /\ Divisor[z] \div 4 = 32
    BY <1>3 DEF Divisor
  <2> QED BY <1>1, <2>1 DEF WM_MIN, WM_LOW, WM_HIGH
<1>4. CASE z = "HIGHMEM"
  <2>1. Divisor[z] = 256 /\ Divisor[z] \div 2 = 128 /\ Divisor[z] \div 4 = 64
    BY <1>4 DEF Divisor
  <2> QED BY <1>1, <2>1 DEF WM_MIN, WM_LOW, WM_HIGH
<1> QED BY <1>2, <1>3, <1>4 DEF Zone

\* What the shrinkers add to a zone does not take it above its high watermark.
LEMMA Gains ==
  ASSUME PagesType
  PROVE  /\ \A z \in Zone :
              /\ SlabGain(z) \in Nat
              /\ SlabGain(z) # 0 => free_pages[z] + SlabGain(z) <= WM_HIGH(z)
         /\ PageCacheGain \in Nat
         /\ PageCacheGain # 0 => free_pages["NORMAL"] + PageCacheGain <= WM_HIGH("NORMAL")
<1>1. ASSUME NEW z \in Zone
      PROVE  /\ SlabGain(z) \in Nat
             /\ SlabGain(z) # 0 => free_pages[z] + SlabGain(z) <= WM_HIGH(z)
  <2>1. free_pages[z] \in Nat /\ WM_LOW(z) \in Nat /\ WM_HIGH(z) \in Nat
        /\ WM_LOW(z) <= WM_HIGH(z)
    BY Watermarks DEF PagesType
  <2> QED BY <2>1 DEF SlabGain, SLAB_BATCH
<1>2. /\ PageCacheGain \in Nat
      /\ PageCacheGain # 0 => free_pages["NORMAL"] + PageCacheGain <= WM_HIGH("NORMAL")
  <2>1. "NORMAL" \in Zone
    BY DEF Zone
  <2>2. free_pages["NORMAL"] \in Nat /\ WM_HIGH("NORMAL") \in Nat
    BY <2>1, Watermarks DEF PagesType
  <2> QED BY <2>2 DEF PageCacheGain
<1> QED BY <1>1, <1>2

\* The accounts of the three zones, without the quantifier.
LEMMA Zones ==
  ASSUME PagesType
  PROVE  /\ free_pages["DMA"] \in Nat /\ free_pages["NORMAL"] \in Nat
         /\ free_pages["HIGHMEM"] \in Nat
         /\ TotalPages \in Nat
BY DEF PagesType, TotalPages, Zone

LEMMA PagesInit ==
  ASSUME Init
  PROVE  PagesInv
<1>1. managed_pages \in [Zone -> Nat] /\ free_pages = managed_pages
  BY OomConstants DEF Init
<1>2. PagesType
  BY <1>1 DEF Init, PagesType
<1>3. MonitorSilent
  <2> SUFFICES ASSUME NEW z \in Zone
               PROVE  ~(free_pages[z] < WM_MIN(z))
    BY DEF MonitorSilent, MonitorFires
  <2> QED BY <1>1, <1>2, Watermarks
<1>4. PagesAccounted
  BY <1>1, <1>2, Zones DEF Init, PagesAccounted, TotalPages
<1>5. OnlyKillsOverfill
  BY <1>1 DEF Init, OnlyKillsOverfill
<1> QED BY <1>2, <1>3, <1>4, <1>5 DEF PagesInv

\* A step adds to each zone what it is given and books it as reclaimed,
\* credited or taken back.  It keeps the accounts if it leaves the zone it
\* takes from its minimum and stays below the size of each zone.
LEMMA AccountStep ==
  ASSUME PagesInv,
         managed_pages' = managed_pages,
         free_pages' \in [Zone -> Nat],
         total_reclaimed' \in Nat, handed_out' \in Nat, killed_rss' \in Nat,
         killed_rss' >= killed_rss,
         \A z \in Zone : free_pages'[z] >= WM_MIN(z),
         \A z \in Zone :
           \/ free_pages'[z] <= free_pages[z]
           \/ free_pages'[z] <= WM_HIGH(z)
           \/ /\ z = "NORMAL"
              /\ free_pages'[z] - free_pages[z] <= killed_rss' - killed_rss,
         free_pages'["DMA"] + free_pages'["NORMAL"] + free_pages'["HIGHMEM"] + handed_out'
           = TotalPages + total_reclaimed' + killed_rss'
  PROVE  PagesInv'
<1>1. PagesType /\ PagesType'
  BY DEF PagesInv, PagesType
<1>2. /\ TotalPages' = TotalPages
      /\ \A z \in Zone : WM_MIN(z)' = WM_MIN(z)
  BY DEF TotalPages, WM_MIN
<1>3. MonitorSilent'
  <2> SUFFICES ASSUME NEW z \in Zone
               PROVE  ~(free_pages'[z] < WM_MIN(z)')
    BY DEF MonitorSilent, MonitorFires
  <2>1. free_pages'[z] >= WM_MIN(z) /\ free_pages'[z] \in Nat /\ WM_MIN(z) \in Nat
    BY <1>1, Watermarks
  <2> QED BY <1>2, <2>1
<1>4. PagesAccounted'
  BY <1>2 DEF PagesAccounted
<1>5. OnlyKillsOverfill'
  <2> SUFFICES ASSUME NEW z \in Zone
               PROVE  free_pages'[z] <=
                        managed_pages[z] + IF z = "NORMAL" THEN killed_rss' ELSE 0
    BY DEF OnlyKillsOverfill
  <2>1. /\ free_pages[z] \in Nat /\ free_pages'[z] \in Nat /\ managed_pages[z] \in Nat
        /\ killed_rss \in Nat /\ killed_rss' \in Nat
        /\ WM_HIGH(z) \in Nat /\ WM_HIGH(z) <= managed_pages[z]
    BY <1>1, Watermarks DEF PagesType
  <2>2. free_pages[z] <= managed_pages[z] + IF z = "NORMAL" THEN killed_rss ELSE 0
    BY DEF PagesInv, OnlyKillsOverfill
  <2> QED BY <2>1, <2>2
<1> QED BY <1>1, <1>3, <1>4, <1>5 DEF PagesInv

\* A step that leaves the pages alone.
LEMMA PagesKept ==
  ASSUME PagesInv, UNCHANGED <<managed_pages, pages>>
  PROVE  PagesInv'
BY DEF PagesInv, PagesType, MonitorSilent, MonitorFires, PagesAccounted,
       OnlyKillsOverfill, TotalPages, WM_MIN, pages

LEMMA SlabStep ==
  ASSUME PagesInv, sys_shrink_slab_caches
  PROVE  PagesInv'
<1>1. /\ free_pages' = [z \in Zone |-> free_pages[z] + SlabGain(z)]
      /\ total_reclaimed' =
           total_reclaimed + SlabGain("DMA") + SlabGain("NORMAL") + SlabGain("HIGHMEM")
      /\ UNCHANGED <<managed_pages, handed_out, killed_rss>>
  BY DEF sys_shrink_slab_caches
<1>2. PagesType
  BY DEF PagesInv
<1>3. \A z \in Zone :
        /\ free_pages[z] \in Nat /\ SlabGain(z) \in Nat
        /\ SlabGain(z) # 0 => free_pages[z] + SlabGain(z) <= WM_HIGH(z)
        /\ free_pages[z] >= WM_MIN(z) /\ WM_MIN(z) \in Nat
  BY <1>2, Gains, Watermarks DEF PagesInv, PagesType, MonitorSilent, MonitorFires
<1>4. free_pages' \in [Zone -> Nat]
  BY <1>1, <1>3
<1>5. \A z \in Zone : free_pages'[z] >= WM_MIN(z)
  BY <1>1, <1>3
<1>6. \A z \in Zone : free_pages'[z] <= free_pages[z] \/ free_pages'[z] <= WM_HIGH(z)
  BY <1>1, <1>3
<1>7. /\ "DMA" \in Zone /\ "NORMAL" \in Zone /\ "HIGHMEM" \in Zone
      /\ total_reclaimed \in Nat /\ handed_out \in Nat /\ killed_rss \in Nat
  BY <1>2 DEF Zone, PagesType
<1>8. total_reclaimed' \in Nat /\ handed_out' \in Nat /\ killed_rss' \in Nat
      /\ killed_rss' >= killed_rss
  BY <1>1, <1>3, <1>7
<1>9. free_pages'["DMA"] + free_pages'["NORMAL"] + free_pages'["HIGHMEM"] + handed_out'
        = TotalPages + total_reclaimed' + killed_rss'
  BY <1>1, <1>2, <1>3, <1>7, Zones DEF PagesInv, PagesAccounted
<1> QED BY <1>1, <1>4, <1>5, <1>6, <1>8, <1>9, AccountStep

LEMMA PageCacheStep ==
  ASSUME PagesInv, sys_shrink_page_cache
  PROVE  PagesInv'
<1>1. /\ free_pages' = [free_pages EXCEPT !["NORMAL"] = @ + PageCacheGain]
      /\ total_reclaimed' = total_reclaimed + PageCacheGain
      /\ UNCHANGED <<managed_pages, handed_out, killed_rss>>
  BY DEF sys_shrink_page_cache
<1>2. PagesType /\ "DMA" \in Zone /\ "NORMAL" \in Zone /\ "HIGHMEM" \in Zone
  BY DEF PagesInv, Zone
<1>3. /\ free_pages \in [Zone -> Nat]
      /\ total_reclaimed \in Nat /\ handed_out \in Nat /\ killed_rss \in Nat
      /\ PageCacheGain \in Nat
      /\ PageCacheGain # 0 => free_pages["NORMAL"] + PageCacheGain <= WM_HIGH("NORMAL")
      /\ \A z \in Zone : free_pages[z] >= WM_MIN(z) /\ WM_MIN(z) \in Nat
  BY <1>2, Gains, Watermarks DEF PagesInv, PagesType, MonitorSilent, MonitorFires
<1>4. free_pages' \in [Zone -> Nat]
  BY <1>1, <1>2, <1>3
<1>5. \A z \in Zone : free_pages'[z] >= WM_MIN(z)
  BY <1>1, <1>3
<1>6. \A z \in Zone : free_pages'[z] <= free_pages[z] \/ free_pages'[z] <= WM_HIGH(z)
  BY <1>1, <1>3
<1>7. total_reclaimed' \in Nat /\ handed_out' \in Nat /\ killed_rss' \in Nat
      /\ killed_rss' >= killed_rss
  BY <1>1, <1>3
<1>8. free_pages'["DMA"] + free_pages'["NORMAL"] + free_pages'["HIGHMEM"] + handed_out'
        = TotalPages + total_reclaimed' + killed_rss'
  BY <1>1, <1>2, <1>3, Zones DEF PagesInv, PagesAccounted
<1> QED BY <1>1, <1>4, <1>5, <1>6, <1>7, <1>8, AccountStep

LEMMA KillPages ==
  ASSUME PagesInv, TasksInv, NEW a \in DOMAIN record, sys_send_sigkill(a),
         UNCHANGED <<managed_pages, total_reclaimed, handed_out>>
  PROVE  PagesInv'
<1> DEFINE rss == record[a].rss_pages
<1>1. /\ free_pages' = [free_pages EXCEPT !["NORMAL"] = @ + rss]
      /\ killed_rss' = killed_rss + rss
      /\ UNCHANGED <<managed_pages, total_reclaimed, handed_out>>
  BY DEF sys_send_sigkill
<1>2. PagesType /\ "DMA" \in Zone /\ "NORMAL" \in Zone /\ "HIGHMEM" \in Zone
  BY DEF PagesInv, Zone
<1>3. rss \in Nat
  BY DEF TasksInv, TasksType, TaskRecords
<1>4. /\ free_pages \in [Zone -> Nat]
      /\ total_reclaimed \in Nat /\ handed_out \in Nat /\ killed_rss \in Nat
      /\ \A z \in Zone : free_pages[z] >= WM_MIN(z) /\ WM_MIN(z) \in Nat
  BY <1>2, Watermarks DEF PagesInv, PagesType, MonitorSilent, MonitorFires
<1> HIDE DEF rss
<1>5. free_pages' \in [Zone -> Nat]
  BY <1>1, <1>2, <1>3, <1>4
<1>6. \A z \in Zone : free_pages'[z] >= WM_MIN(z)
  BY <1>1, <1>3, <1>4
<1>7. \A z \in Zone :
        \/ free_pages'[z] <= free_pages[z]
        \/ /\ z = "NORMAL"
           /\ free_pages'[z] - free_pages[z] <= killed_rss' - killed_rss
  BY <1>1, <1>3, <1>4
<1>8. total_reclaimed' \in Nat /\ handed_out' \in Nat /\ killed_rss' \in Nat
      /\ killed_rss' >= killed_rss
  BY <1>1, <1>3, <1>4
<1>9. free_pages'["DMA"] + free_pages'["NORMAL"] + free_pages'["HIGHMEM"] + handed_out'
        = TotalPages + total_reclaimed' + killed_rss'
  <2>1. /\ free_pages'["DMA"] = free_pages["DMA"]
        /\ free_pages'["NORMAL"] = free_pages["NORMAL"] + rss
        /\ free_pages'["HIGHMEM"] = free_pages["HIGHMEM"]
    BY <1>1, <1>2, <1>4
  <2>2. free_pages["DMA"] + free_pages["NORMAL"] + free_pages["HIGHMEM"] + handed_out
          = TotalPages + total_reclaimed + killed_rss
    BY DEF PagesInv, PagesAccounted
  <2>3. /\ free_pages["DMA"] \in Nat /\ free_pages["NORMAL"] \in Nat
        /\ free_pages["HIGHMEM"] \in Nat /\ TotalPages \in Nat
    BY <1>2, Zones
  <2>4. handed_out' = handed_out /\ total_reclaimed' = total_reclaimed
        /\ killed_rss' = killed_rss + rss
    BY <1>1
  <2> QED BY <1>3, <1>4, <2>1, <2>2, <2>3, <2>4
<1> QED BY <1>1, <1>5, <1>6, <1>7, <1>8, <1>9, AccountStep

\* The test of sys_alloc_pages leaves the zone its minimum.
LEMMA AllocPagesStep ==
  ASSUME PagesInv, TasksInv, AllocSucceeds
  PROVE  PagesInv'
<1> DEFINE z0 == call.zone
           n == call.count
<1>1. /\ free_pages' = [free_pages EXCEPT ![z0] = @ - n]
      /\ handed_out' = handed_out + n
      /\ UNCHANGED <<managed_pages, total_reclaimed, killed_rss>>
      /\ free_pages[z0] >= n + WM_MIN(z0)
  BY DEF AllocSucceeds, Fits
<1>2. PagesType /\ z0 \in Zone /\ n \in Nat
  BY DEF PagesInv, TasksInv, TasksType, Calls
<1>3. /\ free_pages \in [Zone -> Nat]
      /\ total_reclaimed \in Nat /\ handed_out \in Nat /\ killed_rss \in Nat
      /\ \A z \in Zone : free_pages[z] >= WM_MIN(z) /\ WM_MIN(z) \in Nat
  BY <1>2, Watermarks DEF PagesInv, PagesType, MonitorSilent, MonitorFires
<1> HIDE DEF z0, n
<1>4. free_pages' \in [Zone -> Nat]
  BY <1>1, <1>2, <1>3
<1>5. \A z \in Zone : free_pages'[z] >= WM_MIN(z)
  BY <1>1, <1>2, <1>3
<1>6. \A z \in Zone : free_pages'[z] <= free_pages[z]
  BY <1>1, <1>2, <1>3
<1>7. total_reclaimed' \in Nat /\ handed_out' \in Nat /\ killed_rss' \in Nat
      /\ killed_rss' >= killed_rss
  BY <1>1, <1>2, <1>3
<1>8. free_pages'["DMA"] + free_pages'["NORMAL"] + free_pages'["HIGHMEM"] + handed_out'
        = TotalPages + total_reclaimed' + killed_rss'
  <2>1. z0 = "DMA" \/ z0 = "NORMAL" \/ z0 = "HIGHMEM"
    BY <1>2 DEF Zone
  <2>2. "DMA" \in Zone /\ "NORMAL" \in Zone /\ "HIGHMEM" \in Zone
    BY DEF Zone
  <2> QED BY <1>1, <1>2, <1>3, <2>1, <2>2, Zones DEF PagesInv, PagesAccounted
<1> QED BY <1>1, <1>4, <1>5, <1>6, <1>7, <1>8, AccountStep

-----------------------------------------------------------------------------
(***************************************************************************)
(* The tasks and their records                                             *)
(***************************************************************************)
\* A call as the code makes it.
LEMMA CallType ==
  ASSUME NEW then \in {"none", "return", "record", "stack"}, NEW z \in Zone,
         NEW count \in Nat, NEW t \in TaskRecords, t.state = "RUNNING"
  PROVE  Call(then, z, count, t) \in Calls /\ Call(then, z, count, t).task.state = "RUNNING"
BY DEF Call, Calls

LEMMA NoCallType ==
  /\ HeapTask \in TaskRecords /\ HeapTask.state = "RUNNING"
  /\ ~Protects(HeapTask)
  /\ NoCall \in Calls /\ NoCall.task.state = "RUNNING"
<1>1. HeapTask \in TaskRecords /\ HeapTask.state = "RUNNING" /\ ~Protects(HeapTask)
  BY OomConstants DEF HeapTask, TaskRecords, Protects
<1>2. "NORMAL" \in Zone
  BY DEF Zone
<1> QED BY <1>1, <1>2, CallType DEF NoCall

LEMMA TasksInit ==
  ASSUME Init
  PROVE  TasksInv
<1>1. task_array = << >> /\ registered = << >> /\ record = << >> /\ heap_blocks = 0
      /\ call = NoCall
  BY DEF Init
<1>2. DOMAIN record = {} /\ DOMAIN registered = {} /\ Len(task_array) = 0 /\ Len(registered) = 0
  BY <1>1
<1>3. TasksType
  BY <1>1, <1>2, NoCallType, OomConstants DEF TasksType
<1>4. RecordInv /\ HeapInv
  BY <1>1, <1>2 DEF RecordInv, HeapInv
<1> QED BY <1>3, <1>4 DEF TasksInv

\* The slots of task_array and of the history are the same.
LEMMA TaskSlots ==
  ASSUME TasksType
  PROVE  /\ Len(task_array) \in Nat
         /\ DOMAIN registered = 1 .. Len(task_array)
         /\ \A k \in 1 .. Len(task_array) :
              /\ task_array[k] \in DOMAIN record
              /\ registered[k] \in TaskRecords
              /\ Task(k) \in TaskRecords
BY DEF TasksType, Task

\* A step that registers nothing and writes no record.
LEMMA TasksKept ==
  ASSUME TasksInv, UNCHANGED tasks,
         call' \in Calls, call'.task.state = "RUNNING",
         InUse' => InUse
  PROVE  TasksInv'
<1>1. TasksType'
  BY DEF TasksInv, TasksType, tasks
<1>2. RecordInv'
  BY DEF TasksInv, RecordInv, RecordOf, Replaced, Task, tasks
<1>3. HeapInv'
  BY DEF TasksInv, HeapInv, tasks
<1> QED BY <1>1, <1>2, <1>3 DEF TasksInv

\* sys_register_task after its caller wrote the record, at a new address or
\* over the record of an earlier task.
LEMMA RegisterStep ==
  ASSUME TasksInv, InUse,
         NEW addr, NEW t \in TaskRecords, t.state = "RUNNING",
         NEW next \in Calls, next.task.state = "RUNNING",
         Write(addr, t), sys_register_task(addr, t, next),
         heap_blocks' \in {heap_blocks, heap_blocks + 1}
  PROVE  TasksInv'
<1>1. /\ DOMAIN record' = DOMAIN record \cup {addr}
      /\ record'[addr] = t
      /\ \A a \in DOMAIN record : a # addr => record'[a] = record[a]
  BY DEF Write
<1>2. TasksType
  BY DEF TasksInv
<1>3. /\ task_array \in Seq(DOMAIN record) /\ registered \in Seq(TaskRecords)
      /\ Len(task_array) \in Nat /\ Len(registered) = Len(task_array)
      /\ heap_blocks \in Nat /\ heap_blocks <= Len(task_array)
      /\ Len(task_array) <= SYS_MAX_TASKS /\ SYS_MAX_TASKS \in Nat
  BY <1>2, OomConstants DEF TasksInv, TasksType, HeapInv
<1>4. \A a \in DOMAIN record' : record'[a] \in TaskRecords
  BY <1>1, <1>2 DEF TasksType
<1>5. task_array \in Seq(DOMAIN record')
  BY <1>1, <1>3
<1>6. CASE Len(task_array) < SYS_MAX_TASKS
  <2>1. /\ task_array' = Append(task_array, addr)
        /\ registered' = Append(registered, t)
        /\ call' = next
        /\ stopped' = stopped
    BY <1>3, <1>6 DEF sys_register_task
  <2>2. /\ task_array' \in Seq(DOMAIN record') /\ registered' \in Seq(TaskRecords)
        /\ Len(task_array') = Len(task_array) + 1
        /\ Len(registered') = Len(task_array) + 1
    BY <1>1, <1>3, <1>5, <2>1
  <2>3. TasksType'
    BY <1>3, <1>4, <1>6, <2>1, <2>2 DEF TasksType
  <2>4. HeapInv'
    BY <1>3, <2>1, <2>2 DEF HeapInv
  <2>5. ASSUME NEW k \in DOMAIN registered'
        PROVE  RecordOf(k)'
    <3> DEFINE last == Len(task_array) + 1
    <3>0. DOMAIN registered' = 1 .. last /\ last \in Nat
      BY <1>3, <2>1, <2>2
    <3>1. task_array'[last] = addr /\ registered'[last] = t
      BY <1>3, <2>1
    <3>2. CASE k = last
      <4>1. Task(k)' = t
        BY <1>1, <3>1, <3>2 DEF Task
      <4> QED BY <3>1, <3>2, <4>1 DEF RecordOf
    <3>3. CASE k # last
      <4>1. k \in 1 .. Len(task_array) /\ k < last /\ last \in DOMAIN registered'
        BY <1>3, <3>0, <3>3
      <4>2. task_array'[k] = task_array[k] /\ registered'[k] = registered[k]
        BY <1>3, <2>1, <4>1
      <4>3. CASE task_array[k] = addr
        BY <3>1, <4>1, <4>2, <4>3 DEF RecordOf, Replaced
      <4>4. CASE task_array[k] # addr
        <5>1. Task(k)' = Task(k)
          BY <1>1, <1>2, <4>1, <4>2, <4>4, TaskSlots DEF Task
        <5>2. k \in DOMAIN registered /\ RecordOf(k)
          BY <1>2, <4>1, TaskSlots DEF TasksInv, RecordInv
        <5>3. ASSUME Replaced(k) PROVE Replaced(k)'
          <6>1. PICK j \in DOMAIN registered : j > k /\ task_array[j] = task_array[k]
            BY <5>3 DEF Replaced
          <6>2. j \in 1 .. Len(task_array) /\ j \in DOMAIN registered'
            BY <1>2, <1>3, <3>0, <6>1, TaskSlots
          <6>3. task_array'[j] = task_array[j]
            BY <1>3, <2>1, <6>2
          <6> QED BY <4>2, <6>1, <6>2, <6>3 DEF Replaced
        <5>4. InUse' = InUse
          BY <2>1 DEF InUse
        <5> QED BY <4>2, <5>1, <5>2, <5>3, <5>4 DEF RecordOf
      <4> QED BY <4>3, <4>4
    <3> QED BY <3>2, <3>3
  <2> QED BY <2>3, <2>4, <2>5 DEF TasksInv, RecordInv
<1>7. CASE Len(task_array) >= SYS_MAX_TASKS
  <2>1. /\ stopped' = "panic"
        /\ call' = NoCall
        /\ UNCHANGED <<task_array, registered>>
    BY <1>3, <1>7 DEF sys_register_task, Stop
  <2>2. ~InUse'
    BY <2>1 DEF InUse
  <2>3. TasksType'
    BY <1>3, <1>4, <1>5, <2>1, NoCallType DEF TasksType
  <2>4. HeapInv'
    BY <1>3, <2>1, <2>2 DEF HeapInv
  <2>5. ASSUME NEW k \in DOMAIN registered'
        PROVE  RecordOf(k)'
    <3>1. k \in DOMAIN registered /\ k \in 1 .. Len(task_array)
      BY <1>2, <2>1, TaskSlots
    <3>2. RecordOf(k) /\ task_array[k] \in DOMAIN record
      BY <1>2, <3>1, TaskSlots DEF TasksInv, RecordInv
    <3>3. Replaced(k) => Replaced(k)'
      BY <2>1 DEF Replaced
    <3>4. CASE task_array[k] = addr
      BY <1>1, <2>1, <2>2, <3>4 DEF RecordOf, Task
    <3>5. CASE task_array[k] # addr
      BY <1>1, <2>1, <2>2, <3>2, <3>3, <3>5 DEF RecordOf, Task
    <3> QED BY <3>4, <3>5
  <2> QED BY <2>3, <2>4, <2>5 DEF TasksInv, RecordInv
<1> QED BY <1>3, <1>6, <1>7

\* sys_send_sigkill marks a record dead that is neither critical nor
\* unkillable; a task whose record nobody replaced was registered that way.
LEMMA KillTasks ==
  ASSUME TasksInv, InUse,
         NEW v \in DOMAIN task_array, ~Excluded(Task(v)), ~Task(v).critical,
         sys_send_sigkill(task_array[v]),
         UNCHANGED <<task_array, heap_blocks, registered, stopped>>,
         call' \in Calls, call'.task.state = "RUNNING"
  PROVE  TasksInv'
<1> DEFINE a == task_array[v]
<1>1. TasksType /\ v \in 1 .. Len(task_array)
  BY DEF TasksInv, TasksType
<1>2. a \in DOMAIN record /\ record[a] \in TaskRecords /\ Task(v) = record[a]
  BY <1>1, TaskSlots DEF Task
<1>3. record' = [record EXCEPT ![a] = Killed(record[a])]
  BY DEF sys_send_sigkill
<1>4. Killed(record[a]) \in TaskRecords
  BY <1>2 DEF Killed, TaskRecords
<1>5. /\ DOMAIN record' = DOMAIN record
      /\ record'[a] = Killed(record[a])
      /\ \A b \in DOMAIN record : b # a => record'[b] = record[b]
  BY <1>2, <1>3
<1>6. TasksType'
  BY <1>1, <1>4, <1>5 DEF TasksType
<1>7. HeapInv' /\ InUse'
  BY DEF TasksInv, HeapInv, InUse
<1>8. ASSUME NEW k \in DOMAIN registered'
      PROVE  RecordOf(k)'
  <2>1. k \in DOMAIN registered /\ k \in 1 .. Len(task_array)
    BY <1>1, TaskSlots
  <2>2. RecordOf(k) /\ task_array[k] \in DOMAIN record
    BY <1>1, <2>1, TaskSlots DEF TasksInv, RecordInv
  <2>3. CASE Replaced(k)
    BY <2>3 DEF RecordOf, Replaced
  <2>4. CASE ~Replaced(k) /\ task_array[k] = a
    <3>1. /\ Task(k) = Task(v)
          /\ registered[k].critical = Task(v).critical
          /\ registered[k].unkillable = Task(v).unkillable
      BY <2>2, <2>4 DEF RecordOf, Task
    <3>2. ~Protects(registered[k])
      BY <3>1 DEF Protects, Excluded
    <3>3. Task(k)' = Killed(record[a])
      BY <1>5, <2>4 DEF Task
    <3>4. /\ Task(k)'.critical = registered[k].critical
          /\ Task(k)'.unkillable = registered[k].unkillable
      BY <1>2, <3>1, <3>3 DEF Killed
    <3> QED BY <3>2, <3>4 DEF RecordOf
  <2>5. CASE ~Replaced(k) /\ task_array[k] # a
    <3>1. Task(k)' = Task(k)
      BY <1>5, <2>2, <2>5 DEF Task
    <3> QED BY <2>2, <2>5, <3>1 DEF RecordOf
  <2> QED BY <2>3, <2>4, <2>5
<1> QED BY <1>6, <1>7, <1>8 DEF TasksInv, RecordInv

-----------------------------------------------------------------------------
\* A retry leaves the type of the call alone.
LEMMA RetryType ==
  ASSUME TasksInv, RetryAgain
  PROVE  call' \in Calls /\ call'.task.state = "RUNNING"
<1>1. call \in Calls /\ call.task.state = "RUNNING"
  BY DEF TasksInv, TasksType
<1> QED BY <1>1 DEF RetryAgain, Calls

\* A panic or a divide error.
LEMMA StopStep ==
  ASSUME TasksInv, NEW why, why # "no", Stop(why), UNCHANGED tasks
  PROVE  TasksInv'
<1>1. call' = NoCall /\ ~InUse'
  BY DEF Stop, InUse
<1> QED BY <1>1, NoCallType, TasksKept

LEMMA KillerStep ==
  ASSUME OomInv, sys_trigger_oom_killer
  PROVE  OomInv'
<1> USE DEF OomInv
<1>0. managed_pages' = managed_pages /\ InUse
  BY DEF sys_trigger_oom_killer, Retry, Allocating
<1>1. CASE Stop("panic") /\ UNCHANGED <<pages, tasks>>
  BY <1>0, <1>1, PagesKept, StopStep
<1>2. CASE Stop("divide error") /\ UNCHANGED <<pages, tasks>>
  BY <1>0, <1>2, PagesKept, StopStep
<1>3. ASSUME NEW v \in DOMAIN task_array,
             sys_select_bad_process(v), ~Task(v).critical,
             sys_send_sigkill(task_array[v]), RetryAgain,
             UNCHANGED <<total_reclaimed, handed_out, task_array, heap_blocks,
                         registered, stopped>>
      PROVE  OomInv'
  <2>1. task_array[v] \in DOMAIN record
    BY DEF TasksInv, TasksType
  <2>2. PagesInv'
    BY <1>0, <1>3, <2>1, KillPages
  <2>3. ~Excluded(Task(v))
    BY <1>3 DEF sys_select_bad_process
  <2>4. TasksInv'
    BY <1>0, <1>3, <2>3, RetryType, KillTasks
  <2> QED BY <2>2, <2>4
<1> QED BY <1>1, <1>2, <1>3 DEF sys_trigger_oom_killer

LEMMA AllocStep ==
  ASSUME OomInv, AllocSucceeds
  PROVE  OomInv'
<1> USE DEF OomInv
<1>1. PagesInv'
  BY AllocPagesStep
<1>2. InUse /\ heap_blocks' = heap_blocks
  BY DEF AllocSucceeds, Allocating
<1>3. call.task \in TaskRecords /\ call.task.state = "RUNNING"
  BY DEF TasksInv, TasksType, Calls
<1>4. CASE call.then = "record"
  <2>1. /\ Write(Address, call.task)
        /\ sys_register_task(Address, call.task, Call("stack", "NORMAL", 1, call.task))
    BY <1>4 DEF AllocSucceeds
  <2>2. LET next == Call("stack", "NORMAL", 1, call.task)
        IN next \in Calls /\ next.task.state = "RUNNING"
    BY <1>3, CallType DEF Zone
  <2> QED BY <1>1, <1>2, <1>3, <2>1, <2>2, RegisterStep
<1>5. CASE call.then # "record"
  <2>1. call' = NoCall /\ UNCHANGED <<tasks, stopped>>
    BY <1>2, <1>5 DEF AllocSucceeds, tasks
  <2> QED BY <1>1, <2>1, NoCallType, TasksKept DEF InUse
<1> QED BY <1>4, <1>5

LEMMA NewTaskStep ==
  ASSUME OomInv, new_task
  PROVE  OomInv'
<1> USE DEF OomInv
<1>1. PagesInv'
  BY PagesKept DEF new_task
<1>2. /\ InUse
      /\ heap_blocks' \in {heap_blocks, heap_blocks + 1}
      /\ Write(<<"heap", heap_blocks>>, HeapTask)
      /\ sys_register_task(<<"heap", heap_blocks>>, HeapTask, NoCall)
  BY DEF new_task, Idle
<1> QED BY <1>1, <1>2, NoCallType, RegisterStep

LEMMA OomStep ==
  ASSUME OomInv, [Next]_vars
  PROVE  OomInv'
<1> USE DEF OomInv
<1>1. ASSUME NEW z \in Zone, NEW count \in Requests, sys_alloc_pages(z, count)
      PROVE  OomInv'
  <2>1. call' = Call("return", z, count, HeapTask) /\ count \in Nat
        /\ UNCHANGED <<managed_pages, pages, tasks, stopped>>
    BY <1>1, OomConstants DEF sys_alloc_pages
  <2>2. call' \in Calls /\ call'.task.state = "RUNNING"
    BY <2>1, NoCallType, CallType
  <2> QED BY <2>1, <2>2, PagesKept, TasksKept DEF InUse
<1>2. ASSUME NEW t \in NewTasks, scheduler_register_process(t)
      PROVE  OomInv'
  <2>1. call' = Call("record", "NORMAL", 1, t) /\ UNCHANGED <<managed_pages, pages, tasks, stopped>>
    BY <1>2 DEF scheduler_register_process
  <2>2. t \in TaskRecords /\ t.state = "RUNNING"
    BY OomConstants DEF NewTasks, TaskRecords
  <2>3. call' \in Calls /\ call'.task.state = "RUNNING"
    BY <2>1, <2>2, CallType DEF Zone
  <2> QED BY <2>1, <2>3, PagesKept, TasksKept DEF InUse
<1>3. CASE sys_shrink_slab_caches
  <2>1. RetryAgain /\ UNCHANGED <<tasks, stopped>>
    BY <1>3 DEF sys_shrink_slab_caches
  <2> QED BY <1>3, <2>1, SlabStep, RetryType, TasksKept DEF InUse
<1>4. CASE sys_shrink_page_cache
  <2>1. RetryAgain /\ UNCHANGED <<tasks, stopped>>
    BY <1>4 DEF sys_shrink_page_cache
  <2> QED BY <1>4, <2>1, PageCacheStep, RetryType, TasksKept DEF InUse
<1>5. CASE AllocFailed
  <2>1. Stop("panic") /\ UNCHANGED <<managed_pages, pages, tasks>>
    BY <1>5 DEF AllocFailed
  <2> QED BY <2>1, PagesKept, StopStep
<1>6. CASE Stopped \/ UNCHANGED vars
  <2>1. UNCHANGED <<managed_pages, pages, tasks, call, stopped>>
    BY <1>6 DEF Stopped, vars
  <2>2. call' \in Calls /\ call'.task.state = "RUNNING"
    BY <2>1 DEF TasksInv, TasksType
  <2> QED BY <2>1, <2>2, PagesKept, TasksKept DEF InUse
<1> QED BY <1>1, <1>2, <1>3, <1>4, <1>5, <1>6, KillerStep, AllocStep, NewTaskStep DEF Next

LEMMA OomInvariance == Spec => []OomInv
<1>1. Init => OomInv
  BY PagesInit, TasksInit DEF OomInv
<1>2. OomInv /\ [Next]_vars => OomInv'
  BY OomStep
<1> QED BY <1>1, <1>2, PTL DEF Spec

-----------------------------------------------------------------------------
\* The monitor of the main loop (sys_oom_monitor_check) never kills: every
\* allocation, shrinker and kill leaves every zone its minimum.
THEOREM MonitorNeverFires == Spec => []MonitorSilent
<1>1. OomInv => MonitorSilent
  BY DEF OomInv, PagesInv
<1> QED BY <1>1, OomInvariance, PTL

\* Through all retries of sys_alloc_pages no page is lost or invented.
THEOREM PagesAddUp == Spec => []PagesAccounted
<1>1. OomInv => PagesAccounted
  BY DEF OomInv, PagesInv
<1> QED BY <1>1, OomInvariance, PTL

\* Only the credit for killed tasks (sys_send_sigkill) can give a zone more
\* free pages than it manages.
THEOREM ShrinkersStop == Spec => []OnlyKillsOverfill
<1>1. OomInv => OnlyKillsOverfill
  BY DEF OomInv, PagesInv
<1> QED BY <1>1, OomInvariance, PTL

\* A critical or unkillable task is marked dead only when a later task got the
\* same page for its record (sys_alloc_pages, sys_trigger_oom_killer).
THEOREM ProtectedTasksSurvive == Spec => []ProtectedSurvive
<1>1. OomInv => ProtectedSurvive
  BY DEF OomInv, TasksInv, RecordInv, RecordOf, Replaced, Protects, ProtectedSurvive
<1> QED BY <1>1, OomInvariance, PTL

\* The task limit keeps whitex_malloc, which does not test where the heap
\* ends, inside it.
THEOREM HeapSuffices == Spec => []HeapHolds
<1>1. ASSUME OomInv PROVE HeapHolds
  <2>1. heap_blocks \in Nat /\ heap_blocks <= SYS_MAX_TASKS + 1
    <3>1. TasksType /\ HeapInv
      BY <1>1 DEF OomInv, TasksInv
    <3> QED BY <3>1, TaskSlots, OomConstants DEF TasksType, HeapInv
  <2>2. \A m, n, b \in Nat : m <= n => m * b <= n * b
    OBVIOUS
  <2>3. heap_blocks * BLOCK <= (SYS_MAX_TASKS + 1) * BLOCK
    BY <2>1, <2>2, OomConstants
  <2>4. heap_blocks * BLOCK \in Nat /\ (SYS_MAX_TASKS + 1) * BLOCK \in Nat
    BY <2>1, OomConstants
  <2> QED BY <2>3, <2>4, OomConstants DEF HeapHolds
<1> QED BY <1>1, OomInvariance, PTL
=============================================================================
