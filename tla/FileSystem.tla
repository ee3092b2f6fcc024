----------------------------- MODULE FileSystem -----------------------------
(***************************************************************************)
(* The in-memory file system of fs.h and fssdd.h and its copy on disk      *)
(* (sdd.h).  A node is a slot of storage[]; slots are reused, and rm of a  *)
(* directory leaves its entries behind.  Names are at most NAME_LEN - 1    *)
(* characters long, so fs_strcpy copies them whole.                        *)
(*                                                                         *)
(* path is a history variable: the directories the user went through with  *)
(* cd, from the root to where he is.  The code keeps only current_dir.     *)
(***************************************************************************)
EXTENDS Naturals, Sequences

CONSTANTS
  MAX_NODES,        \* slots of storage[] (128)
  Names,            \* what the user can type, "root" included
  NODES_PER_BLOCK,  \* nodes in one disk block (512 / sizeof(VFSNode))
  Devices           \* what Sdd() may find at boot: "DEV_NONE", "DEV_ATA"

ASSUME FileSystemConstants ==
  /\ MAX_NODES \in Nat \ {0}
  /\ "root" \in Names
  /\ NODES_PER_BLOCK \in Nat \ {0}
  /\ Devices \subseteq {"DEV_NONE", "DEV_ATA"}

VARIABLES
  is_used, type, parent_idx, name,  \* the fields of storage[]
  current_dir,
  path,
  device,   \* primary_dev.type
  disk,     \* for every node, what the disk holds of it
  synced    \* the last command printed "FS Synced to Disk."

storage == <<is_used, type, parent_idx, name>>
vars == <<storage, current_dir, path, device, disk, synced>>

Node == 0 .. MAX_NODES - 1
Image(n) == <<is_used[n], type[n], parent_idx[n], name[n]>>
BlankDisk == <<FALSE, "none", 0, "">>

\* What init_fs leaves of a storage it finds zeroed (at boot).
Init ==
  /\ is_used = [n \in Node |-> n = 0]
  /\ type = [n \in Node |-> "DIR_NODE"]
  /\ parent_idx = [n \in Node |-> 0]
  /\ name = [n \in Node |-> IF n = 0 THEN "root" ELSE ""]
  /\ current_dir = 0
  /\ path = <<0>>
  /\ device \in Devices
  /\ disk = [n \in Node |-> BlankDisk]
  /\ synced = FALSE

-----------------------------------------------------------------------------
\* Mutant of InitFs: the loop stops before the last slot.
InitFs_short ==
  /\ is_used' = [n \in Node |-> n = 0 \/ (n = MAX_NODES - 1 /\ is_used[n])]
  /\ type' = [type EXCEPT ![0] = "DIR_NODE"]
  /\ parent_idx' = [parent_idx EXCEPT ![0] = 0]
  /\ name' = [name EXCEPT ![0] = "root"]
  /\ current_dir' = 0
  /\ path' = <<0>>
  /\ synced' = FALSE
  /\ UNCHANGED <<device, disk>>

\* The command initfs runs init_fs again: the slots are freed, not cleared.
InitFs ==
  /\ is_used' = [n \in Node |-> n = 0]
  /\ type' = [type EXCEPT ![0] = "DIR_NODE"]
  /\ parent_idx' = [parent_idx EXCEPT ![0] = 0]
  /\ name' = [name EXCEPT ![0] = "root"]
  /\ current_dir' = 0
  /\ path' = <<0>>
  /\ synced' = FALSE
  /\ UNCHANGED <<device, disk>>

\* mkdir and touch take the first free slot; a full storage is left alone.
FirstFree(n) == ~is_used[n] /\ \A k \in Node : k < n => is_used[k]

\* Mutant of Create: the new node is its own parent.
Create_loop(n, t, str) ==
  /\ FirstFree(n)
  /\ is_used' = [is_used EXCEPT ![n] = TRUE]
  /\ type' = [type EXCEPT ![n] = t]
  /\ parent_idx' = [parent_idx EXCEPT ![n] = n]
  /\ name' = [name EXCEPT ![n] = str]
  /\ synced' = FALSE
  /\ UNCHANGED <<current_dir, path, device, disk>>

Create(n, t, str) ==
  /\ FirstFree(n)
  /\ is_used' = [is_used EXCEPT ![n] = TRUE]
  /\ type' = [type EXCEPT ![n] = t]
  /\ parent_idx' = [parent_idx EXCEPT ![n] = current_dir]
  /\ name' = [name EXCEPT ![n] = str]
  /\ synced' = FALSE
  /\ UNCHANGED <<current_dir, path, device, disk>>

Mkdir(str) == \E n \in Node : Create(n, "DIR_NODE", str)
Touch(str) == \E n \in Node : Create(n, "FILE_NODE", str)

\* An entry of the working directory with that name, and the first one a
\* search finds.
EntryHere(n, str) == is_used[n] /\ name[n] = str /\ parent_idx[n] = current_dir

CdTarget(n, str) ==
  /\ EntryHere(n, str) /\ type[n] = "DIR_NODE"
  /\ \A k \in Node : k < n => ~(EntryHere(k, str) /\ type[k] = "DIR_NODE")

Cd(str) ==
  /\ \E n \in Node :
       /\ CdTarget(n, str)
       /\ current_dir' = n
       /\ path' = IF n = 0 THEN path ELSE Append(path, n)
  /\ synced' = FALSE
  /\ UNCHANGED <<storage, device, disk>>

\* cd ".." follows parent_idx; the history steps back to where the user came
\* from.
CdUp ==
  /\ current_dir' = parent_idx[current_dir]
  /\ path' = IF Len(path) = 1 THEN path ELSE SubSeq(path, 1, Len(path) - 1)
  /\ synced' = FALSE
  /\ UNCHANGED <<storage, device, disk>>

\* Mutant of RmTarget: any directory is searched.
RmTarget_anywhere(n, str) ==
  /\ is_used[n] /\ name[n] = str
  /\ \A k \in Node : k < n => ~(is_used[k] /\ name[k] = str)

\* rm frees the first entry of that name unless it is slot 0.
RmTarget(n, str) ==
  EntryHere(n, str) /\ \A k \in Node : k < n => ~EntryHere(k, str)

Rm(str) ==
  /\ \E n \in Node \ {0} :
       /\ RmTarget(n, str)
       /\ is_used' = [is_used EXCEPT ![n] = FALSE]
  /\ synced' = FALSE
  /\ UNCHANGED <<type, parent_idx, name, current_dir, path, device, disk>>

\* Sdd_Sync writes every block and looks at no result.  A write fails when
\* there is no device, or when the drive does not answer in time
\* (ata_write_sectors); then the block keeps what it had.
BlockOf(n) == n \div NODES_PER_BLOCK
Blocks == {BlockOf(n) : n \in Node}

\* The sets of blocks write_block may succeed for.
Writable == IF device = "DEV_NONE" THEN {{}} ELSE SUBSET Blocks

Sync ==
  /\ \E written \in Writable :
       disk' = [n \in Node |-> IF BlockOf(n) \in written THEN Image(n) ELSE disk[n]]
  /\ synced' = TRUE
  /\ UNCHANGED <<storage, current_dir, path, device>>

Next ==
  \/ InitFs
  \/ \E str \in Names : Mkdir(str) \/ Touch(str) \/ Cd(str) \/ Rm(str)
  \/ CdUp
  \/ Sync

Spec == Init /\ [][Next]_vars

-----------------------------------------------------------------------------
(***************************************************************************)
(* Properties                                                              *)
(***************************************************************************)

\* Slots hold the values the commands write; the root's slot is never freed.
TypeOK ==
  /\ is_used \in [Node -> BOOLEAN]
  /\ type \in [Node -> {"DIR_NODE", "FILE_NODE"}]
  /\ parent_idx \in [Node -> Node]
  /\ name \in [Node -> Names \cup {""}]
  /\ current_dir \in Node
  /\ path \in Seq(Node) /\ path # << >>
  /\ is_used[0]

\* The working directory is where the user went: current_dir is the end of
\* the path he followed from the root, and every directory on it still exists
\* and still has the previous one as its parent, whatever was removed, created
\* in a reused slot or initialised in between.  So cd ".." undoes cd.
WorkingDirRooted ==
  /\ path[1] = 0
  /\ path[Len(path)] = current_dir
  /\ \A k \in 1 .. Len(path) : is_used[path[k]] /\ type[path[k]] = "DIR_NODE"
  /\ \A k \in 1 .. Len(path) - 1 : parent_idx[path[k + 1]] = path[k]

\* No directory is its own ancestor, although slots are reused while nodes
\* still name them as parents: no set of existing nodes without the root is
\* closed under parent_idx.
NoDirectoryCycle ==
  \A S \in SUBSET {n \in Node \ {0} : is_used[n]} :
    S # {} => \E n \in S : parent_idx[n] \notin S

\* An entry whose directory was removed (rm does not look inside) is out of
\* reach: no command but initfs frees or changes it as long as the slot of
\* that directory is free.
OrphanKept ==
  [][\A n \in Node : is_used[n] /\ ~is_used[parent_idx[n]]
       => Image(n)' = Image(n) \/ is_used' = [k \in Node |-> k = 0]]_vars

\* test.sh counts "FS Synced to Disk" as a sign of success: when the message
\* was printed last, the disk holds the storage.
SyncedMeansOnDisk ==
  synced => \A n \in Node : disk[n] = Image(n)
=============================================================================
