-------------------------- MODULE FileSystemProofs --------------------------
(***************************************************************************)
(* The working directory of FileSystem stays attached to the root, for     *)
(* every number of nodes and every set of names.                           *)
(***************************************************************************)
EXTENDS FileSystem, SequenceTheorems, TLAPS

\* The path visits no directory twice; this is why rm, which needs
\* parent_idx = current_dir, cannot hit a directory of the path.
PathInjective ==
  \A j, k \in 1 .. Len(path) : path[j] = path[k] => j = k

\* The inductive invariant.
PathInv ==
  /\ TypeOK
  /\ WorkingDirRooted
  /\ PathInjective
  /\ parent_idx[0] = 0

\* The path has a last element, and all its elements are nodes.
LEMMA PathType ==
  ASSUME TypeOK
  PROVE  /\ Len(path) \in Nat \ {0}
         /\ \A k \in 1 .. Len(path) : path[k] \in Node
<1>1. path \in Seq(Node) /\ path # << >>
  BY DEF TypeOK
<1> QED BY <1>1, EmptySeq, ElementOfSeq

\* A node below the working directory is not on the path to it.
LEMMA ChildOffPath ==
  ASSUME PathInv, NEW n \in Node \ {0}, parent_idx[n] = current_dir
  PROVE  \A k \in 1 .. Len(path) : path[k] # n
<1> SUFFICES ASSUME NEW k \in 1 .. Len(path), path[k] = n PROVE FALSE
  OBVIOUS
<1>1. Len(path) \in Nat \ {0}
  BY PathType DEF PathInv
<1>2. k # 1
  BY DEF PathInv, WorkingDirRooted
<1>3. k - 1 \in 1 .. Len(path) - 1 /\ k - 1 \in 1 .. Len(path) /\ (k - 1) + 1 = k
  BY <1>1, <1>2
<1>4. path[k - 1] = current_dir
  BY <1>3 DEF PathInv, WorkingDirRooted
<1>5. k - 1 = Len(path)
  <2>1. Len(path) \in 1 .. Len(path)
    BY <1>1
  <2> QED BY <1>3, <1>4, <2>1 DEF PathInv, WorkingDirRooted, PathInjective
<1> QED BY <1>1, <1>5

\* PathInv holds after init_fs at boot.
LEMMA PathInit ==
  ASSUME Init
  PROVE  PathInv
<1>1. 0 \in Node
  BY FileSystemConstants DEF Node
<1>2. path = <<0>> /\ Len(path) = 1 /\ path[1] = 0
  BY DEF Init
<1>3. is_used[0] /\ type[0] = "DIR_NODE" /\ parent_idx[0] = 0 /\ current_dir = 0
  BY <1>1 DEF Init
<1>4. path \in Seq(Node) /\ path # << >>
  BY <1>1, <1>2
<1>5. /\ is_used \in [Node -> BOOLEAN]
      /\ type \in [Node -> {"DIR_NODE", "FILE_NODE"}]
      /\ parent_idx \in [Node -> Node]
  BY <1>1 DEF Init
<1>6. name \in [Node -> Names \cup {""}]
  BY FileSystemConstants DEF Init
<1>7. TypeOK
  BY <1>1, <1>3, <1>4, <1>5, <1>6 DEF TypeOK
<1>8. WorkingDirRooted /\ PathInjective
  BY <1>2, <1>3 DEF WorkingDirRooted, PathInjective
<1> QED BY <1>3, <1>7, <1>8 DEF PathInv

\* The effect of a step that keeps the path: it is enough that the
\* directories on the path are left alone.
LEMMA PathKept ==
  ASSUME PathInv, TypeOK', UNCHANGED <<path, current_dir>>,
         parent_idx'[0] = 0,
         \A k \in 1 .. Len(path) :
           /\ is_used'[path[k]] /\ type'[path[k]] = "DIR_NODE"
           /\ parent_idx'[path[k]] = parent_idx[path[k]]
  PROVE  PathInv'
<1>1. Len(path) \in Nat \ {0}
  BY PathType DEF PathInv
<1>2. \A k \in 1 .. Len(path) - 1 : k + 1 \in 1 .. Len(path)
  BY <1>1
<1>3. WorkingDirRooted'
  BY <1>2 DEF PathInv, WorkingDirRooted
<1> QED BY <1>3 DEF PathInv, PathInjective

\* mkdir and touch take a free slot, which is not on the path.
LEMMA CreateStep ==
  ASSUME PathInv, NEW n \in Node, NEW t \in {"DIR_NODE", "FILE_NODE"},
         NEW str \in Names, Create(n, t, str)
  PROVE  PathInv'
<1>1. /\ ~is_used[n] /\ n # 0
      /\ is_used' = [is_used EXCEPT ![n] = TRUE]
      /\ type' = [type EXCEPT ![n] = t]
      /\ parent_idx' = [parent_idx EXCEPT ![n] = current_dir]
      /\ name' = [name EXCEPT ![n] = str]
      /\ UNCHANGED <<path, current_dir>>
  BY DEF Create, FirstFree, PathInv, TypeOK
<1>2. 0 \in Node
  BY FileSystemConstants DEF Node
<1>3. TypeOK'
  BY <1>1, <1>2 DEF PathInv, TypeOK
<1>4. ASSUME NEW k \in 1 .. Len(path)
      PROVE  /\ is_used'[path[k]] /\ type'[path[k]] = "DIR_NODE"
             /\ parent_idx'[path[k]] = parent_idx[path[k]]
  <2>1. path[k] \in Node /\ is_used[path[k]] /\ type[path[k]] = "DIR_NODE"
    BY PathType DEF PathInv, WorkingDirRooted
  <2> QED BY <1>1, <2>1 DEF PathInv, TypeOK
<1>5. parent_idx'[0] = 0
  BY <1>1, <1>2 DEF PathInv, TypeOK
<1> QED BY <1>1, <1>3, <1>4, <1>5, PathKept

\* rm frees an entry of the working directory, which is not on the path.
LEMMA RmStep ==
  ASSUME PathInv, NEW n \in Node \ {0}, NEW str, RmTarget(n, str),
         is_used' = [is_used EXCEPT ![n] = FALSE],
         UNCHANGED <<type, parent_idx, name, current_dir, path>>
  PROVE  PathInv'
<1>1. \A k \in 1 .. Len(path) : path[k] # n
  BY ChildOffPath DEF RmTarget, EntryHere
<1>2. TypeOK'
  <2>1. 0 \in Node
    BY FileSystemConstants DEF Node
  <2> QED BY <2>1 DEF PathInv, TypeOK
<1>3. ASSUME NEW k \in 1 .. Len(path)
      PROVE  is_used'[path[k]] /\ type'[path[k]] = "DIR_NODE"
  <2>1. path[k] \in Node /\ is_used[path[k]] /\ type[path[k]] = "DIR_NODE"
    BY PathType DEF PathInv, WorkingDirRooted
  <2> QED BY <1>1, <2>1 DEF PathInv, TypeOK
<1> QED BY <1>2, <1>3, PathKept DEF PathInv

\* cd into a directory extends the path by a node that was not on it.
LEMMA CdStep ==
  ASSUME PathInv, NEW n \in Node, NEW str, CdTarget(n, str),
         current_dir' = n,
         path' = IF n = 0 THEN path ELSE Append(path, n),
         UNCHANGED storage
  PROVE  PathInv'
<1> USE DEF storage
<1>1. is_used[n] /\ type[n] = "DIR_NODE" /\ parent_idx[n] = current_dir
  BY DEF CdTarget, EntryHere
<1>2. Len(path) \in Nat \ {0} /\ \A k \in 1 .. Len(path) : path[k] \in Node
  BY PathType DEF PathInv
<1>3. CASE n = 0
  <2>1. current_dir' = current_dir /\ path' = path
    BY <1>1, <1>3 DEF PathInv
  <2>2. TypeOK'
    BY <2>1 DEF PathInv, TypeOK
  <2> QED BY <2>1, <2>2, PathKept DEF PathInv, WorkingDirRooted
<1>4. CASE n # 0
  <2> DEFINE L == Len(path)
  <2>1. /\ path' \in Seq(Node) /\ path' # << >>
        /\ Len(path') = L + 1
        /\ \A k \in 1 .. L : path'[k] = path[k]
        /\ path'[L + 1] = n
    <3>1. path \in Seq(Node) /\ path' = Append(path, n)
      BY <1>4 DEF PathInv, TypeOK
    <3> QED BY <3>1, AppendProperties
  <2>2. TypeOK'
    BY <2>1 DEF PathInv, TypeOK
  <2>3. \A k \in 1 .. L + 1 : k \in 1 .. L \/ k = L + 1
    BY <1>2
  <2>4. path'[1] = 0 /\ path'[Len(path')] = current_dir'
    BY <1>2, <2>1 DEF PathInv, WorkingDirRooted
  <2>5. \A k \in 1 .. L + 1 : is_used'[path'[k]] /\ type'[path'[k]] = "DIR_NODE"
    BY <1>1, <2>1, <2>3 DEF PathInv, WorkingDirRooted
  <2>6. ASSUME NEW k \in 1 .. L
        PROVE  parent_idx'[path'[k + 1]] = path'[k]
    <3>1. CASE k = L
      BY <1>1, <2>1, <3>1 DEF PathInv, WorkingDirRooted
    <3>2. CASE k # L
      <4>1. k \in 1 .. L - 1 /\ k + 1 \in 1 .. L
        BY <1>2, <3>2
      <4> QED BY <2>1, <4>1 DEF PathInv, WorkingDirRooted
    <3> QED BY <3>1, <3>2
  <2>7. L + 1 - 1 = L
    BY <1>2
  <2>8. WorkingDirRooted'
    <3>1. \A k \in 1 .. Len(path') : is_used'[path'[k]] /\ type'[path'[k]] = "DIR_NODE"
      BY <2>1, <2>5
    <3>2. \A k \in 1 .. Len(path') - 1 : parent_idx'[path'[k + 1]] = path'[k]
      BY <2>1, <2>6, <2>7
    <3> QED BY <2>4, <3>1, <3>2 DEF WorkingDirRooted
  <2>9. PathInjective'
    <3>1. \A k \in 1 .. L : path[k] # n
      BY <1>1, <1>4, ChildOffPath
    <3>2. \A j, k \in 1 .. L + 1 : path'[j] = path'[k] => j = k
      BY <2>1, <2>3, <3>1 DEF PathInv, PathInjective
    <3> QED BY <2>1, <3>2 DEF PathInjective
  <2> QED BY <2>2, <2>8, <2>9 DEF PathInv
<1> QED BY <1>3, <1>4

\* cd ".." goes to the directory before the last one of the path.
LEMMA CdUpStep ==
  ASSUME PathInv, CdUp
  PROVE  PathInv'
<1> USE DEF storage
<1> DEFINE L == Len(path)
<1>1. L \in Nat \ {0} /\ \A k \in 1 .. L : path[k] \in Node
  BY PathType DEF PathInv
<1>2. UNCHANGED storage /\ current_dir' = parent_idx[current_dir]
  BY DEF CdUp
<1>3. CASE L = 1
  <2>1. path' = path /\ current_dir = 0 /\ current_dir' = current_dir
    BY <1>2, <1>3 DEF CdUp, PathInv, WorkingDirRooted
  <2> QED BY <1>2, <2>1 DEF PathInv, TypeOK, WorkingDirRooted, PathInjective
<1>4. CASE L # 1
  <2>1. path' = SubSeq(path, 1, L - 1)
    BY <1>4 DEF CdUp
  <2>2. L - 1 \in 1 .. L /\ L - 1 \in Nat \ {0}
    BY <1>1, <1>4
  <2>3. /\ path' \in Seq(Node) /\ Len(path') = L - 1
        /\ \A k \in 1 .. L - 1 : path'[k] = path[k]
    <3>1. path \in Seq(Node)
      BY DEF PathInv, TypeOK
    <3> HIDE DEF L
    <3>2. 1 \in 1 .. L + 1 /\ L - 1 \in 0 .. L
      BY <1>1, <2>2
    <3> QED BY <1>1, <2>1, <2>2, <3>1, <3>2, SubSeqProperties DEF L
  <2>4. path' # << >>
    BY <2>2, <2>3
  <2>5. current_dir' = path[L - 1]
    <3>1. path[L] = current_dir
      BY DEF PathInv, WorkingDirRooted
    <3>2. L - 1 \in 1 .. L - 1 /\ (L - 1) + 1 = L
      BY <1>1, <2>2
    <3>3. parent_idx[path[L]] = path[L - 1]
      BY <3>2 DEF PathInv, WorkingDirRooted
    <3> QED BY <1>2, <3>1, <3>3
  <2>6. TypeOK'
    BY <1>1, <1>2, <2>2, <2>3, <2>4, <2>5 DEF PathInv, TypeOK
  <2>7. \A k \in 1 .. L - 1 : k \in 1 .. L
    BY <1>1
  <2>8. \A k \in 1 .. (L - 1) - 1 : k \in 1 .. L - 1 /\ k + 1 \in 1 .. L - 1
    BY <1>1
  <2>9. WorkingDirRooted'
    <3>1. path'[1] = 0 /\ path'[Len(path')] = current_dir'
      BY <2>2, <2>3, <2>5 DEF PathInv, WorkingDirRooted
    <3>2. \A k \in 1 .. Len(path') : is_used'[path'[k]] /\ type'[path'[k]] = "DIR_NODE"
      BY <1>2, <2>3, <2>7 DEF PathInv, WorkingDirRooted
    <3>3. \A k \in 1 .. Len(path') - 1 : parent_idx'[path'[k + 1]] = path'[k]
      BY <1>2, <2>3, <2>8 DEF PathInv, WorkingDirRooted
    <3> QED BY <3>1, <3>2, <3>3 DEF WorkingDirRooted
  <2>10. PathInjective'
    BY <2>3, <2>7 DEF PathInv, PathInjective
  <2> QED BY <1>2, <2>6, <2>9, <2>10 DEF PathInv
<1> QED BY <1>3, <1>4

\* initfs puts the user back at the root.
LEMMA InitFsStep ==
  ASSUME PathInv, InitFs
  PROVE  PathInv'
<1>1. 0 \in Node
  BY FileSystemConstants DEF Node
<1>2. /\ path' = <<0>> /\ Len(path') = 1 /\ path'[1] = 0
      /\ is_used' = [n \in Node |-> n = 0]
      /\ type' = [type EXCEPT ![0] = "DIR_NODE"]
      /\ parent_idx' = [parent_idx EXCEPT ![0] = 0]
      /\ name' = [name EXCEPT ![0] = "root"]
      /\ current_dir' = 0
  BY DEF InitFs
<1>3. path' \in Seq(Node) /\ path' # << >>
  BY <1>1, <1>2
<1>4. TypeOK'
  BY <1>1, <1>2, <1>3, FileSystemConstants DEF PathInv, TypeOK
<1>5. is_used'[0] /\ type'[0] = "DIR_NODE" /\ parent_idx'[0] = 0
  BY <1>1, <1>2 DEF PathInv, TypeOK
<1>6. WorkingDirRooted' /\ PathInjective'
  BY <1>2, <1>5 DEF WorkingDirRooted, PathInjective
<1> QED BY <1>4, <1>5, <1>6 DEF PathInv

\* Every command keeps PathInv.
LEMMA PathStep ==
  ASSUME PathInv, [Next]_vars
  PROVE  PathInv'
<1>1. ASSUME NEW str \in Names, Mkdir(str) \/ Touch(str)
      PROVE  PathInv'
  BY <1>1, CreateStep DEF Mkdir, Touch
<1>2. ASSUME NEW str \in Names, Cd(str)
      PROVE  PathInv'
  BY <1>2, CdStep DEF Cd
<1>3. ASSUME NEW str \in Names, Rm(str)
      PROVE  PathInv'
  BY <1>3, RmStep DEF Rm
<1>4. CASE Sync \/ UNCHANGED vars
  <2>1. UNCHANGED <<is_used, type, parent_idx, name, current_dir, path>>
    BY <1>4 DEF Sync, vars, storage
  <2>2. TypeOK'
    BY <2>1 DEF PathInv, TypeOK
  <2> QED BY <2>1, <2>2, PathKept DEF PathInv, WorkingDirRooted
<1> QED BY <1>1, <1>2, <1>3, <1>4, CdUpStep, InitFsStep DEF Next

\* PathInv is an invariant.
LEMMA PathInvariance == Spec => []PathInv
BY PathInit, PathStep, PTL DEF Spec

\* Whatever is created and removed, the working directory hangs on the root
\* by the directories the user went through (fs.h cd, fssdd.h rm).
THEOREM WorkingDirStaysRooted == Spec => []WorkingDirRooted
<1>1. PathInv => WorkingDirRooted
  BY DEF PathInv
<1> QED BY <1>1, PathInvariance, PTL

\* The entries of a removed directory are beyond the reach of every command
\* but initfs until its slot is taken again (fssdd.h rm).
THEOREM OrphansAreKept == Spec => OrphanKept
<1>1. ASSUME PathInv, [Next]_vars
      PROVE  [\A n \in Node : is_used[n] /\ ~is_used[parent_idx[n]]
                => Image(n)' = Image(n) \/ is_used' = [k \in Node |-> k = 0]]_vars
  <2> SUFFICES ASSUME Next, NEW n \in Node, is_used[n], ~is_used[parent_idx[n]]
               PROVE  Image(n)' = Image(n) \/ is_used' = [k \in Node |-> k = 0]
    BY <1>1
  <2>0. is_used[current_dir]
    <3>1. Len(path) \in 1 .. Len(path)
      BY <1>1, PathType DEF PathInv
    <3> QED BY <1>1, <3>1 DEF PathInv, WorkingDirRooted
  <2>1. ASSUME NEW str \in Names, NEW k \in Node, NEW t, Create(k, t, str)
        PROVE  Image(n)' = Image(n)
    BY <1>1, <2>1 DEF Create, FirstFree, Image, PathInv, TypeOK
  <2>2. ASSUME NEW str \in Names, Rm(str)
        PROVE  Image(n)' = Image(n)
    <3>1. PICK k \in Node : /\ RmTarget(k, str)
                            /\ is_used' = [is_used EXCEPT ![k] = FALSE]
      BY <2>2 DEF Rm
    <3>2. k # n
      BY <2>0, <3>1 DEF RmTarget, EntryHere
    <3>3. is_used'[n] = is_used[n]
      BY <1>1, <3>1, <3>2 DEF PathInv, TypeOK
    <3> QED BY <2>2, <3>3 DEF Rm, Image
  <2>3. CASE InitFs
    BY <2>3 DEF InitFs
  <2>4. CASE CdUp \/ Sync \/ \E str \in Names : Cd(str)
    BY <2>4 DEF CdUp, Sync, Cd, storage, Image
  <2> QED BY <2>1, <2>2, <2>3, <2>4 DEF Next, Mkdir, Touch
<1> QED BY <1>1, PathInvariance, PTL DEF Spec, OrphanKept
-----------------------------------------------------------------------------
(***************************************************************************)
(* NoDirectoryCycle is inductive next to PathInv: a cycle that a new node  *)
(* closes would hold the working directory and so the whole path to it,    *)
(* but that part of it was there before.                                   *)
(***************************************************************************)

\* Freeing slots and leaving the others' parents alone makes no cycle.
LEMMA FewerNodes ==
  ASSUME NoDirectoryCycle,
         \A n \in Node \ {0} : is_used'[n] => is_used[n] /\ parent_idx'[n] = parent_idx[n]
  PROVE  NoDirectoryCycle'
<1> SUFFICES ASSUME NEW S \in SUBSET {n \in Node \ {0} : is_used'[n]}, S # {}
             PROVE  \E n \in S : parent_idx'[n] \notin S
  BY DEF NoDirectoryCycle
<1>1. S \in SUBSET {n \in Node \ {0} : is_used[n]}
  OBVIOUS
<1>2. PICK n \in S : parent_idx[n] \notin S
  BY <1>1 DEF NoDirectoryCycle
<1> QED BY <1>2

\* A node in a free slot, below the working directory, closes no cycle, not
\* even when orphans still name that slot as their parent.
LEMMA CreateNoCycle ==
  ASSUME PathInv, NoDirectoryCycle,
         NEW n \in Node, NEW t, NEW str, Create(n, t, str)
  PROVE  NoDirectoryCycle'
<1>1. /\ ~is_used[n]
      /\ is_used' = [is_used EXCEPT ![n] = TRUE]
      /\ parent_idx' = [parent_idx EXCEPT ![n] = current_dir]
      /\ is_used \in [Node -> BOOLEAN]
      /\ parent_idx \in [Node -> Node]
  BY DEF Create, FirstFree, PathInv, TypeOK
<1> SUFFICES ASSUME NEW S \in SUBSET {k \in Node \ {0} : is_used'[k]}, S # {},
                    \A k \in S : parent_idx'[k] \in S
             PROVE  FALSE
  BY DEF NoDirectoryCycle
<1>2. CASE n \notin S
  <2>1. S \in SUBSET {k \in Node \ {0} : is_used[k]}
    BY <1>1, <1>2
  <2>2. \A k \in S : parent_idx[k] \in S
    BY <1>1, <1>2
  <2> QED BY <2>1, <2>2 DEF NoDirectoryCycle
<1>3. CASE n \in S
  <2> DEFINE P == {path[k] : k \in 1 .. Len(path)}
             T == S \cap P
  <2>1. /\ Len(path) \in Nat \ {0}
        /\ \A k \in 1 .. Len(path) : path[k] \in Node /\ is_used[path[k]]
        /\ \A k \in 1 .. Len(path) - 1 : parent_idx[path[k + 1]] = path[k]
        /\ path[1] = 0 /\ path[Len(path)] = current_dir
    BY PathType DEF PathInv, WorkingDirRooted
  <2>2. T \in SUBSET {k \in Node \ {0} : is_used[k]}
    BY <2>1
  <2>3. current_dir \in T
    BY <1>1, <1>3, <2>1
  <2>4. ASSUME NEW m \in T
        PROVE  parent_idx[m] \in T
    <3>1. PICK k \in 1 .. Len(path) : path[k] = m
      OBVIOUS
    <3>2. m \in S /\ m # 0 /\ m # n /\ m \in Node
      BY <1>1, <2>2
    <3>3. k # 1
      BY <2>1, <3>1, <3>2
    <3>4. k - 1 \in 1 .. Len(path) - 1 /\ k - 1 \in 1 .. Len(path) /\ (k - 1) + 1 = k
      BY <2>1, <3>3
    <3>5. parent_idx[m] = path[k - 1]
      BY <2>1, <3>1, <3>4
    <3>6. parent_idx'[m] = parent_idx[m]
      BY <1>1, <3>2
    <3> QED BY <3>2, <3>4, <3>5, <3>6
  <2> QED BY <2>2, <2>3, <2>4 DEF NoDirectoryCycle
<1> QED BY <1>2, <1>3

LEMMA CycleStep ==
  ASSUME PathInv, NoDirectoryCycle, [Next]_vars
  PROVE  NoDirectoryCycle'
<1>1. ASSUME NEW str \in Names, Mkdir(str) \/ Touch(str)
      PROVE  NoDirectoryCycle'
  BY <1>1, CreateNoCycle DEF Mkdir, Touch
<1>2. ASSUME NEW str \in Names, Rm(str)
      PROVE  NoDirectoryCycle'
  <2>1. PICK n \in Node \ {0} : is_used' = [is_used EXCEPT ![n] = FALSE]
    BY <1>2 DEF Rm
  <2>2. parent_idx' = parent_idx /\ is_used \in [Node -> BOOLEAN]
    BY <1>2 DEF Rm, PathInv, TypeOK
  <2> QED BY <2>1, <2>2, FewerNodes
<1>3. CASE InitFs
  BY <1>3, FewerNodes DEF InitFs
<1>4. CASE CdUp \/ Sync \/ UNCHANGED vars \/ \E str \in Names : Cd(str)
  BY <1>4, FewerNodes DEF CdUp, Sync, Cd, vars, storage
<1> QED BY <1>1, <1>2, <1>3, <1>4 DEF Next

\* Following parent_idx from any existing node ends, at the root or at a free
\* slot, whatever mkdir, touch, rm and initfs did before (cd "..").
THEOREM NoCycleEver == Spec => []NoDirectoryCycle
<1>1. Init => NoDirectoryCycle
  BY DEF Init, NoDirectoryCycle
<1>2. PathInv /\ NoDirectoryCycle /\ [Next]_vars => NoDirectoryCycle'
  BY CycleStep
<1> QED BY <1>1, <1>2, PathInvariance, PTL DEF Spec
=============================================================================
