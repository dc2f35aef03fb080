-------------------------- MODULE BatchMergeProofs --------------------------
(***************************************************************************)
(* Proofs about BatchMerge, for every set of tasks and of bundles.  The    *)
(* strengthening, Prepared, says what the preflight and each finished      *)
(* phase have made true of the tasks that are being merged.                *)
(***************************************************************************)
EXTENDS BatchMerge, TLAPS

Merging == DOMAIN validated
Indexed(t) == index[t] # Absent
SqlIsWhole(t) == snapshots[SqlOf[validated[t].bundle]] = "whole"

Prepared ==
    /\ pc = "idle" => Merging = {}
    /\ \A t \in Merging :
         /\ validated[t].bundle = validated[t].row
         /\ Indexed(t) => replace /\ SqlOf[validated[t].row] = SqlOf[index[t]]
         /\ Indexed(t) /\ t \notin toSave => index[t] \in saved[t]
         /\ pc = "save" /\ t \in toSave => dirs[t] # Absent
         /\ pc \in {"copy", "install"} => t \notin toSave
         /\ pc = "copy" => SqlIsWhole(t) \/ SqlOf[validated[t].bundle] \in toCopy
         /\ pc = "install" => SqlIsWhole(t)
         /\ pc = "save" => SqlOf[validated[t].bundle] \in toCopy
         /\ pc \in {"save", "copy"} => t \in toInstall
         /\ pc = "install" /\ t \notin toInstall => dirs[t] = validated[t].bundle

MergeInvariant == MergeTypeOK /\ Prepared /\ BackedOrSaved
-----------------------------------------------------------------------------
(* An incoming task that was validated holds the bundle its row names.     *)
LEMMA ValidIsConsistent ==
    ASSUME NEW x \in Produced, ValidTask(x)
    PROVE  x.bundle = x.row /\ x.row \in Bundles
  BY MergeAssumption DEF Produced, Task, ValidTask

LEMMA HashesAreSqls == \A b \in Bundles : SqlOf[b] \in Sqls
  BY DEF Sqls

(* No process, no work. *)
LEMMA EmptyIsBatch == NoTask \in Batches /\ DOMAIN NoTask = {}
  <1>1. NoTask \in [{} -> Produced]
    BY DEF NoTask
  <1>2. {} \in SUBSET Tasks
    OBVIOUS
  <1> QED BY <1>1, <1>2 DEF Batches, NoTask

(* What a batch is, and that a part of one is a batch. *)
LEMMA BatchParts ==
    ASSUME NEW in \in Batches, NEW S \in SUBSET (DOMAIN in)
    PROVE  /\ DOMAIN in \subseteq Tasks /\ (\A t \in DOMAIN in : in[t] \in Produced)
           /\ [t \in S |-> in[t]] \in Batches
  <1>1. PICK listed \in SUBSET Tasks : in \in [listed -> Produced]
    BY DEF Batches
  <1>2. DOMAIN in = listed /\ S \in SUBSET Tasks
    BY <1>1
  <1>3. [t \in S |-> in[t]] \in [S -> Produced]
    BY <1>1, <1>2
  <1> QED BY <1>1, <1>2, <1>3 DEF Batches

(* The tasks that are being merged are incoming tasks. *)
LEMMA MergingIsTyped ==
    ASSUME MergeInvariant, NEW t \in Merging
    PROVE  t \in Tasks /\ validated[t].bundle \in Bundles /\ validated[t].row \in Bundles
  BY BatchParts DEF MergeInvariant, MergeTypeOK, Merging, Produced, Task

(* Before the first merge nothing is prepared, and the root is whole. *)
THEOREM MergeInitially == MergeInit => MergeInvariant
  <1> SUFFICES ASSUME MergeInit PROVE MergeInvariant
    OBVIOUS
  <1> USE DEF MergeInit
  <1>1. MergeTypeOK
    BY EmptyIsBatch DEF MergeTypeOK
  <1>2. Prepared
    BY EmptyIsBatch DEF Prepared, Merging
  <1>3. BackedOrSaved
    BY HashesAreSqls DEF BackedOrSaved
  <1> QED BY <1>1, <1>2, <1>3 DEF MergeInvariant

(* The preflight. *)
LEMMA StartKept ==
    ASSUME MergeInvariant, NEW in \in Batches, NEW flag \in BOOLEAN, Start(in, flag)
    PROVE  MergeInvariant'
  <1> USE DEF MergeInvariant
  <1>1. /\ SameSql(in) /\ Placed(in, flag) /\ \A t \in Chosen(in, flag) : ValidTask(in[t])
        /\ pc' = "save" /\ validated' = [t \in Chosen(in, flag) |-> in[t]] /\ replace' = flag
        /\ toSave' = Replaced(in, flag) /\ toInstall' = Chosen(in, flag)
        /\ toCopy' = {SqlOf[in[t].bundle] : t \in Chosen(in, flag)}
        /\ UNCHANGED <<dirs, index, snapshots, saved>>
    BY DEF Start, root
  <1>2. Chosen(in, flag) \subseteq DOMAIN in /\ Replaced(in, flag) \subseteq Chosen(in, flag)
    BY DEF Chosen, Replaced, Overlap
  <1>3. DOMAIN in \subseteq Tasks /\ \A t \in DOMAIN in : in[t] \in Produced
    BY BatchParts
  <1>4. validated' \in Batches /\ Merging' = Chosen(in, flag)
    BY <1>1, <1>2, BatchParts DEF Merging
  <1>5. toCopy' \subseteq Sqls
    BY <1>1, <1>2, <1>3, HashesAreSqls DEF Produced, Task
  <1>6. MergeTypeOK'
    BY <1>1, <1>2, <1>4, <1>5 DEF MergeTypeOK, Merging
  <1>7. ASSUME NEW t \in Chosen(in, flag)
        PROVE  /\ validated'[t] = in[t] /\ in[t].bundle = in[t].row
               /\ SqlOf[in[t].bundle] \in toCopy'
               /\ index[t] # Absent =>
                    flag /\ t \in toSave' /\ SqlOf[in[t].row] = SqlOf[index[t]]
               /\ (t \in toSave' => dirs[t] # Absent) /\ t \in toInstall'
    <2>1. validated'[t] = in[t] /\ SqlOf[in[t].bundle] \in toCopy'
      BY <1>1
    <2>2. in[t].bundle = in[t].row
      BY <1>1, <1>2, <1>3, ValidIsConsistent
    <2>3. index[t] # Absent => flag /\ t \in toSave' /\ SqlOf[in[t].row] = SqlOf[index[t]]
      BY <1>1, <1>2 DEF Chosen, Replaced, Overlap, SameSql
    <2>4. (t \in toSave' => dirs[t] # Absent) /\ t \in toInstall'
      BY <1>1 DEF Placed, Replaced, Overlap
    <2> QED BY <2>1, <2>2, <2>3, <2>4
  <1>8. Prepared'
    BY <1>1, <1>4, <1>7 DEF Prepared, Indexed
  <1>9. BackedOrSaved'
    BY <1>1 DEF BackedOrSaved
  <1> QED BY <1>6, <1>8, <1>9

(* The backup: what a row names is in it, or was in an earlier one. *)
LEMMA SaveKept ==
    ASSUME MergeInvariant, NEW t \in Tasks, Save(t)
    PROVE  MergeInvariant'
  <1> USE DEF MergeInvariant
  <1>1. /\ pc = "save" /\ t \in toSave
        /\ saved' = [saved EXCEPT ![t] = @ \cup {dirs[t]}] /\ toSave' = toSave \ {t}
        /\ UNCHANGED <<dirs, index, snapshots, pc, validated, replace, toCopy, toInstall>>
    BY DEF Save, order
  <1>2. \A u \in Tasks : saved[u] \subseteq saved'[u]
    BY <1>1 DEF MergeTypeOK
  <1>3. Indexed(t) => index[t] \in saved'[t]
    BY <1>1 DEF BackedOrSaved, MergeTypeOK, Indexed
  <1>4. MergeTypeOK'
    <2>1. t \in DOMAIN validated /\ dirs[t] \in Bundles \cup {Absent, Torn}
      BY <1>1 DEF MergeTypeOK
    <2>2. dirs[t] # Absent
      BY <1>1, <2>1 DEF Prepared, Merging
    <2> QED BY <1>1, <2>1, <2>2 DEF MergeTypeOK
  <1>5. Prepared'
    BY <1>1, <1>2, <1>3 DEF Prepared, Merging, Indexed, SqlIsWhole, MergeTypeOK, Batches
  <1>6. BackedOrSaved'
    BY <1>1, <1>2 DEF BackedOrSaved
  <1> QED BY <1>4, <1>5, <1>6

(* A phase ends when its tasks are done. *)
LEMMA SavedKept == MergeInvariant /\ Saved => MergeInvariant'
  <1> SUFFICES ASSUME MergeInvariant, Saved PROVE MergeInvariant'
    OBVIOUS
  <1> USE DEF MergeInvariant
  <1>1. /\ pc = "save" /\ toSave = {} /\ pc' = "copy"
        /\ UNCHANGED <<dirs, index, snapshots, saved, validated, replace,
                       toSave, toCopy, toInstall>>
    BY DEF Saved, root, order, work
  <1>2. MergeTypeOK'
    BY <1>1 DEF MergeTypeOK
  <1>3. Prepared'
    BY <1>1 DEF Prepared, Merging, Indexed, SqlIsWhole
  <1>4. BackedOrSaved'
    BY <1>1 DEF BackedOrSaved
  <1> QED BY <1>2, <1>3, <1>4

LEMMA CopiedKept == MergeInvariant /\ Copied => MergeInvariant'
  <1> SUFFICES ASSUME MergeInvariant, Copied PROVE MergeInvariant'
    OBVIOUS
  <1> USE DEF MergeInvariant
  <1>1. /\ pc = "copy" /\ toCopy = {} /\ pc' = "install"
        /\ UNCHANGED <<dirs, index, snapshots, saved, validated, replace,
                       toSave, toCopy, toInstall>>
    BY DEF Copied, root, order, work
  <1>2. MergeTypeOK'
    BY <1>1 DEF MergeTypeOK
  <1>3. Prepared'
    <2> SUFFICES ASSUME NEW t \in Merging
                 PROVE  SqlIsWhole(t) /\ (t \notin toInstall => dirs[t] = validated[t].bundle)
      BY <1>1 DEF Prepared, Merging, Indexed, SqlIsWhole
    <2>1. SqlIsWhole(t)
      BY <1>1 DEF Prepared
    <2>2. t \in toInstall
      BY <1>1 DEF Prepared
    <2> QED BY <2>1, <2>2
  <1>4. BackedOrSaved'
    BY <1>1 DEF BackedOrSaved
  <1> QED BY <1>2, <1>3, <1>4

(* A snapshot that is whole stays so. *)
LEMMA CopyKept ==
    ASSUME MergeInvariant, NEW s \in Sqls, Copy(s)
    PROVE  MergeInvariant'
  <1> USE DEF MergeInvariant
  <1>1. /\ pc = "copy" /\ s \in toCopy
        /\ snapshots' = [snapshots EXCEPT ![s] = "whole"] /\ toCopy' = toCopy \ {s}
        /\ UNCHANGED <<dirs, index, saved, pc, validated, replace, toSave, toInstall>>
    BY DEF Copy, order
  <1>2. /\ snapshots'[s] = "whole"
        /\ \A x \in Sqls : snapshots[x] = "whole" => snapshots'[x] = "whole"
    BY <1>1 DEF MergeTypeOK
  <1>3. MergeTypeOK'
    BY <1>1 DEF MergeTypeOK
  <1>4. \A t \in Merging : SqlOf[validated[t].bundle] \in Sqls
    BY MergingIsTyped, HashesAreSqls
  <1>5. Prepared'
    BY <1>1, <1>2, <1>4 DEF Prepared, Merging, Indexed, SqlIsWhole
  <1>6. BackedOrSaved'
    BY <1>1, <1>2, HashesAreSqls DEF BackedOrSaved, MergeTypeOK
  <1> QED BY <1>3, <1>5, <1>6

(* Whatever happens to the directory of a task that is being installed,    *)
(* what its row names is in a backup.                                      *)
LEMMA InstallingIsSaved ==
    ASSUME MergeInvariant, pc = "install", NEW t \in toInstall
    PROVE  t \in Merging /\ (Indexed(t) => index[t] \in saved[t])
  BY DEF MergeInvariant, MergeTypeOK, Prepared, Merging

LEMMA ClearKept ==
    ASSUME MergeInvariant, NEW t \in Tasks, Clear(t)
    PROVE  MergeInvariant'
  <1> USE DEF MergeInvariant
  <1>1. /\ pc = "install" /\ t \in toInstall
        /\ dirs' = [dirs EXCEPT ![t] = Absent]
        /\ UNCHANGED <<index, snapshots, saved, pc, validated, replace,
                       toSave, toCopy, toInstall>>
    BY DEF Clear, order, work
  <1>2. \A u \in Tasks : u # t => dirs'[u] = dirs[u]
    BY <1>1 DEF MergeTypeOK
  <1>3. MergeTypeOK'
    BY <1>1 DEF MergeTypeOK
  <1>4. \A u \in Merging : u \in Tasks
    BY MergingIsTyped
  <1>5. Prepared'
    BY <1>1, <1>2, <1>4 DEF Prepared, Merging, Indexed, SqlIsWhole
  <1>6. BackedOrSaved'
    BY <1>1, <1>2, InstallingIsSaved DEF BackedOrSaved, Indexed
  <1> QED BY <1>3, <1>5, <1>6

LEMMA InstallKept ==
    ASSUME MergeInvariant, NEW t \in Tasks, Install(t)
    PROVE  MergeInvariant'
  <1> USE DEF MergeInvariant
  <1>1. /\ pc = "install" /\ t \in toInstall /\ toInstall' = toInstall \ {t}
        /\ dirs' = [dirs EXCEPT ![t] = validated[t].bundle]
        /\ UNCHANGED <<index, snapshots, saved, pc, validated, replace, toSave, toCopy>>
    BY DEF Install, order
  <1>2. /\ \A u \in Tasks : u # t => dirs'[u] = dirs[u]
        /\ dirs'[t] = validated[t].bundle
    BY <1>1 DEF MergeTypeOK
  <1>3. \A u \in Merging : u \in Tasks /\ validated[u].bundle \in Bundles
    BY MergingIsTyped
  <1>4. t \in Merging
    BY <1>1, InstallingIsSaved
  <1>5. MergeTypeOK'
    BY <1>1, <1>3, <1>4 DEF MergeTypeOK
  <1>6. Prepared'
    BY <1>1, <1>2, <1>3 DEF Prepared, Merging, Indexed, SqlIsWhole
  <1>7. BackedOrSaved'
    BY <1>1, <1>2, InstallingIsSaved DEF BackedOrSaved, Indexed
  <1> QED BY <1>5, <1>6, <1>7

(* What the new index says of a task that is merged, and of the others. *)
LEMMA FinalRowsHold ==
    ASSUME MergeInvariant, pc = "install", toInstall = {}, NEW t \in Merging
    PROVE  /\ FinalRows[t] = validated[t].row /\ FinalRows[t] \in Bundles
           /\ dirs[t] = FinalRows[t]
           /\ snapshots[SqlOf[FinalRows[t]]] = "whole"
           /\ Indexed(t) => replace /\ SqlOf[FinalRows[t]] = SqlOf[index[t]]
  <1> USE DEF MergeInvariant
  <1>1. FinalRows[t] = validated[t].row
    BY MergingIsTyped DEF FinalRows, Merging
  <1>2. validated[t].bundle = validated[t].row /\ validated[t].bundle \in Bundles
    BY MergingIsTyped DEF Prepared
  <1>3. dirs[t] = validated[t].bundle /\ SqlIsWhole(t)
    BY DEF Prepared
  <1>4. Indexed(t) => replace /\ SqlOf[validated[t].row] = SqlOf[index[t]]
    BY DEF Prepared
  <1> QED BY <1>1, <1>2, <1>3, <1>4 DEF SqlIsWhole

LEMMA OtherRowsStay ==
    ASSUME NEW t \in Tasks, t \notin Merging
    PROVE  FinalRows[t] = index[t]
  BY DEF FinalRows, Merging

(* The end of a process. *)
LEMMA ExitEmpties ==
    ASSUME Exit
    PROVE  /\ pc' = "idle" /\ validated' = NoTask /\ replace' = FALSE /\ Merging' = {}
           /\ toSave' = {} /\ toCopy' = {} /\ toInstall' = {}
           /\ Prepared' /\ validated' \in Batches
  BY EmptyIsBatch DEF Exit, Prepared, Merging

LEMMA PutIndexKept == MergeInvariant /\ PutIndex => MergeInvariant'
  <1> SUFFICES ASSUME MergeInvariant, PutIndex PROVE MergeInvariant'
    OBVIOUS
  <1> USE DEF MergeInvariant
  <1>1. /\ pc = "install" /\ toInstall = {} /\ index' = FinalRows /\ Exit
        /\ UNCHANGED <<dirs, snapshots, saved>>
    BY DEF PutIndex
  <1>2. \A t \in Tasks : FinalRows[t] \in Bundles \cup {Absent}
    BY <1>1, FinalRowsHold, OtherRowsStay DEF MergeTypeOK
  <1>3. index' \in [Tasks -> Bundles \cup {Absent}]
    BY <1>1, <1>2 DEF FinalRows
  <1>4. MergeTypeOK'
    BY <1>1, <1>3, ExitEmpties DEF MergeTypeOK
  <1>5. BackedOrSaved'
    BY <1>1, FinalRowsHold, OtherRowsStay DEF BackedOrSaved
  <1> QED BY <1>1, <1>4, <1>5, ExitEmpties

LEMMA CrashKept == MergeInvariant /\ Crash => MergeInvariant'
  <1> SUFFICES ASSUME MergeInvariant, Crash PROVE MergeInvariant'
    OBVIOUS
  <1> USE DEF MergeInvariant
  <1>1. Exit /\ UNCHANGED <<index, saved>>
    BY DEF Crash
  <1>2. CASE UNCHANGED <<dirs, snapshots>>
    <2>1. MergeTypeOK'
      BY <1>1, <1>2, ExitEmpties DEF MergeTypeOK
    <2>2. BackedOrSaved'
      BY <1>1, <1>2 DEF BackedOrSaved
    <2> QED BY <1>1, <2>1, <2>2, ExitEmpties
  <1>3. ASSUME NEW s \in toCopy, snapshots[s] = "absent",
               snapshots' = [snapshots EXCEPT ![s] = "torn"], UNCHANGED dirs
        PROVE  MergeInvariant'
    <2>1. \A x \in Sqls : snapshots[x] = "whole" => snapshots'[x] = "whole"
      BY <1>3 DEF MergeTypeOK
    <2>2. MergeTypeOK'
      BY <1>1, <1>3, ExitEmpties DEF MergeTypeOK
    <2>3. BackedOrSaved'
      BY <1>1, <1>3, <2>1, HashesAreSqls DEF BackedOrSaved, MergeTypeOK
    <2> QED BY <1>1, <2>2, <2>3, ExitEmpties
  <1>4. ASSUME NEW t \in toInstall, pc = "install",
               dirs' = [dirs EXCEPT ![t] = Torn], UNCHANGED snapshots
        PROVE  MergeInvariant'
    <2>1. \A u \in Tasks : u # t => dirs'[u] = dirs[u]
      BY <1>4 DEF MergeTypeOK
    <2>2. MergeTypeOK'
      BY <1>1, <1>4, ExitEmpties DEF MergeTypeOK
    <2>3. BackedOrSaved'
      BY <1>1, <1>4, <2>1, InstallingIsSaved DEF BackedOrSaved, Indexed
    <2> QED BY <1>1, <2>2, <2>3, ExitEmpties
  <1> QED BY <1>2, <1>3, <1>4 DEF Crash

(* The strengthened invariant is an invariant of the merge, interrupted    *)
(* and started again as often as one likes.                                *)
THEOREM MergeSafe == MergeSpec => []MergeInvariant
  <1>1. MergeInvariant /\ [MergeNext]_mergeVars => MergeInvariant'
    <2> SUFFICES ASSUME MergeInvariant, [MergeNext]_mergeVars PROVE MergeInvariant'
      OBVIOUS
    <2>1. ASSUME NEW in \in Batches, NEW flag \in BOOLEAN, Start(in, flag)
          PROVE  MergeInvariant'
      BY <2>1, StartKept
    <2>2. ASSUME NEW t \in Tasks, Save(t) \/ Clear(t) \/ Install(t)
          PROVE  MergeInvariant'
      BY <2>2, SaveKept, ClearKept, InstallKept
    <2>3. ASSUME NEW s \in Sqls, Copy(s)
          PROVE  MergeInvariant'
      BY <2>3, CopyKept
    <2>4. CASE Saved \/ Copied \/ PutIndex \/ Crash
      BY <2>4, SavedKept, CopiedKept, PutIndexKept, CrashKept
    <2>5. CASE UNCHANGED mergeVars
      BY <2>5 DEF mergeVars, root, order, work, MergeInvariant, MergeTypeOK, Prepared,
                  BackedOrSaved, Merging, Indexed, SqlIsWhole
    <2> QED BY <2>1, <2>2, <2>3, <2>4, <2>5 DEF MergeNext
  <1> QED BY <1>1, MergeInitially, PTL DEF MergeSpec

(* Every variable keeps its type, and the index names whole bundles only.  *)
THEOREM MergeTyped == MergeSpec => []MergeTypeOK
  BY MergeSafe, PTL DEF MergeInvariant

(* What the index of the canonical root promises can be had, in the        *)
(* directory of the task or in a backup, whenever the merge is stopped.    *)
THEOREM MergeLosesNothing == MergeSpec => []BackedOrSaved
  BY MergeSafe, PTL DEF MergeInvariant

(* Only the replacement of the index changes a row. *)
LEMMA RowsChangeLast ==
    ASSUME [MergeNext]_mergeVars
    PROVE  UNCHANGED index \/ PutIndex
  BY DEF MergeNext, Start, Save, Clear, Install, Copy, Saved, Copied, Crash,
         mergeVars, root

(* A row enters the index, or changes, only when its bundle is installed   *)
(* and its snapshots are whole.                                            *)
THEOREM MergeRowsBacked == MergeSpec => NewRowsAreBacked
  <1> DEFINE Backed == \A t \in Tasks : index'[t] # index[t] =>
                        dirs'[t] = index'[t] /\ snapshots'[SqlOf[index'[t]]] = "whole"
  <1>1. ASSUME MergeInvariant, [MergeNext]_mergeVars, NEW t \in Tasks, index'[t] # index[t]
        PROVE  dirs'[t] = index'[t] /\ snapshots'[SqlOf[index'[t]]] = "whole"
    <2>1. PutIndex
      BY <1>1, RowsChangeLast
    <2>2. /\ pc = "install" /\ toInstall = {} /\ index' = FinalRows
          /\ UNCHANGED <<dirs, snapshots>>
      BY <2>1 DEF PutIndex
    <2> QED BY <1>1, <2>2, FinalRowsHold, OtherRowsStay
  <1>2. MergeInvariant /\ [MergeNext]_mergeVars => [Backed]_mergeVars
    BY <1>1
  <1> QED BY <1>2, MergeSafe, PTL DEF MergeSpec, NewRowsAreBacked

(* Directories change only under tasks that are being merged. *)
LEMMA OnlyMergingChanges ==
    ASSUME MergeInvariant, [MergeNext]_mergeVars, NEW t \in Tasks, t \notin Merging
    PROVE  dirs'[t] = dirs[t]
  <1> USE DEF MergeInvariant
  <1>1. toInstall \subseteq Merging
    BY DEF MergeTypeOK, Merging
  <1>2. UNCHANGED dirs \/ \E u \in toInstall, b \in Bundles \cup {Absent, Torn} :
                              dirs' = [dirs EXCEPT ![u] = b]
    <2>1. ASSUME NEW u \in Tasks, Install(u)
          PROVE  u \in toInstall /\ dirs' = [dirs EXCEPT ![u] = validated[u].bundle]
                 /\ validated[u].bundle \in Bundles
      BY <2>1, <1>1, MergingIsTyped DEF Install
    <2>2. ASSUME NEW u \in Tasks, Clear(u)
          PROVE  u \in toInstall /\ dirs' = [dirs EXCEPT ![u] = Absent]
      BY <2>2 DEF Clear
    <2>3. CASE Crash
      BY <2>3 DEF Crash
    <2>4. CASE UNCHANGED mergeVars
      BY <2>4 DEF mergeVars, root
    <2> QED BY <2>1, <2>2, <2>3, <2>4
            DEF MergeNext, Start, Save, Copy, Saved, Copied, PutIndex, root
  <1> QED BY <1>1, <1>2 DEF MergeTypeOK

(* Without --replace-overlap a task of the index is retained as it is, and *)
(* with it the SQL behind a row stays the same.                            *)
THEOREM MergeRetains == MergeSpec => OverlapIsRetained
  <1> DEFINE Retained ==
        \A t \in Tasks : index[t] # Absent =>
          /\ pc # "idle" /\ ~replace => dirs'[t] = dirs[t] /\ index'[t] = index[t]
          /\ SqlOf[index'[t]] = SqlOf[index[t]]
  <1>1. ASSUME MergeInvariant, [MergeNext]_mergeVars, NEW t \in Tasks, index[t] # Absent
        PROVE  /\ pc # "idle" /\ ~replace => dirs'[t] = dirs[t] /\ index'[t] = index[t]
               /\ SqlOf[index'[t]] = SqlOf[index[t]]
    <2>1. t \in Merging => replace
      BY <1>1 DEF MergeInvariant, Prepared, Indexed
    <2>2. CASE UNCHANGED index
      BY <1>1, <2>1, <2>2, OnlyMergingChanges
    <2>3. CASE PutIndex
      <3>1. pc = "install" /\ toInstall = {} /\ index' = FinalRows /\ UNCHANGED dirs
        BY <2>3 DEF PutIndex
      <3> QED BY <1>1, <2>1, <3>1, FinalRowsHold, OtherRowsStay DEF Indexed
    <2> QED BY <1>1, <2>2, <2>3, RowsChangeLast
  <1>2. MergeInvariant /\ [MergeNext]_mergeVars => [Retained]_mergeVars
    BY <1>1
  <1> QED BY <1>2, MergeSafe, PTL DEF MergeSpec, OverlapIsRetained
=============================================================================
