----------------------------- MODULE BatchMerge -----------------------------
(***************************************************************************)
(* scripts/merge_machine_facts_batch.py: the task bundles of an incoming   *)
(* root are merged into the canonical root of machine facts.  After the    *)
(* preflight the canonical root is changed in place: directories to be     *)
(* replaced are copied to a backup, snapshots are copied, then directories *)
(* one by one, and last the index is replaced in one rename.  Nothing      *)
(* undoes a merge that is interrupted or that raises half way.             *)
(*                                                                         *)
(* A bundle is a name, and SqlOf the hash of its SQL; its snapshots are    *)
(* kept under their hashes, of which the one of the SQL stands for both.   *)
(* The tasks of a loop are taken in any order.  The copy of the old index  *)
(* and the report are left out; each run has a backup directory of its     *)
(* own, and saved is what they all hold.                                   *)
(***************************************************************************)
CONSTANTS
    Tasks,      \* task ids
    Bundles,
    SqlOf,
    Absent, Torn

Sqls == {SqlOf[b] : b \in Bundles}

ASSUME MergeAssumption ==
    /\ DOMAIN SqlOf = Bundles
    /\ Absent \notin Bundles /\ Torn \notin Bundles /\ Absent # Torn

VARIABLES
    \* the canonical root
    dirs,       \* registry/tasks: a bundle, or what is left of one
    index,      \* task-fact-index.jsonl: the bundle a row names
    snapshots,  \* for each hash: "absent", "torn" or "whole"
    saved,      \* the backups
    \* the process
    pc,
    validated,  \* the incoming tasks to be merged
    replace,    \* --replace-overlap
    toSave, toCopy, toInstall

root == <<dirs, index, snapshots, saved>>
order == <<validated, replace>>
work == <<toSave, toCopy, toInstall>>
mergeVars == <<root, pc, order, work>>

(* An incoming task: the bundle its index row names, whether the row says  *)
(* SUCCESS, what its status file names, and what its directory holds.  The *)
(* producer may have been stopped half way: its index can be behind the    *)
(* status, and the status, unless it says SUCCESS, behind the directory.   *)
Task == [row : Bundles, ok : BOOLEAN, status : Bundles \cup {Absent}, bundle : Bundles]
Produced == {x \in Task : x.status # Absent => x.status = x.bundle}
Batches == UNION {[listed -> Produced] : listed \in SUBSET Tasks}

NoTask == [t \in {} |-> Absent]

MergeInit ==
    /\ index \in [Tasks -> Bundles \cup {Absent}]
    /\ dirs = index
    /\ snapshots = [s \in Sqls |-> IF \E t \in Tasks : index[t] # Absent /\ SqlOf[index[t]] = s
                                   THEN "whole" ELSE "absent"]
    /\ saved = [t \in Tasks |-> {}]
    /\ pc = "idle" /\ validated = NoTask /\ replace = FALSE
    /\ toSave = {} /\ toCopy = {} /\ toInstall = {}

-----------------------------------------------------------------------------
(* The preflight. *)

Overlap(in) == {t \in DOMAIN in : index[t] # Absent}

ReplacedAlways(in, flag) == Overlap(in)         \* mutant: the flag is not looked at
Replaced(in, flag) == IF flag THEN Overlap(in) ELSE {}
Chosen(in, flag) == (DOMAIN in \ Overlap(in)) \cup Replaced(in, flag)

SameSql(in) == \A t \in Overlap(in) : SqlOf[in[t].row] = SqlOf[index[t]]

ValidRowOnly(x) == x.ok                         \* mutant: the status is not compared
ValidTask(x) == x.ok /\ x.status = x.row        \* validate_incoming_task()

Placed(in, flag) ==     \* a new task has no directory yet, an old one has
    \A t \in Chosen(in, flag) : (dirs[t] = Absent) <=> (index[t] = Absent)
NoCollision(in, flag) == \A t \in Chosen(in, flag) : snapshots[SqlOf[in[t].bundle]] # "torn"

(* A merge that its preflight lets through; the others change nothing. *)
Start(in, flag) ==
    /\ pc = "idle"
    /\ SameSql(in) /\ (\A t \in Chosen(in, flag) : ValidTask(in[t]))
    /\ Placed(in, flag) /\ NoCollision(in, flag)
    /\ pc' = "save"
    /\ validated' = [t \in Chosen(in, flag) |-> in[t]] /\ replace' = flag
    /\ toSave' = Replaced(in, flag)
    /\ toCopy' = {SqlOf[in[t].bundle] : t \in Chosen(in, flag)}
    /\ toInstall' = Chosen(in, flag)
    /\ UNCHANGED root

-----------------------------------------------------------------------------
(* The merge. *)

SaveNext(t) ==          \* mutant: what is coming is saved
    /\ pc = "save" /\ t \in toSave
    /\ saved' = [saved EXCEPT ![t] = @ \cup {validated[t].bundle}]
    /\ toSave' = toSave \ {t}
    /\ UNCHANGED <<dirs, index, snapshots, pc, order, toCopy, toInstall>>

Save(t) ==
    /\ pc = "save" /\ t \in toSave
    /\ saved' = [saved EXCEPT ![t] = @ \cup {dirs[t]}]
    /\ toSave' = toSave \ {t}
    /\ UNCHANGED <<dirs, index, snapshots, pc, order, toCopy, toInstall>>

Saved ==
    /\ pc = "save" /\ toSave = {}
    /\ pc' = "copy"
    /\ UNCHANGED <<root, order, work>>

Copy(s) ==              \* copy_if_needed()
    /\ pc = "copy" /\ s \in toCopy
    /\ snapshots' = [snapshots EXCEPT ![s] = "whole"]
    /\ toCopy' = toCopy \ {s}
    /\ UNCHANGED <<dirs, index, saved, pc, order, toSave, toInstall>>

Copied ==
    /\ pc = "copy" /\ toCopy = {}
    /\ pc' = "install"
    /\ UNCHANGED <<root, order, work>>

Clear(t) ==             \* rmtree of a directory to be replaced
    /\ pc = "install" /\ t \in toInstall /\ dirs[t] # Absent
    /\ dirs' = [dirs EXCEPT ![t] = Absent]
    /\ UNCHANGED <<index, snapshots, saved, pc, order, work>>

Install(t) ==           \* copytree
    /\ pc = "install" /\ t \in toInstall /\ dirs[t] = Absent
    /\ dirs' = [dirs EXCEPT ![t] = validated[t].bundle]
    /\ toInstall' = toInstall \ {t}
    /\ UNCHANGED <<index, snapshots, saved, pc, order, toSave, toCopy>>

RowsByScan == dirs      \* mutant: the index is rebuilt from the directories
FinalRows == [t \in Tasks |-> IF t \in DOMAIN validated THEN validated[t].row ELSE index[t]]

(* The process ends; its memory is gone. *)
Exit ==
    /\ pc' = "idle" /\ validated' = NoTask /\ replace' = FALSE
    /\ toSave' = {} /\ toCopy' = {} /\ toInstall' = {}

PutIndex ==
    /\ pc = "install" /\ toInstall = {}
    /\ index' = FinalRows
    /\ Exit
    /\ UNCHANGED <<dirs, snapshots, saved>>

(* It dies or raises; a copy or a removal under way is left torn. *)
Crash ==
    /\ pc # "idle"
    /\ Exit
    /\ \/ UNCHANGED <<dirs, snapshots>>
       \/ \E s \in toCopy : /\ pc = "copy" /\ snapshots[s] = "absent"
                            /\ snapshots' = [snapshots EXCEPT ![s] = "torn"]
                            /\ UNCHANGED dirs
       \/ \E t \in toInstall : /\ pc = "install"
                               /\ dirs' = [dirs EXCEPT ![t] = Torn]
                               /\ UNCHANGED snapshots
    /\ UNCHANGED <<index, saved>>

MergeNext ==
    \/ \E in \in Batches, flag \in BOOLEAN : Start(in, flag)
    \/ \E t \in Tasks : Save(t) \/ Clear(t) \/ Install(t)
    \/ \E s \in Sqls : Copy(s)
    \/ Saved \/ Copied \/ PutIndex \/ Crash

MergeSpec == MergeInit /\ [][MergeNext]_mergeVars
-----------------------------------------------------------------------------
(* The type invariant.  The index names whole bundles only. *)
MergeTypeOK ==
    /\ dirs \in [Tasks -> Bundles \cup {Absent, Torn}]
    /\ index \in [Tasks -> Bundles \cup {Absent}]
    /\ snapshots \in [Sqls -> {"absent", "torn", "whole"}]
    /\ saved \in [Tasks -> SUBSET (Bundles \cup {Torn})]
    /\ pc \in {"idle", "save", "copy", "install"}
    /\ validated \in Batches
    /\ toSave \cup toInstall \subseteq DOMAIN validated /\ toCopy \subseteq Sqls
    /\ replace \in BOOLEAN

(* The bundle a row of the canonical index names can be had: it is in the  *)
(* directory of the task or, once a replacement of it has begun, in a      *)
(* backup; and its snapshots are whole.  So no interrupted merge, and no   *)
(* number of them, loses what the index promises.                          *)
BackedOrSaved ==
    \A t \in Tasks : index[t] # Absent =>
      /\ dirs[t] = index[t] \/ index[t] \in saved[t]
      /\ snapshots[SqlOf[index[t]]] = "whole"

(* A row enters the index, or changes, only when the bundle it names is    *)
(* the one in the directory and its snapshots are whole: whatever an       *)
(* interrupted merge has left there, and although the incoming index may   *)
(* be behind its bundles.                                                  *)
NewRowsAreBacked ==
    [][\A t \in Tasks : index'[t] # index[t] =>
         dirs'[t] = index'[t] /\ snapshots'[SqlOf[index'[t]]] = "whole"]_mergeVars

(* "Overlapping task IDs are retained from the canonical root": a merge    *)
(* that was not told to replace changes nothing of a task in the index,    *)
(* and no merge changes the SQL behind a row.                              *)
OverlapIsRetained ==
    [][\A t \in Tasks : index[t] # Absent =>
         /\ pc # "idle" /\ ~replace => dirs'[t] = dirs[t] /\ index'[t] = index[t]
         /\ SqlOf[index'[t]] = SqlOf[index[t]]]_mergeVars
=============================================================================
