----------------------------- MODULE TaskFacts -----------------------------
(***************************************************************************)
(* How the machine facts of one task are published: runTask() and          *)
(* rebuildIndex() of scripts/machine-facts/machine-facts.ts over           *)
(* writeStatusFile(), recoverArtifactState() and publishArtifactBundle()   *)
(* of machine-facts-runtime.ts.  One writer at a time; each file-system    *)
(* operation is a step, and the process may die between any two of them    *)
(* and be started again for the same or for another context.               *)
(*                                                                         *)
(* The downstream lineage facts go through the same three functions, from  *)
(* the loop of downstream-machine-facts-by-task.ts: without a              *)
(* manifestContext, so that no drift is noticed, without a try, so that    *)
(* every exception ends the whole run, and with an index made of what the  *)
(* loop published.  Whose facts the directory holds is the family.         *)
(*                                                                         *)
(* A file or directory that may be missing is a set of at most one value,  *)
(* so a rename moves a set and a removal empties it.  A recursive removal  *)
(* takes its entries one by one: a directory it has not finished is torn.  *)
(* The .tmp of a status write is never read, and is left out.  A manifest  *)
(* is the analysis context it records and the output it hashes; its own    *)
(* hash stands for both.                                                   *)
(***************************************************************************)
EXTENDS Naturals

CONSTANTS
    Contexts,   \* manifestContext(): inputs and method
    Outputs,    \* what the analysis of a context may come to
    Faults      \* the file-system operations that may fail

Families == {"sql", "downstream"}
Manifests == [ctx : Contexts, out : Outputs]

VARIABLES
    \* the task's directory, and the index
    status,     \* analysis-status.json
    backup,     \* analysis-status.json.bak
    bundle,     \* bundle/
    recovery,   \* .recovery/
    staging,    \* .staging-<pid>-<time>/
    index,      \* the task's record in task-fact-index.jsonl
    family,     \* whose facts they are
    \* the process
    pc,         \* the next step
    asked,      \* the context of this run, or of the last one
    write,      \* the status write under way, and where it continues
    outcome,    \* how the last run ended
    \* history
    faulted,    \* operations that have failed so far
    made        \* whether a bundle has ever been installed

disk == <<status, backup, bundle, recovery, staging, index>>
history == <<faulted, made>>
factsVars == <<disk, family, pc, asked, write, outcome, history>>

Dir(m, kept) == {[man |-> m, kept |-> kept]}
Bundles == [man : Manifests, kept : {"whole", "torn", "headless"}]
    \* torn: a file is missing; headless: manifest.json is

Valid(dir) == \E b \in dir : b.kept = "whole"        \* validateBundle() = []
Torn(dir) == {[b EXCEPT !.kept = k] : b \in dir, k \in {"torn", "headless"}}

StatusOf(state, c, hash) == [state |-> state, ctx |-> c, hash |-> hash]
CurrentHash == UNION {s.hash : s \in status}
In(state) == \E s \in status : s.state = state

Goto(label) == pc' = label
Caught(label) == IF family = "sql" THEN label ELSE "escape"
    \* where the exception arrives that runTask() would catch
Fail(op) == op \in Faults /\ faulted' = faulted \cup {op}

NoWrite == [rec |-> {}, then |-> "idle", orElse |-> "idle"]

FactsInit ==
    /\ status = {} /\ backup = {} /\ bundle = {} /\ recovery = {} /\ staging = {}
    /\ index = {} /\ family \in Families
    /\ pc = "idle" /\ asked \in Contexts /\ outcome = "none"
    /\ write = NoWrite
    /\ faulted = {} /\ made = FALSE

-----------------------------------------------------------------------------
(* writeStatusFile().  The caller names the record, where to go on, and    *)
(* where an exception of the write arrives.                                *)

WriteStatus(state, hash, then, orElse) ==
    /\ write' = [rec |-> {StatusOf(state, asked, hash)}, then |-> then, orElse |-> orElse]
    /\ Goto("setAside")

Continue(label) == Goto(label) /\ write' = NoWrite

SetAside ==
    /\ pc = "setAside"
    /\ \/ /\ backup # {}                \* a stale backup: throws
          /\ Continue(write.orElse)
          /\ UNCHANGED <<status, backup, history>>
       \/ /\ backup = {}
          /\ backup' = status /\ status' = {}
          /\ Goto("putStatus")
          /\ UNCHANGED <<write, history>>
       \/ /\ backup = {} /\ Fail("status")      \* the .tmp or the rename
          /\ Continue(write.orElse)
          /\ UNCHANGED <<status, backup, made>>
    /\ UNCHANGED <<bundle, recovery, staging, index, asked, family, outcome>>

PutStatus ==
    /\ pc = "putStatus"
    /\ \/ /\ status' = write.rec
          /\ Goto("dropBackup")
          /\ UNCHANGED <<backup, write, history>>
       \/ /\ Fail("status")             \* the backup is put back
          /\ status' = backup /\ backup' = {}
          /\ Continue(write.orElse)
          /\ UNCHANGED made
    /\ UNCHANGED <<bundle, recovery, staging, index, asked, family, outcome>>

DropBackup ==
    /\ pc = "dropBackup"
    /\ \/ /\ backup' = {}
          /\ Continue(write.then)
          /\ UNCHANGED history
       \/ /\ backup # {} /\ Fail("status")
          /\ Continue(write.orElse)
          /\ UNCHANGED <<backup, made>>
    /\ UNCHANGED <<status, bundle, recovery, staging, index, asked, family, outcome>>

-----------------------------------------------------------------------------
(* recoverArtifactState(), at the start of every run.                      *)

Begin(c) ==
    /\ pc = "idle"
    /\ asked' = c
    /\ outcome' = "running"
    /\ Goto("recoverStatus")
    /\ UNCHANGED <<disk, family, write, history>>

RecoverStatus ==
    /\ pc = "recoverStatus"
    /\ IF backup # {} /\ status # {}
       THEN Goto(Caught("report")) /\ UNCHANGED <<status, backup>>
       ELSE /\ status' = status \cup backup
            /\ backup' = {}
            /\ Goto("sweep")
    /\ UNCHANGED <<bundle, recovery, staging, index, asked, family, write, outcome, history>>

SweepStaging ==
    IF Valid(staging)
    THEN Goto(Caught("report")) /\ UNCHANGED staging
    ELSE staging' = {} /\ Goto("restore")

Sweep ==
    /\ pc = "sweep"
    /\ SweepStaging
    /\ UNCHANGED <<status, backup, bundle, recovery, index, asked, family, write, outcome, history>>

RestoreOver == recovery # {}            \* mutant: an existing bundle is overwritten
Restorable == recovery # {} /\ bundle = {} /\ Valid(recovery)

Restore ==
    /\ pc = "restore"
    /\ \/ /\ recovery = {}
          /\ Goto("inspect")
          /\ UNCHANGED <<bundle, recovery>>
       \/ /\ Restorable
          /\ bundle' = recovery /\ recovery' = {}
          /\ Goto("inspect")
       \/ /\ recovery # {} /\ ~Restorable
          /\ Goto(Caught("report"))
          /\ UNCHANGED <<bundle, recovery>>
    /\ UNCHANGED <<status, backup, staging, index, asked, family, write, outcome, history>>

InspectQuietly ==       \* mutant: the analysis starts under the old status
    /\ pc = "inspect"
    /\ Goto("build")
    /\ UNCHANGED <<disk, asked, family, write, outcome, history>>

(* An interrupted analysis is reported once -- by the downstream loop it   *)
(* is never got over --; otherwise ANALYZING is written.  That write is    *)
(* outside the try block of runTask(), which alone carries the hash over.  *)
HashKept == IF family = "sql" THEN CurrentHash ELSE {}

Inspect ==
    /\ pc = "inspect"
    /\ IF In("ANALYZING")
       THEN Goto(Caught("report")) /\ UNCHANGED write
       ELSE WriteStatus("ANALYZING", HashKept, "build", "escape")
    /\ UNCHANGED <<disk, asked, family, outcome, history>>

(* FAILED, with reason RECOVERY_REQUIRED or that of the catch block.       *)
Report ==
    /\ pc = "report"
    /\ WriteStatus("FAILED", CurrentHash, "failed", "escape")
    /\ UNCHANGED <<disk, asked, family, outcome, history>>

-----------------------------------------------------------------------------
(* buildTaskBundle(): the staging directory exists from the start, its     *)
(* manifest is written last.  An exception leaves the directory behind.    *)

Build(m) ==
    /\ pc = "build"
    /\ m.ctx = asked
    /\ staging' = Dir(m, "headless")
    /\ Goto("finishBuild")
    /\ UNCHANGED <<status, backup, bundle, recovery, index, asked, family, write, outcome, history>>

FinishBuild ==
    /\ pc = "finishBuild"
    /\ \/ /\ staging' = {[b EXCEPT !.kept = "whole"] : b \in staging}
          /\ Goto("compare")
       \/ /\ \E torn \in Torn(staging) : staging' = {torn}  \* fails validation
          /\ Goto(Caught("cleanup"))
       \/ /\ Goto(Caught("report"))                         \* throws
          /\ UNCHANGED staging
    /\ UNCHANGED <<status, backup, bundle, recovery, index, asked, family, write, outcome, history>>

(* publishArtifactBundle(): what the bundle in place says about the new    *)
(* one.  Recovery has left no .recovery at this point.                     *)

Installed == {b.man : b \in bundle}
SameManifest == \E b \in bundle, s \in staging : b.man = s.man
SameContext == \E b \in bundle, s \in staging : b.man.ctx = s.man.ctx
ConflictNever == FALSE                  \* mutant: output drift is not noticed
Conflict == family = "sql" /\ Valid(bundle) /\ SameContext /\ ~SameManifest
Headless == \E b \in bundle : b.kept = "headless"
ReusableUnchecked == SameManifest       \* mutant: the bundle is not validated
Reusable == Valid(bundle) /\ SameManifest

FirstMoveInstall == "install"           \* mutant: the old bundle is not set aside
FirstMove == IF bundle = {} THEN "install" ELSE "retire"

Compare ==
    /\ pc = "compare"
    /\ \/ /\ Reusable                                    \* REUSED
          /\ staging' = {}
          /\ WriteStatus("SUCCESS", Installed, "returned", Caught("report"))
       \/ /\ Conflict \/ Headless                       \* throws
          /\ Goto(Caught("cleanup"))
          /\ UNCHANGED <<staging, write>>
       \/ /\ ~Reusable /\ ~Conflict /\ ~Headless
          /\ Goto(FirstMove)
          /\ UNCHANGED <<staging, write>>
    /\ UNCHANGED <<status, backup, bundle, recovery, index, asked, family, outcome, history>>

Retire ==
    /\ pc = "retire"
    /\ \/ /\ recovery' = bundle /\ bundle' = {}
          /\ Goto("install")
          /\ UNCHANGED history
       \/ /\ Fail("retire")
          /\ Goto("undo")
          /\ UNCHANGED <<bundle, recovery, made>>
    /\ UNCHANGED <<status, backup, staging, index, asked, family, write, outcome>>

Install ==
    /\ pc = "install"
    /\ \/ /\ bundle' = staging /\ staging' = {}
          /\ made' = TRUE
          /\ Goto("discard")
          /\ UNCHANGED faulted
       \/ /\ Fail("install")
          /\ Goto("undo")
          /\ UNCHANGED <<bundle, staging, made>>
    /\ UNCHANGED <<status, backup, recovery, index, asked, family, write, outcome>>

(* Removing .recovery, in two steps; a failure may come before the first   *)
(* file is gone or after.                                                  *)

Discard ==
    /\ pc = "discard"
    /\ \/ /\ \E torn \in Torn(recovery) : recovery' = {torn}
          /\ Goto("discardRest")
          /\ UNCHANGED <<write, history>>
       \/ /\ recovery # {} /\ Fail("discard")
          /\ Goto("undo")
          /\ UNCHANGED <<recovery, write, made>>
       \/ /\ recovery = {}
          /\ WriteStatus("SUCCESS", Installed, "returned", Caught("report"))
          /\ UNCHANGED <<recovery, history>>
    /\ UNCHANGED <<status, backup, bundle, staging, index, asked, family, outcome>>

DiscardRest ==
    /\ pc = "discardRest"
    /\ \/ /\ recovery' = {}
          /\ WriteStatus("SUCCESS", Installed, "returned", Caught("report"))
          /\ UNCHANGED history
       \/ /\ Fail("discard")
          /\ Goto("undo")
          /\ UNCHANGED <<recovery, write, made>>
    /\ UNCHANGED <<status, backup, bundle, staging, index, asked, family, outcome>>

(* The catch block: whatever bundle there is goes, and .recovery comes     *)
(* back if there is one.                                                   *)

Undo ==
    /\ pc = "undo"
    /\ IF bundle = {}
       THEN Goto("putBack") /\ UNCHANGED bundle
       ELSE /\ \E torn \in Torn(bundle) : bundle' = {torn}
            /\ Goto("undoRest")
    /\ UNCHANGED <<status, backup, recovery, staging, index, asked, family, write, outcome, history>>

UndoRest ==
    /\ pc = "undoRest"
    /\ bundle' = {}
    /\ Goto("putBack")
    /\ UNCHANGED <<status, backup, recovery, staging, index, asked, family, write, outcome, history>>

PutBack ==
    /\ pc = "putBack"
    /\ bundle' = recovery /\ recovery' = {}
    /\ Goto(Caught("cleanup"))
    /\ UNCHANGED <<status, backup, staging, index, asked, family, write, outcome, history>>

(* The catch block of runTask(). *)
Cleanup ==
    /\ pc = "cleanup"
    /\ staging' = {}
    /\ Goto("report")
    /\ UNCHANGED <<status, backup, bundle, recovery, index, asked, family, write, outcome, history>>

-----------------------------------------------------------------------------
(* rebuildIndex(), after every task of the profile has returned: a record  *)
(* for a task whose status is SUCCESS, whose bundle validates, and whose   *)
(* request and manifest hash agree with it.  The downstream loop lists     *)
(* what it published.                                                      *)

IndexAnyState(s) == TRUE                \* mutant: the state is not looked at
IndexState(s) == s.state = "SUCCESS"

Indexed ==
    {b.man : b \in {x \in bundle : \E s \in status :
        IndexState(s) /\ x.kept = "whole" /\ s.ctx = x.man.ctx /\ s.hash = {x.man}}}

RebuildIndex ==
    /\ pc \in {"returned", "failed"}
    /\ index' = IF family = "sql" THEN Indexed ELSE Installed
    /\ outcome' = pc
    /\ Goto("idle")
    /\ UNCHANGED <<status, backup, bundle, recovery, staging, asked, family, write, history>>

(* An exception that leaves runTask() leaves processProfile() too: no      *)
(* further task is run and the index is not rebuilt.                       *)
Escape ==
    /\ pc = "escape"
    /\ outcome' = "threw"
    /\ Goto("idle")
    /\ UNCHANGED <<disk, asked, family, write, history>>

Crash ==
    /\ pc # "idle"
    /\ outcome' = "crashed"
    /\ Continue("idle")
    /\ UNCHANGED <<disk, asked, family, history>>

FactsNext ==
    \/ \E c \in Contexts : Begin(c)
    \/ RecoverStatus \/ Sweep \/ Restore \/ Inspect \/ Report
    \/ SetAside \/ PutStatus \/ DropBackup
    \/ \E m \in Manifests : Build(m)
    \/ FinishBuild \/ Compare
    \/ Retire \/ Install \/ Discard \/ DiscardRest
    \/ Undo \/ UndoRest \/ PutBack \/ Cleanup
    \/ RebuildIndex \/ Escape \/ Crash

FactsSpec == FactsInit /\ [][FactsNext]_factsVars
-----------------------------------------------------------------------------
Maybe(S) == {{}} \cup {{x} : x \in S}
Statuses == [state : {"ANALYZING", "SUCCESS", "FAILED"}, ctx : Contexts, hash : Maybe(Manifests)]
Recovering == {"recoverStatus", "sweep", "restore", "inspect", "report"}
Writing == {"setAside", "putStatus", "dropBackup"}
Working == {"build", "finishBuild", "compare", "retire", "install", "discard",
            "discardRest", "undo", "undoRest", "putBack", "cleanup"}
Ending == {"idle", "returned", "failed", "escape"}

(* The type invariant.  At most one bundle is in place at a time: nothing  *)
(* is installed over one, and what is discarded has a successor.           *)
FactsTypeOK ==
    /\ status \in Maybe(Statuses) /\ backup \in Maybe(Statuses)
    /\ bundle \in Maybe(Bundles) /\ recovery \in Maybe(Bundles)
    /\ staging \in Maybe(Bundles) /\ index \in Maybe(Manifests)
    /\ family \in Families
    /\ pc \in Recovering \cup Writing \cup Working \cup Ending
    /\ asked \in Contexts
    /\ write.rec \in Maybe(Statuses)
    /\ write.then \in Working \cup Ending /\ write.orElse \in {"report", "escape", "idle"}
    /\ faulted \subseteq Faults /\ made \in BOOLEAN
    /\ pc \in {"install", "putBack"} => bundle = {}
    /\ pc \in {"discard", "discardRest"} => Valid(bundle)

(* What the status file says is true of the disk: while it, or the backup  *)
(* a restart would put in its place, reads SUCCESS, the bundle in place    *)
(* is whole and is the one the record names, for the request it names --   *)
(* whichever operations failed, and wherever the process died.             *)
Backed(s) == \E b \in bundle : /\ b.kept = "whole"
                               /\ s.hash = {b.man} /\ s.ctx = b.man.ctx
SuccessIsBacked ==
    \A s \in status \cup backup : s.state = "SUCCESS" => Backed(s)

(* After a run over the tasks the index tells what became of its request:  *)
(* nothing if it failed -- the old bundle, though still in place, is not   *)
(* passed off as current -- and a whole bundle for the context that was    *)
(* asked for if it succeeded.                                              *)
IndexTellsTheOutcome ==
    pc = "idle" =>
      /\ outcome = "failed" => index = {}
      /\ outcome = "returned" => \E m \in index : m.ctx = asked /\ Valid(bundle) /\ Installed = {m}

(* The same context with another output never takes the place of a whole   *)
(* bundle of SQL facts.  Downstream facts make no such promise.            *)
DriftNeverReplaces ==
    family = "sql" /\ Valid(recovery) => \A b \in bundle, r \in recovery : b.man.ctx # r.man.ctx

(* What the design says of the replacement: whichever of its steps fails,  *)
(* a bundle is recovered.                                                  *)
GoodBundleKept == made => Valid(bundle) \/ Valid(recovery)

(* Once a bundle was installed there is always a whole one, in place or    *)
(* set aside, through crashes anywhere and failures to install: provided   *)
(* neither setting the old one aside nor discarding it has failed.         *)
BundleSurvivesCrashes == faulted \cap {"retire", "discard"} = {} => GoodBundleKept

(* The directory is what PublishedFacts promises its readers.  The facts   *)
(* are the bundle in place if it is whole; a success is claimed by the     *)
(* status, or by the backup a restart would put in its place.              *)
Whole == {b.man : b \in {x \in bundle : x.kept = "whole"}}
Claimed == UNION {s.hash : s \in {x \in status \cup backup : x.state = "SUCCESS"}}

Published == INSTANCE PublishedFacts WITH facts <- Whole, claim <- Claimed

ImplementsPublishedFacts == Published!Spec
=============================================================================
