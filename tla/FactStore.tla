----------------------------- MODULE FactStore -----------------------------
(***************************************************************************)
(* write_json_fact_batches() of titans_cognition/io.py: the fact files are *)
(* staged in a temporary directory and then put in place one by one, each  *)
(* after the old one has been set aside; an exception rolls back, and a    *)
(* finally block empties the temporary directory in every case.            *)
(*                                                                         *)
(* Each rename or removal is a step.  It may fail (Faults), an interrupt   *)
(* may arrive before it (a KeyboardInterrupt is no Exception, so only the  *)
(* finally block runs), and the process may die.  The files are numbered   *)
(* in the order of _json_fact_paths(); a file that may be missing is a set *)
(* of at most one extraction.  Handles and the rows' encoding are left     *)
(* out: a file that is still being staged is never put in place.           *)
(***************************************************************************)
EXTENDS Naturals

CONSTANTS
    N,              \* how many files the facts are kept in
    Extractions,    \* what a call may be given to write
    Faults          \* what may fail: "stage", "commit", "restore", "cleanup"

ASSUME FilesAssumption == N \in Nat \ {0}

Files == 1..N

VARIABLES
    \* the output directory
    target,     \* the canonical files
    staged,     \* <name>.json in this run's .facts-* directory
    backup,     \* .backup-<name>.json in it
    stray,      \* what the directories of earlier runs still hold
    \* the process
    pc,         \* the next step
    at,         \* the file the loop has come to
    asked,      \* the extraction of this run, or of the last one
    outcome,    \* how the run is ending, or the last one ended
    \* history
    before,     \* the canonical files at the start of the run
    disturbed,  \* a run was cut short since the files were last replaced
    erased      \* an interrupt or a failed restore left this run's backups to finally

disk == <<target, staged, backup, stray>>
storeVars == <<disk, pc, at, asked, outcome, before, disturbed, erased>>

AllOf(x) == [f \in Files |-> {x}]
Absent == [f \in Files |-> {}]

StoreInit ==
    /\ target \in {Absent} \cup {AllOf(x) : x \in Extractions}
    /\ staged = Absent /\ backup = Absent /\ stray = Absent
    /\ pc = "idle" /\ at = 1
    /\ asked \in Extractions /\ outcome = "none"
    /\ before = target /\ disturbed = FALSE /\ erased = FALSE

Fails(op) == op \in Faults

-----------------------------------------------------------------------------
(* Staging every batch; an exception here finds nothing committed.         *)

Begin(x) ==
    /\ pc = "idle"
    /\ asked' = x /\ before' = target
    /\ outcome' = "running" /\ erased' = FALSE /\ pc' = "stage"
    /\ UNCHANGED <<disk, at, disturbed>>

Stage ==
    /\ pc = "stage"
    /\ \/ staged' = AllOf(asked) /\ pc' = "setAside" /\ UNCHANGED outcome
       \/ Fails("stage") /\ pc' = "finally" /\ outcome' = "raised" /\ UNCHANGED staged
    /\ UNCHANGED <<target, backup, stray, at, asked, before, disturbed, erased>>

(* The commit loop.  The files before at are the committed ones.           *)

PutOver ==              \* mutant: the old file is not kept
    /\ pc = "setAside"
    /\ pc' = "put"
    /\ UNCHANGED <<disk, at, asked, outcome, before, disturbed, erased>>

SetAside ==
    /\ pc = "setAside"
    /\ \/ /\ backup' = [backup EXCEPT ![at] = target[at]]
          /\ target' = [target EXCEPT ![at] = {}]
          /\ pc' = "put" /\ UNCHANGED outcome
       \/ /\ target[at] # {} /\ Fails("commit")
          /\ pc' = "undo" /\ outcome' = "raised" /\ UNCHANGED <<target, backup>>
    /\ UNCHANGED <<staged, stray, at, asked, before, disturbed, erased>>

Put ==
    /\ pc = "put"
    /\ \/ /\ target' = [target EXCEPT ![at] = staged[at]]
          /\ staged' = [staged EXCEPT ![at] = {}]
          /\ IF at < N
             THEN pc' = "setAside" /\ at' = at + 1 /\ UNCHANGED <<outcome, disturbed>>
             ELSE pc' = "finally" /\ outcome' = "returned" /\ disturbed' = FALSE /\ UNCHANGED at
       \/ /\ Fails("commit")
          /\ pc' = "undo" /\ outcome' = "raised"
          /\ UNCHANGED <<target, staged, at, disturbed>>
    /\ UNCHANGED <<backup, stray, asked, before, erased>>

-----------------------------------------------------------------------------
(* except Exception: the committed files backwards -- the new one is       *)
(* removed, then the old one put back -- and then the one that was set     *)
(* aside when its new file could not be put: the last backup there is.     *)

Hurt == disturbed' = TRUE /\ erased' = TRUE

GiveUp ==               \* an exception of the handler's own
    /\ Fails("restore")
    /\ pc' = "finally" /\ Hurt
    /\ UNCHANGED <<target, backup, at>>

UnlinkNot ==            \* mutant: a file that did not exist before stays
    /\ pc = "undo" /\ at > 1
    /\ pc' = "restore"
    /\ UNCHANGED <<disk, at, asked, outcome, before, disturbed, erased>>

Unlink ==
    /\ pc = "undo" /\ at > 1
    /\ \/ /\ target' = [target EXCEPT ![at - 1] = {}]
          /\ pc' = "restore" /\ UNCHANGED <<backup, at, disturbed, erased>>
       \/ GiveUp
    /\ UNCHANGED <<staged, stray, asked, outcome, before>>

Return(f) ==            \* the backup of f, if there is one
    /\ target' = IF backup[f] = {} THEN target ELSE [target EXCEPT ![f] = backup[f]]
    /\ backup' = [backup EXCEPT ![f] = {}]
    /\ UNCHANGED <<disturbed, erased>>

Restore ==
    /\ pc = "restore"
    /\ \/ Return(at - 1) /\ at' = at - 1 /\ pc' = "undo"
       \/ backup[at - 1] # {} /\ GiveUp
    /\ UNCHANGED <<staged, stray, asked, outcome, before>>

ForgetPending ==        \* mutant: only the committed files are restored
    /\ pc = "undo" /\ at = 1
    /\ pc' = "finally"
    /\ UNCHANGED <<disk, at, asked, outcome, before, disturbed, erased>>

RestorePending ==
    /\ pc = "undo" /\ at = 1
    /\ \/ /\ \E f \in Files : (\A g \in Files \ {f} : backup[g] = {}) /\ Return(f)
          /\ pc' = "finally" /\ UNCHANGED at
       \/ backup # Absent /\ GiveUp
    /\ UNCHANGED <<staged, stray, asked, outcome, before>>

-----------------------------------------------------------------------------
(* finally: the temporary files go, then the backups one by one, then the  *)
(* directory.  An exception of its own replaces the result of the call.    *)

Leave(how) ==
    /\ stray' = [f \in Files |-> stray[f] \cup backup[f]]
    /\ staged' = Absent /\ backup' = Absent
    /\ at' = 1 /\ pc' = "idle" /\ outcome' = how
    /\ UNCHANGED asked

Finally ==
    /\ pc = "finally"
    /\ \/ /\ \E f \in Files : /\ backup[f] # {}
                              /\ \A g \in Files : g < f => backup[g] = {}
                              /\ backup' = [backup EXCEPT ![f] = {}]
          /\ staged' = Absent
          /\ UNCHANGED <<stray, pc, at, asked, outcome>>
       \/ backup = Absent /\ Leave(outcome)
       \/ Fails("cleanup") /\ Leave("raised")
    /\ UNCHANGED <<target, before, disturbed, erased>>

Committing == {"setAside", "put", "undo", "restore"}

(* A KeyboardInterrupt or SystemExit. *)
Interrupt ==
    /\ \/ /\ pc = "stage"
          /\ pc' = "finally" /\ outcome' = "interrupted"
          /\ UNCHANGED <<disk, at, asked, disturbed, erased>>
       \/ /\ pc \in Committing
          /\ pc' = "finally" /\ outcome' = "interrupted" /\ Hurt
          /\ UNCHANGED <<disk, at, asked>>
       \/ /\ pc = "finally"
          /\ Leave("interrupted")
          /\ UNCHANGED <<target, disturbed, erased>>
    /\ UNCHANGED before

(* The process is killed: nothing after the last step runs. *)
Kill ==
    /\ pc # "idle"
    /\ Leave("killed")
    /\ disturbed' = (disturbed \/ pc \in Committing)
    /\ UNCHANGED <<target, before, erased>>

StoreNext ==
    \/ \E x \in Extractions : Begin(x)
    \/ Stage \/ SetAside \/ Put
    \/ Unlink \/ Restore \/ RestorePending
    \/ Finally \/ Interrupt \/ Kill

StoreSpec == StoreInit /\ [][StoreNext]_storeVars
-----------------------------------------------------------------------------
Maybe(S) == {{}} \cup {{x} : x \in S}

(* The type invariant; FactStoreProofs proves it, and no run repeats it.   *)
StoreTypeOK ==
    /\ target \in [Files -> Maybe(Extractions)]
    /\ staged \in [Files -> Maybe(Extractions)]
    /\ backup \in [Files -> Maybe(Extractions)]
    /\ stray \in [Files -> SUBSET Extractions]
    /\ pc \in {"idle", "stage", "finally"} \cup Committing
    /\ at \in Files /\ (pc = "restore" => at > 1)
    /\ asked \in Extractions
    /\ outcome \in {"none", "running", "returned", "raised", "interrupted", "killed"}
    /\ before \in [Files -> Maybe(Extractions)]
    /\ disturbed \in BOOLEAN /\ erased \in BOOLEAN

(* read_json_facts() reads the files one by one and asks only that each    *)
(* exists.  Between runs it gets one extraction, or nothing at all, unless *)
(* a run was cut short inside the commit loop or its rollback: every       *)
(* single failing rename is undone in all files.  A call that returned has *)
(* written what it was given, whatever earlier runs left behind.           *)
OneExtraction ==
    pc = "idle" =>
      /\ ~disturbed => target \in {Absent} \cup {AllOf(x) : x \in Extractions}
      /\ outcome = "returned" => target = AllOf(asked) /\ ~disturbed

(* A process that is killed loses nothing: until all files are replaced,   *)
(* what each of them held is still in some file of the output directory.   *)
(* Only an interrupt, or a restore that fails, hands the backups to the    *)
(* finally block, which removes them.                                      *)
NothingLostToAKill ==
    ~erased /\ target # AllOf(asked) =>
      \A f \in Files : before[f] \subseteq target[f] \cup backup[f] \cup stray[f]

(* The files change together, as AtomicFacts promises: what a reader is    *)
(* owed during the commit loop is what was there before, and the last      *)
(* rename is the step that replaces the facts.                             *)
Atomic == INSTANCE AtomicFacts WITH
            facts <- IF pc \in Committing THEN before ELSE target,
            hurt <- disturbed

ImplementsAtomicFacts == Atomic!Spec
=============================================================================
