-------------------------- MODULE TaskFactsProofs --------------------------
(***************************************************************************)
(* Proofs about TaskFacts, for every set of contexts, outputs and failing  *)
(* operations: its type invariant and the four safety invariants the runs  *)
(* check.  None is inductive alone; FactsInvariant adds what the phases of *)
(* a run have established on the way (Phases), what a status write under   *)
(* way carries (WriteCarries) and what a finished one has left (Ends).     *)
(* From the same invariant, that the directory implements PublishedFacts.  *)
(***************************************************************************)
EXTENDS TaskFacts, TLAPS

(* What runTask() relies on between its calls: recovery leaves no          *)
(* .recovery, the analysis starts under ANALYZING with no backup, what it  *)
(* stages is for the context asked for, and only a failure to retire or    *)
(* to discard brings the catch block to a bundle.                          *)
Phases ==
    /\ pc \in {"inspect", "build", "finishBuild", "compare", "retire"} => recovery = {}
    /\ pc \in Working => backup = {} /\ \A s \in status : s.state = "ANALYZING"
    /\ pc \in {"finishBuild", "compare", "retire", "install"} =>
         \A s \in staging : s.man.ctx = asked
    /\ pc = "finishBuild" => staging # {}
    /\ pc \in {"compare", "retire", "install"} => Valid(staging)
    /\ family = "sql" /\ pc = "retire" /\ Valid(bundle) =>
         \A b \in bundle, s \in staging : b.man.ctx # s.man.ctx
    /\ family = "sql" /\ pc = "install" /\ Valid(recovery) =>
         \A r \in recovery, s \in staging : r.man.ctx # s.man.ctx
    /\ pc \in {"discard", "discardRest"} => \A b \in bundle : b.man.ctx = asked
    /\ pc = "undo" => bundle = {} \/ faulted \cap {"retire", "discard"} # {}
    /\ pc = "undoRest" => faulted \cap {"retire", "discard"} # {}
    /\ pc \in {"report", "cleanup"} => family = "sql"

(* A status write is one of three: ANALYZING before the analysis, FAILED,  *)
(* or SUCCESS for a bundle that is in place.                               *)
WriteCarries ==
    pc \in Writing =>
      /\ write.orElse \in {"report", "escape"}
      /\ write.orElse = "report" => family = "sql"
      /\ \/ /\ write.then = "build" /\ recovery = {}
            /\ \A r \in write.rec : r.state = "ANALYZING"
         \/ /\ write.then = "failed" /\ family = "sql"
            /\ \A r \in write.rec : r.state = "FAILED"
         \/ /\ write.then = "returned"
            /\ \E r \in write.rec : r.state = "SUCCESS" /\ r.ctx = asked
            /\ \A r \in write.rec : Backed(r)
      /\ pc = "dropBackup" => status = write.rec

Ends ==
    /\ pc = "failed" => /\ family = "sql" /\ backup = {}
                        /\ \A s \in status : s.state = "FAILED"
    /\ pc = "returned" => \E s \in status : s.state = "SUCCESS" /\ s.ctx = asked

FactsInvariant ==
    /\ FactsTypeOK
    /\ SuccessIsBacked
    /\ IndexTellsTheOutcome
    /\ DriftNeverReplaces
    /\ BundleSurvivesCrashes
    /\ Phases
    /\ WriteCarries
    /\ Ends
-----------------------------------------------------------------------------
(* A file or directory that may be missing. *)
LEMMA MaybeMembers ==
    ASSUME NEW S, NEW X
    PROVE  X \in Maybe(S) <=> X = {} \/ \E x \in S : X = {x}
  BY DEF Maybe

(* What a status record is made of. *)
LEMMA StatusIsTyped ==
    ASSUME status \in Maybe(Statuses), asked \in Contexts,
           NEW state \in {"ANALYZING", "SUCCESS", "FAILED"}
    PROVE  /\ {StatusOf(state, asked, CurrentHash)} \in Maybe(Statuses)
           /\ {StatusOf(state, asked, HashKept)} \in Maybe(Statuses)
           /\ \A h \in Maybe(Manifests) : {StatusOf(state, asked, h)} \in Maybe(Statuses)
  <1>1. \A h \in Maybe(Manifests) : StatusOf(state, asked, h) \in Statuses
    BY DEF StatusOf, Statuses
  <1>2. CurrentHash \in Maybe(Manifests)
    <2>1. CASE status = {}
      BY <2>1, MaybeMembers DEF CurrentHash
    <2>2. CASE \E s \in Statuses : status = {s}
      <3>1. PICK s \in Statuses : status = {s}
        BY <2>2
      <3>2. CurrentHash = s.hash
        BY <3>1 DEF CurrentHash
      <3> QED BY <3>2 DEF Statuses
    <2> QED BY <2>1, <2>2, MaybeMembers
  <1>3. HashKept \in Maybe(Manifests)
    BY <1>2, MaybeMembers DEF HashKept
  <1> QED BY <1>1, <1>2, <1>3, MaybeMembers

(* The manifest in place, and the record of it in the index. *)
LEMMA InstalledIsTyped ==
    ASSUME bundle \in Maybe(Bundles)
    PROVE  /\ Installed \in Maybe(Manifests)
           /\ Indexed \in Maybe(Manifests)
           /\ \A b \in bundle : Installed = {b.man}
  <1>1. CASE bundle = {}
    BY <1>1, MaybeMembers DEF Installed, Indexed
  <1>2. CASE \E b \in Bundles : bundle = {b}
    <2>1. PICK b \in Bundles : bundle = {b}
      BY <1>2
    <2>2. Installed = {b.man} /\ b.man \in Manifests
      BY <2>1 DEF Installed, Bundles
    <2>3. Indexed = {} \/ Indexed = {b.man}
      BY <2>1 DEF Indexed
    <2> QED BY <2>1, <2>2, <2>3, MaybeMembers
  <1> QED BY <1>1, <1>2, MaybeMembers

(* A success may be written for a whole bundle of the context asked for.   *)
LEMMA SuccessMayBeWritten ==
    ASSUME bundle \in Maybe(Bundles), Valid(bundle),
           \A b \in bundle : b.man.ctx = asked
    PROVE  LET s == StatusOf("SUCCESS", asked, Installed)
           IN  s.state = "SUCCESS" /\ s.ctx = asked /\ Backed(s)
  <1>1. PICK b \in bundle : b.kept = "whole"
    BY DEF Valid
  <1>2. Installed = {b.man} /\ b.man.ctx = asked
    BY InstalledIsTyped
  <1> QED BY <1>1, <1>2 DEF StatusOf, Backed

(* A directory half removed is of no use but keeps its manifest; a staged  *)
(* one that is finished is whole.                                          *)
LEMMA TornDirs ==
    ASSUME NEW dir \in Maybe(Bundles), NEW t \in Torn(dir)
    PROVE  /\ {t} \in Maybe(Bundles) /\ ~Valid({t})
           /\ \E b \in dir : t.man = b.man
  <1>1. PICK b \in dir, k \in {"torn", "headless"} : t = [b EXCEPT !.kept = k]
    BY DEF Torn
  <1>2. b \in Bundles
    BY MaybeMembers
  <1>3. t \in Bundles /\ t.kept = k /\ t.man = b.man
    BY <1>1, <1>2 DEF Bundles
  <1> QED BY <1>3, MaybeMembers DEF Valid

LEMMA FinishedDirs ==
    ASSUME NEW dir \in Maybe(Bundles), dir # {}
    PROVE  LET whole == {[b EXCEPT !.kept = "whole"] : b \in dir}
           IN  /\ whole \in Maybe(Bundles) /\ Valid(whole) /\ whole # {}
               /\ \A w \in whole : \E b \in dir : w.man = b.man
  <1>1. PICK b \in Bundles : dir = {b}
    BY MaybeMembers
  <1> DEFINE w == [b EXCEPT !.kept = "whole"]
  <1>2. w \in Bundles /\ w.kept = "whole" /\ w.man = b.man
    BY DEF Bundles
  <1>3. {[x EXCEPT !.kept = "whole"] : x \in dir} = {w}
    BY <1>1
  <1> HIDE DEF w
  <1> QED BY <1>1, <1>2, <1>3, MaybeMembers DEF Valid

(* Whether a bundle is kept depends on the two directories alone. *)
LEMMA BundlesUnmoved ==
    ASSUME DriftNeverReplaces, BundleSurvivesCrashes,
           UNCHANGED <<bundle, recovery, family, made>>, faulted \subseteq faulted'
    PROVE  DriftNeverReplaces' /\ BundleSurvivesCrashes'
  BY DEF DriftNeverReplaces, BundleSurvivesCrashes, GoodBundleKept, Valid

(* Nothing on disk and no run under way. *)
LEMMA FactsInvariantInit == FactsInit => FactsInvariant
  <1> SUFFICES ASSUME FactsInit PROVE FactsInvariant
    OBVIOUS
  <1> USE DEF FactsInit, NoWrite
  <1>1. FactsTypeOK
    BY MaybeMembers DEF FactsTypeOK, Ending, Working, Recovering, Writing, Valid
  <1>2. /\ SuccessIsBacked /\ IndexTellsTheOutcome /\ DriftNeverReplaces
        /\ BundleSurvivesCrashes
    BY DEF SuccessIsBacked, IndexTellsTheOutcome, DriftNeverReplaces,
           BundleSurvivesCrashes, GoodBundleKept, Valid
  <1>3. Phases /\ WriteCarries /\ Ends
    BY DEF Phases, WriteCarries, Ends, Working, Writing
  <1> QED BY <1>1, <1>2, <1>3 DEF FactsInvariant

(* Every step of a run, and a crash at any of them, preserves the          *)
(* invariant.                                                              *)
LEMMA FactsInvariantStep == FactsInvariant /\ [FactsNext]_factsVars => FactsInvariant'
  <1> SUFFICES ASSUME FactsInvariant, [FactsNext]_factsVars PROVE FactsInvariant'
    OBVIOUS
  <1> USE MaybeMembers
  <1> USE DEF FactsInvariant, FactsTypeOK, disk, history, Goto, Fail, Continue,
          WriteStatus, NoWrite, Valid, Caught
  <1>1. ASSUME NEW c \in Contexts, Begin(c) PROVE FactsInvariant'
    <2>1. FactsTypeOK'
      BY <1>1 DEF Begin, Recovering
    <2>2. SuccessIsBacked'
      BY <1>1 DEF Begin, SuccessIsBacked, Backed
    <2>3. IndexTellsTheOutcome'
      BY <1>1 DEF Begin, IndexTellsTheOutcome
    <2>4. DriftNeverReplaces' /\ BundleSurvivesCrashes'
      BY <1>1, BundlesUnmoved DEF Begin
    <2>5. Phases'
      BY <1>1 DEF Begin, Phases, Working
    <2>6. WriteCarries'
      BY <1>1 DEF Begin, WriteCarries, Writing
    <2>7. Ends'
      BY <1>1 DEF Begin, Ends
    <2> QED BY <2>1, <2>2, <2>3, <2>4, <2>5, <2>6, <2>7
  <1>2. CASE RecoverStatus
    <2>1. FactsTypeOK'
      BY <1>2 DEF RecoverStatus, Recovering, Ending
    <2>2. SuccessIsBacked'
      BY <1>2 DEF RecoverStatus, SuccessIsBacked, Backed
    <2>3. IndexTellsTheOutcome'
      BY <1>2 DEF RecoverStatus, IndexTellsTheOutcome
    <2>4. DriftNeverReplaces' /\ BundleSurvivesCrashes'
      BY <1>2, BundlesUnmoved DEF RecoverStatus
    <2>5. Phases'
      BY <1>2 DEF RecoverStatus, Phases, Working
    <2>6. WriteCarries'
      BY <1>2 DEF RecoverStatus, WriteCarries, Writing
    <2>7. Ends'
      BY <1>2 DEF RecoverStatus, Ends
    <2> QED BY <2>1, <2>2, <2>3, <2>4, <2>5, <2>6, <2>7
  <1>3. CASE Sweep
    <2>1. FactsTypeOK'
      BY <1>3 DEF Sweep, SweepStaging, Recovering, Ending
    <2>2. SuccessIsBacked'
      BY <1>3 DEF Sweep, SuccessIsBacked, Backed
    <2>3. IndexTellsTheOutcome'
      BY <1>3 DEF Sweep, SweepStaging, IndexTellsTheOutcome
    <2>4. DriftNeverReplaces' /\ BundleSurvivesCrashes'
      BY <1>3, BundlesUnmoved DEF Sweep
    <2>5. Phases'
      BY <1>3 DEF Sweep, SweepStaging, Phases, Working
    <2>6. WriteCarries'
      BY <1>3 DEF Sweep, SweepStaging, WriteCarries, Writing
    <2>7. Ends'
      BY <1>3 DEF Sweep, SweepStaging, Ends
    <2> QED BY <2>1, <2>2, <2>3, <2>4, <2>5, <2>6, <2>7
  <1>4. CASE Restore
    <2>1. FactsTypeOK'
      BY <1>4 DEF Restore, Recovering, Ending
    <2>2. SuccessIsBacked'
      BY <1>4 DEF Restore, Restorable, SuccessIsBacked, Backed
    <2>3. IndexTellsTheOutcome'
      BY <1>4 DEF Restore, IndexTellsTheOutcome
    <2>4. DriftNeverReplaces'
      BY <1>4 DEF Restore, DriftNeverReplaces
    <2>5. BundleSurvivesCrashes'
      BY <1>4 DEF Restore, Restorable, BundleSurvivesCrashes, GoodBundleKept
    <2>6. Phases'
      BY <1>4 DEF Restore, Phases, Working
    <2>7. WriteCarries'
      BY <1>4 DEF Restore, WriteCarries, Writing
    <2>8. Ends'
      BY <1>4 DEF Restore, Ends
    <2> QED BY <2>1, <2>2, <2>3, <2>4, <2>5, <2>6, <2>7, <2>8
  <1>5. CASE Inspect
    <2>1. FactsTypeOK'
      BY <1>5, StatusIsTyped DEF Inspect, Recovering, Writing, Working, Ending
    <2>2. SuccessIsBacked'
      BY <1>5 DEF Inspect, SuccessIsBacked, Backed
    <2>3. IndexTellsTheOutcome'
      BY <1>5 DEF Inspect, IndexTellsTheOutcome
    <2>4. DriftNeverReplaces' /\ BundleSurvivesCrashes'
      BY <1>5, BundlesUnmoved DEF Inspect
    <2>5. Phases'
      BY <1>5 DEF Inspect, Phases, Working
    <2>6. WriteCarries'
      BY <1>5 DEF Inspect, WriteCarries, Writing, StatusOf, Phases
    <2>7. Ends'
      BY <1>5 DEF Inspect, Ends
    <2> QED BY <2>1, <2>2, <2>3, <2>4, <2>5, <2>6, <2>7
  <1>6. CASE Report
    <2>1. FactsTypeOK'
      BY <1>6, StatusIsTyped DEF Report, Writing, Ending
    <2>2. SuccessIsBacked'
      BY <1>6 DEF Report, SuccessIsBacked, Backed
    <2>3. IndexTellsTheOutcome'
      BY <1>6 DEF Report, IndexTellsTheOutcome
    <2>4. DriftNeverReplaces' /\ BundleSurvivesCrashes'
      BY <1>6, BundlesUnmoved DEF Report
    <2>5. Phases'
      BY <1>6 DEF Report, Phases, Working
    <2>6. WriteCarries'
      BY <1>6 DEF Report, WriteCarries, StatusOf, Phases
    <2>7. Ends'
      BY <1>6 DEF Report, Ends
    <2> QED BY <2>1, <2>2, <2>3, <2>4, <2>5, <2>6, <2>7
  <1>7. CASE SetAside
    <2>1. FactsTypeOK'
      BY <1>7 DEF SetAside, Recovering, Writing, Ending
    <2>2. SuccessIsBacked'
      BY <1>7 DEF SetAside, SuccessIsBacked, Backed
    <2>3. IndexTellsTheOutcome'
      BY <1>7 DEF SetAside, IndexTellsTheOutcome, WriteCarries, Writing
    <2>4. DriftNeverReplaces' /\ BundleSurvivesCrashes'
      BY <1>7, BundlesUnmoved DEF SetAside
    <2>5. Phases'
      BY <1>7 DEF SetAside, Phases, Working, WriteCarries, Writing
    <2>6. WriteCarries'
      BY <1>7 DEF SetAside, WriteCarries, Writing, StatusOf, Backed
    <2>7. Ends'
      BY <1>7 DEF SetAside, Ends
    <2> QED BY <2>1, <2>2, <2>3, <2>4, <2>5, <2>6, <2>7
  <1>8. CASE PutStatus
    <2>1. FactsTypeOK'
      BY <1>8 DEF PutStatus, Recovering, Writing, Ending
    <2>2. SuccessIsBacked'
      BY <1>8 DEF PutStatus, SuccessIsBacked, Backed, WriteCarries, Writing
    <2>3. IndexTellsTheOutcome'
      BY <1>8 DEF PutStatus, IndexTellsTheOutcome, WriteCarries, Writing
    <2>4. DriftNeverReplaces' /\ BundleSurvivesCrashes'
      BY <1>8, BundlesUnmoved DEF PutStatus
    <2>5. Phases'
      BY <1>8 DEF PutStatus, Phases, Working, WriteCarries, Writing
    <2>6. WriteCarries'
      BY <1>8 DEF PutStatus, WriteCarries, Writing, StatusOf, Backed
    <2>7. Ends'
      BY <1>8 DEF PutStatus, Ends
    <2> QED BY <2>1, <2>2, <2>3, <2>4, <2>5, <2>6, <2>7
  <1>9. CASE DropBackup
    <2>1. FactsTypeOK'
      BY <1>9 DEF DropBackup, WriteCarries, Recovering, Working, Ending
    <2>2. SuccessIsBacked'
      BY <1>9 DEF DropBackup, SuccessIsBacked, Backed
    <2>3. IndexTellsTheOutcome'
      BY <1>9 DEF DropBackup, IndexTellsTheOutcome, WriteCarries, Writing
    <2>4. DriftNeverReplaces' /\ BundleSurvivesCrashes'
      BY <1>9, BundlesUnmoved DEF DropBackup
    <2>5. Phases'
      BY <1>9 DEF DropBackup, Phases, Working, WriteCarries, Writing
    <2>6. WriteCarries'
      BY <1>9 DEF DropBackup, WriteCarries, Writing
    <2>7. Ends'
      BY <1>9 DEF DropBackup, Ends, WriteCarries, Writing
    <2> QED BY <2>1, <2>2, <2>3, <2>4, <2>5, <2>6, <2>7
  <1>10. ASSUME NEW m \in Manifests, Build(m) PROVE FactsInvariant'
    <2>1. FactsTypeOK'
      BY <1>10 DEF Build, Dir, Working, Bundles
    <2>2. SuccessIsBacked'
      BY <1>10 DEF Build, SuccessIsBacked, Phases, Working
    <2>3. IndexTellsTheOutcome'
      BY <1>10 DEF Build, IndexTellsTheOutcome
    <2>4. DriftNeverReplaces' /\ BundleSurvivesCrashes'
      BY <1>10, BundlesUnmoved DEF Build
    <2>5. Phases'
      BY <1>10 DEF Build, Dir, Phases, Working
    <2>6. WriteCarries'
      BY <1>10 DEF Build, WriteCarries, Writing
    <2>7. Ends'
      BY <1>10 DEF Build, Ends
    <2> QED BY <2>1, <2>2, <2>3, <2>4, <2>5, <2>6, <2>7
  <1>11. CASE FinishBuild
    <2> DEFINE whole == {[b EXCEPT !.kept = "whole"] : b \in staging}
    <2>a. /\ whole \in Maybe(Bundles) /\ Valid(whole) /\ whole # {}
          /\ \A w \in whole : \E b \in staging : w.man = b.man
      BY <1>11, FinishedDirs DEF FinishBuild, Phases
    <2>b. /\ staging' \in Maybe(Bundles)
          /\ \A x \in staging' : \E b \in staging : x.man = b.man
          /\ \/ pc' = "compare" /\ Valid(staging)'
             \/ pc' \in {Caught("cleanup"), Caught("report")}
      <3> HIDE DEF whole
      <3>1. CASE staging' = whole /\ pc' = "compare"
        BY <2>a, <3>1
      <3>2. CASE pc' = Caught("cleanup") /\ \E torn \in Torn(staging) : staging' = {torn}
        BY <3>2, TornDirs
      <3>3. CASE pc' = Caught("report") /\ staging' = staging
        BY <3>3
      <3> QED BY <1>11, <3>1, <3>2, <3>3 DEF FinishBuild, whole
    <2>1. FactsTypeOK'
      BY <1>11, <2>b DEF FinishBuild, Recovering, Working, Ending
    <2>2. SuccessIsBacked'
      BY <1>11 DEF FinishBuild, SuccessIsBacked, Phases, Working
    <2>3. IndexTellsTheOutcome'
      BY <1>11 DEF FinishBuild, IndexTellsTheOutcome
    <2>4. DriftNeverReplaces' /\ BundleSurvivesCrashes'
      BY <1>11, BundlesUnmoved DEF FinishBuild
    <2>5. Phases'
      BY <1>11, <2>b DEF FinishBuild, Phases, Working
    <2>6. WriteCarries'
      BY <1>11 DEF FinishBuild, WriteCarries, Writing
    <2>7. Ends'
      BY <1>11 DEF FinishBuild, Ends
    <2> QED BY <2>1, <2>2, <2>3, <2>4, <2>5, <2>6, <2>7
  <1>12. CASE Compare
    <2>1. FactsTypeOK'
      BY <1>12, StatusIsTyped, InstalledIsTyped DEF Compare, Reusable, FirstMove, Writing, Working, Ending
    <2>2. SuccessIsBacked'
      BY <1>12 DEF Compare, Reusable, SuccessIsBacked, Phases, Working
    <2>3. IndexTellsTheOutcome'
      BY <1>12 DEF Compare, Reusable, FirstMove, IndexTellsTheOutcome
    <2>4. DriftNeverReplaces' /\ BundleSurvivesCrashes'
      BY <1>12, BundlesUnmoved DEF Compare, Reusable
    <2>5. Phases'
      BY <1>12 DEF Compare, Reusable, Conflict, FirstMove, SameContext, Phases, Working
    <2>6. WriteCarries'
      <3>1. CASE Valid(bundle) /\ SameManifest
        <4>1. \A b \in bundle : b.man.ctx = asked
          BY <1>12, <3>1 DEF Compare, Reusable, SameManifest, Phases
        <4> QED BY <1>12, <3>1, <4>1, SuccessMayBeWritten
                DEF Compare, Reusable, Conflict, WriteCarries, Writing, Backed
      <3>2. CASE ~(Valid(bundle) /\ SameManifest)
        BY <1>12, <3>2 DEF Compare, Reusable, FirstMove, WriteCarries, Writing
      <3> QED BY <3>1, <3>2
    <2>7. Ends'
      BY <1>12 DEF Compare, Reusable, FirstMove, Ends
    <2> QED BY <2>1, <2>2, <2>3, <2>4, <2>5, <2>6, <2>7
  <1>13. CASE Retire
    <2>1. FactsTypeOK'
      BY <1>13 DEF Retire, Working
    <2>2. SuccessIsBacked'
      BY <1>13 DEF Retire, SuccessIsBacked, Phases, Working
    <2>3. IndexTellsTheOutcome'
      BY <1>13 DEF Retire, IndexTellsTheOutcome
    <2>4. DriftNeverReplaces'
      BY <1>13 DEF Retire, DriftNeverReplaces
    <2>5. BundleSurvivesCrashes'
      BY <1>13 DEF Retire, BundleSurvivesCrashes, GoodBundleKept, Phases
    <2>6. Phases'
      BY <1>13 DEF Retire, Phases, Working
    <2>7. WriteCarries'
      BY <1>13 DEF Retire, WriteCarries, Writing
    <2>8. Ends'
      BY <1>13 DEF Retire, Ends
    <2> QED BY <2>1, <2>2, <2>3, <2>4, <2>5, <2>6, <2>7, <2>8
  <1>14. CASE Install
    <2>1. FactsTypeOK'
      BY <1>14 DEF Install, Phases, Recovering, Working
    <2>2. SuccessIsBacked'
      BY <1>14 DEF Install, SuccessIsBacked, Phases, Working
    <2>3. IndexTellsTheOutcome'
      BY <1>14 DEF Install, IndexTellsTheOutcome
    <2>4. DriftNeverReplaces'
      BY <1>14 DEF Install, DriftNeverReplaces, Phases
    <2>5. BundleSurvivesCrashes'
      BY <1>14 DEF Install, BundleSurvivesCrashes, GoodBundleKept, Phases
    <2>6. Phases'
      BY <1>14 DEF Install, Phases, Working
    <2>7. WriteCarries'
      BY <1>14 DEF Install, WriteCarries, Writing
    <2>8. Ends'
      BY <1>14 DEF Install, Ends
    <2> QED BY <2>1, <2>2, <2>3, <2>4, <2>5, <2>6, <2>7, <2>8
  <1>15. CASE Discard
    <2>1. FactsTypeOK'
      BY <1>15, StatusIsTyped, InstalledIsTyped, TornDirs DEF Discard, Writing, Working, Ending
    <2>2. SuccessIsBacked'
      BY <1>15 DEF Discard, SuccessIsBacked, Phases, Working
    <2>3. IndexTellsTheOutcome'
      BY <1>15 DEF Discard, IndexTellsTheOutcome
    <2>4. DriftNeverReplaces'
      BY <1>15, TornDirs DEF Discard, DriftNeverReplaces
    <2>5. BundleSurvivesCrashes'
      BY <1>15 DEF Discard, BundleSurvivesCrashes, GoodBundleKept
    <2>6. Phases'
      BY <1>15 DEF Discard, Phases, Working
    <2>7. WriteCarries'
      BY <1>15, SuccessMayBeWritten DEF Discard, WriteCarries, Writing, Backed, Phases
    <2>8. Ends'
      BY <1>15 DEF Discard, Ends
    <2> QED BY <2>1, <2>2, <2>3, <2>4, <2>5, <2>6, <2>7, <2>8
  <1>16. CASE DiscardRest
    <2>1. FactsTypeOK'
      BY <1>16, StatusIsTyped, InstalledIsTyped DEF DiscardRest, Writing, Working, Ending
    <2>2. SuccessIsBacked'
      BY <1>16 DEF DiscardRest, SuccessIsBacked, Phases, Working
    <2>3. IndexTellsTheOutcome'
      BY <1>16 DEF DiscardRest, IndexTellsTheOutcome
    <2>4. DriftNeverReplaces'
      BY <1>16 DEF DiscardRest, DriftNeverReplaces
    <2>5. BundleSurvivesCrashes'
      BY <1>16 DEF DiscardRest, BundleSurvivesCrashes, GoodBundleKept
    <2>6. Phases'
      BY <1>16 DEF DiscardRest, Phases, Working
    <2>7. WriteCarries'
      BY <1>16, SuccessMayBeWritten DEF DiscardRest, WriteCarries, Writing, Backed, Phases
    <2>8. Ends'
      BY <1>16 DEF DiscardRest, Ends
    <2> QED BY <2>1, <2>2, <2>3, <2>4, <2>5, <2>6, <2>7, <2>8
  <1>17. CASE Undo
    <2>1. FactsTypeOK'
      BY <1>17, TornDirs DEF Undo, Working
    <2>2. SuccessIsBacked'
      BY <1>17 DEF Undo, SuccessIsBacked, Phases, Working
    <2>3. IndexTellsTheOutcome'
      BY <1>17 DEF Undo, IndexTellsTheOutcome
    <2>4. DriftNeverReplaces'
      BY <1>17, TornDirs DEF Undo, DriftNeverReplaces
    <2>5. BundleSurvivesCrashes'
      BY <1>17 DEF Undo, BundleSurvivesCrashes, GoodBundleKept, Phases
    <2>6. Phases'
      BY <1>17 DEF Undo, Phases, Working
    <2>7. WriteCarries'
      BY <1>17 DEF Undo, WriteCarries, Writing
    <2>8. Ends'
      BY <1>17 DEF Undo, Ends
    <2> QED BY <2>1, <2>2, <2>3, <2>4, <2>5, <2>6, <2>7, <2>8
  <1>18. CASE UndoRest
    <2>1. FactsTypeOK'
      BY <1>18 DEF UndoRest, Working
    <2>2. SuccessIsBacked'
      BY <1>18 DEF UndoRest, SuccessIsBacked, Phases, Working
    <2>3. IndexTellsTheOutcome'
      BY <1>18 DEF UndoRest, IndexTellsTheOutcome
    <2>4. DriftNeverReplaces'
      BY <1>18 DEF UndoRest, DriftNeverReplaces
    <2>5. BundleSurvivesCrashes'
      BY <1>18 DEF UndoRest, BundleSurvivesCrashes, Phases
    <2>6. Phases'
      BY <1>18 DEF UndoRest, Phases, Working
    <2>7. WriteCarries'
      BY <1>18 DEF UndoRest, WriteCarries, Writing
    <2>8. Ends'
      BY <1>18 DEF UndoRest, Ends
    <2> QED BY <2>1, <2>2, <2>3, <2>4, <2>5, <2>6, <2>7, <2>8
  <1>19. CASE PutBack
    <2>1. FactsTypeOK'
      BY <1>19 DEF PutBack, Working, Ending
    <2>2. SuccessIsBacked'
      BY <1>19 DEF PutBack, SuccessIsBacked, Phases, Working
    <2>3. IndexTellsTheOutcome'
      BY <1>19 DEF PutBack, IndexTellsTheOutcome
    <2>4. DriftNeverReplaces'
      BY <1>19 DEF PutBack, DriftNeverReplaces
    <2>5. BundleSurvivesCrashes'
      BY <1>19 DEF PutBack, BundleSurvivesCrashes, GoodBundleKept
    <2>6. Phases'
      BY <1>19 DEF PutBack, Phases, Working
    <2>7. WriteCarries'
      BY <1>19 DEF PutBack, WriteCarries, Writing
    <2>8. Ends'
      BY <1>19 DEF PutBack, Ends
    <2> QED BY <2>1, <2>2, <2>3, <2>4, <2>5, <2>6, <2>7, <2>8
  <1>20. CASE Cleanup
    <2>1. FactsTypeOK'
      BY <1>20 DEF Cleanup, Recovering
    <2>2. SuccessIsBacked'
      BY <1>20 DEF Cleanup, SuccessIsBacked, Phases, Working
    <2>3. IndexTellsTheOutcome'
      BY <1>20 DEF Cleanup, IndexTellsTheOutcome
    <2>4. DriftNeverReplaces' /\ BundleSurvivesCrashes'
      BY <1>20, BundlesUnmoved DEF Cleanup
    <2>5. Phases'
      BY <1>20 DEF Cleanup, Phases, Working
    <2>6. WriteCarries'
      BY <1>20 DEF Cleanup, WriteCarries, Writing
    <2>7. Ends'
      BY <1>20 DEF Cleanup, Ends
    <2> QED BY <2>1, <2>2, <2>3, <2>4, <2>5, <2>6, <2>7
  <1>21. CASE RebuildIndex
    <2>1. FactsTypeOK'
      BY <1>21, InstalledIsTyped DEF RebuildIndex, Ending
    <2>2. SuccessIsBacked'
      BY <1>21 DEF RebuildIndex, SuccessIsBacked, Backed
    <2>3. IndexTellsTheOutcome'
      <3>1. CASE pc = "failed"
        BY <1>21, <3>1 DEF RebuildIndex, Indexed, IndexState, IndexTellsTheOutcome, Ends
      <3>2. CASE pc = "returned"
        <4>1. PICK s \in status : s.state = "SUCCESS" /\ s.ctx = asked
          BY <3>2 DEF Ends
        <4>2. PICK b \in bundle : b.kept = "whole" /\ s.hash = {b.man} /\ s.ctx = b.man.ctx
          BY <4>1 DEF SuccessIsBacked, Backed
        <4>3. Installed = {b.man}
          BY InstalledIsTyped
        <4>4. bundle = {b}
          BY MaybeMembers
        <4>5. Indexed = {b.man}
          BY <4>1, <4>2, <4>4 DEF Indexed, IndexState
        <4> QED BY <1>21, <3>2, <4>1, <4>2, <4>3, <4>5
                DEF RebuildIndex, IndexTellsTheOutcome, Installed
      <3> QED BY <1>21, <3>1, <3>2 DEF RebuildIndex
    <2>4. DriftNeverReplaces' /\ BundleSurvivesCrashes'
      BY <1>21, BundlesUnmoved DEF RebuildIndex
    <2>5. Phases'
      BY <1>21 DEF RebuildIndex, Phases, Working
    <2>6. WriteCarries'
      BY <1>21 DEF RebuildIndex, WriteCarries, Writing
    <2>7. Ends'
      BY <1>21 DEF RebuildIndex, Ends
    <2> QED BY <2>1, <2>2, <2>3, <2>4, <2>5, <2>6, <2>7
  <1>22. CASE Escape
    <2>1. FactsTypeOK'
      BY <1>22 DEF Escape, Ending
    <2>2. SuccessIsBacked'
      BY <1>22 DEF Escape, SuccessIsBacked, Backed
    <2>3. IndexTellsTheOutcome'
      BY <1>22 DEF Escape, IndexTellsTheOutcome
    <2>4. DriftNeverReplaces' /\ BundleSurvivesCrashes'
      BY <1>22, BundlesUnmoved DEF Escape
    <2>5. Phases'
      BY <1>22 DEF Escape, Phases, Working
    <2>6. WriteCarries'
      BY <1>22 DEF Escape, WriteCarries, Writing
    <2>7. Ends'
      BY <1>22 DEF Escape, Ends
    <2> QED BY <2>1, <2>2, <2>3, <2>4, <2>5, <2>6, <2>7
  <1>23. CASE Crash
    <2>1. FactsTypeOK'
      BY <1>23 DEF Crash, Ending
    <2>2. SuccessIsBacked'
      BY <1>23 DEF Crash, SuccessIsBacked, Backed
    <2>3. IndexTellsTheOutcome'
      BY <1>23 DEF Crash, IndexTellsTheOutcome
    <2>4. DriftNeverReplaces' /\ BundleSurvivesCrashes'
      BY <1>23, BundlesUnmoved DEF Crash
    <2>5. Phases'
      BY <1>23 DEF Crash, Phases, Working
    <2>6. WriteCarries'
      BY <1>23 DEF Crash, WriteCarries, Writing
    <2>7. Ends'
      BY <1>23 DEF Crash, Ends
    <2> QED BY <2>1, <2>2, <2>3, <2>4, <2>5, <2>6, <2>7
  <1>24. CASE UNCHANGED factsVars
    BY <1>24 DEF factsVars, SuccessIsBacked, Backed, IndexTellsTheOutcome, Installed,
        DriftNeverReplaces, BundleSurvivesCrashes, GoodBundleKept, Phases, WriteCarries, Ends
  <1> QED BY <1>1, <1>2, <1>3, <1>4, <1>5, <1>6, <1>7, <1>8, <1>9, <1>10, <1>11, <1>12,
              <1>13, <1>14, <1>15, <1>16, <1>17, <1>18, <1>19, <1>20, <1>21, <1>22, <1>23,
              <1>24 DEF FactsNext
(* What PublishedFacts sees of the disk: at most one manifest, and a claim *)
(* is a claim of the facts in place.                                       *)
LEMMA ClaimsAreOfTheFacts ==
    FactsTypeOK /\ SuccessIsBacked =>
      /\ Whole = {} \/ \E m \in Manifests : Whole = {m}
      /\ Claimed = {} \/ (Whole # {} /\ Claimed = Whole)
  <1> SUFFICES ASSUME FactsTypeOK, SuccessIsBacked
               PROVE  /\ Whole = {} \/ \E m \in Manifests : Whole = {m}
                      /\ Claimed = {} \/ (Whole # {} /\ Claimed = Whole)
    OBVIOUS
  <1>1. Whole = {} \/ \E m \in Manifests : Whole = {m}
    <2>1. CASE bundle = {}
      BY <2>1 DEF Whole
    <2>2. CASE \E b \in Bundles : bundle = {b}
      BY <2>2 DEF Whole, Bundles
    <2> QED BY <2>1, <2>2, MaybeMembers DEF FactsTypeOK
  <1>2. ASSUME NEW s \in status \cup backup, s.state = "SUCCESS"
        PROVE  Whole # {} /\ s.hash = Whole
    <2>1. PICK b \in bundle : b.kept = "whole" /\ s.hash = {b.man}
      BY <1>2 DEF SuccessIsBacked, Backed
    <2>2. bundle = {b}
      BY MaybeMembers DEF FactsTypeOK
    <2> QED BY <2>1, <2>2 DEF Whole
  <1>3. CASE \A s \in status \cup backup : s.state # "SUCCESS"
    <2>1. Claimed = {}
      BY <1>3 DEF Claimed
    <2> QED BY <1>1, <2>1
  <1>4. CASE \E s \in status \cup backup : s.state = "SUCCESS"
    <2>1. PICK s \in status \cup backup : s.state = "SUCCESS"
      BY <1>4
    <2> DEFINE told == {x \in status \cup backup : x.state = "SUCCESS"}
    <2>2. \A h : h \in {x.hash : x \in told} <=> h = Whole
      BY <1>2, <2>1
    <2>3. Claimed = Whole
      BY <2>2 DEF Claimed
    <2> QED BY <1>1, <1>2, <2>1, <2>3
  <1> QED BY <1>3, <1>4

(* While the analysis is at work the status reads ANALYZING.               *)
LEMMA NothingClaimedAtWork ==
    ASSUME Phases, pc \in Working
    PROVE  Claimed = {}
  BY DEF Phases, Claimed

(* A step that leaves the bundle alone withdraws or announces, if that.    *)
LEMMA ClaimMoves ==
    ASSUME FactsTypeOK, SuccessIsBacked, FactsTypeOK', SuccessIsBacked',
           UNCHANGED <<bundle, index>>
    PROVE  [Published!Next]_<<Whole, Claimed, index>>
  <1>1. Whole' = Whole
    BY DEF Whole
  <1>2. Claimed = {} \/ (Whole # {} /\ Claimed = Whole)
    BY ClaimsAreOfTheFacts
  <1>3. Claimed' = {} \/ (Whole # {} /\ Claimed' = Whole)
    <2>1. (Claimed = {} \/ (Whole # {} /\ Claimed = Whole))'
      BY ClaimsAreOfTheFacts, PTL
    <2> QED BY <2>1, <1>1
  <1>4. CASE Claimed' = {}
    BY <1>1, <1>4 DEF Published!Next, Published!Withdraw
  <1>5. CASE Claimed = {} /\ Whole # {} /\ Claimed' = Whole
    BY <1>1, <1>5 DEF Published!Next, Published!Announce
  <1>6. CASE Claimed' = Claimed
    BY <1>1, <1>6
  <1> QED BY <1>2, <1>3, <1>4, <1>5, <1>6

(* A step under which nothing is claimed may replace the facts.            *)
LEMMA FactsMove ==
    ASSUME FactsTypeOK', SuccessIsBacked', Claimed = {}, UNCHANGED <<status, backup, index>>
    PROVE  [Published!Next]_<<Whole, Claimed, index>>
  <1>1. Claimed' = {}
    BY DEF Claimed
  <1>2. (Whole = {} \/ \E m \in Manifests : Whole = {m})'
    BY ClaimsAreOfTheFacts, PTL
  <1>3. Whole' \in {{}} \cup {{m} : m \in Manifests}
    BY <1>2 DEF Manifests
  <1> QED BY <1>1, <1>3 DEF Published!Next, Published!Replace

(* What the index takes up is what the status claims: a failed run has     *)
(* left no success behind, and a run that returned has claimed its bundle. *)
LEMMA IndexMoves ==
    ASSUME FactsInvariant, RebuildIndex
    PROVE  [Published!Next]_<<Whole, Claimed, index>>
  <1>1. Claimed' = Claimed /\ Whole' = Whole
    BY DEF RebuildIndex, Claimed, Whole
  <1>2. CASE pc = "failed"
    <2>1. /\ family = "sql" /\ backup = {}
          /\ \A s \in status : s.state = "FAILED"
      BY <1>2 DEF FactsInvariant, Ends
    <2>2. Claimed = {} /\ index' = {}
      BY <2>1 DEF Claimed, RebuildIndex, Indexed, IndexState
    <2> QED BY <1>1, <2>2 DEF RebuildIndex, Published!Next, Published!List
  <1>3. CASE pc = "returned"
    <2>1. PICK s \in status : s.state = "SUCCESS"
      BY <1>3 DEF FactsInvariant, Ends
    <2>2. PICK b \in bundle : b.kept = "whole" /\ s.hash = {b.man} /\ s.ctx = b.man.ctx
      BY <2>1 DEF FactsInvariant, SuccessIsBacked, Backed
    <2>3. bundle = {b}
      BY MaybeMembers DEF FactsInvariant, FactsTypeOK
    <2>4. Installed = {b.man} /\ Indexed = {b.man} /\ Whole = {b.man}
      BY <2>1, <2>2, <2>3 DEF Installed, Indexed, IndexState, Whole
    <2>5. Claimed = {b.man}
      <3>1. Claimed # {}
        BY <2>1, <2>2 DEF Claimed
      <3> QED BY <3>1, <2>4, ClaimsAreOfTheFacts DEF FactsInvariant
    <2>6. index' = Claimed
      BY <2>4, <2>5 DEF RebuildIndex
    <2> QED BY <1>1, <2>6 DEF Published!Next, Published!List
  <1> QED BY <1>2, <1>3 DEF RebuildIndex

(* Each step of a run, and a crash, does what PublishedFacts allows.       *)
LEMMA StepKeepsThePromise ==
    ASSUME FactsInvariant, FactsInvariant', [FactsNext]_factsVars
    PROVE  [Published!Next]_<<Whole, Claimed, index>>
  <1>1. CASE UNCHANGED <<bundle, index>>
    BY <1>1, ClaimMoves DEF FactsInvariant
  <1>2. CASE Claimed = {} /\ UNCHANGED <<status, backup, index>>
    BY <1>2, FactsMove DEF FactsInvariant
  <1>3. CASE \E c \in Contexts : Begin(c)
    BY <1>3, <1>1 DEF Begin, disk
  <1>4. CASE RecoverStatus \/ Sweep \/ Inspect \/ Report
    BY <1>4, <1>1 DEF RecoverStatus, Sweep, Inspect, Report, disk
  <1>5. CASE Restore
    <2>1. CASE recovery = {} \/ ~Restorable
      BY <1>5, <2>1, <1>1 DEF Restore, Restorable
    <2>2. CASE Restorable
      <3>1. Whole = {}
        BY <2>2 DEF Restorable, Whole
      <3>2. Claimed = {}
        BY <3>1, ClaimsAreOfTheFacts DEF FactsInvariant
      <3> QED BY <1>5, <3>2, <1>2 DEF Restore
    <2> QED BY <2>1, <2>2
  <1>6. CASE SetAside \/ PutStatus \/ DropBackup
    BY <1>6, <1>1 DEF SetAside, PutStatus, DropBackup
  <1>7. CASE \E m \in Manifests : Build(m)
    BY <1>7, <1>1 DEF Build
  <1>8. CASE FinishBuild \/ Compare \/ Discard \/ DiscardRest \/ Cleanup
    BY <1>8, <1>1 DEF FinishBuild, Compare, Discard, DiscardRest, Cleanup
  <1>9. CASE Retire \/ Install \/ Undo \/ UndoRest \/ PutBack
    <2>1. pc \in Working /\ UNCHANGED <<status, backup, index>>
      BY <1>9 DEF Retire, Install, Undo, UndoRest, PutBack, Working
    <2>2. Claimed = {}
      BY <2>1, NothingClaimedAtWork DEF FactsInvariant
    <2> QED BY <2>1, <2>2, <1>2
  <1>10. CASE RebuildIndex
    BY <1>10, IndexMoves
  <1>11. CASE Escape \/ Crash
    BY <1>11, <1>1 DEF Escape, Crash, disk
  <1>12. CASE UNCHANGED factsVars
    BY <1>12, <1>1 DEF factsVars, disk
  <1> QED BY <1>3, <1>4, <1>5, <1>6, <1>7, <1>8, <1>9, <1>10, <1>11, <1>12 DEF FactsNext
-----------------------------------------------------------------------------
(* The inductive invariant holds throughout. *)
THEOREM FactsInvariantHolds == FactsSpec => []FactsInvariant
  <1> QED BY FactsInvariantInit, FactsInvariantStep, PTL DEF FactsSpec

(* Type correctness: in particular a bundle is never installed over        *)
(* another, and one is discarded only when a whole one is in place.        *)
THEOREM FactsTypeCorrect == FactsSpec => []FactsTypeOK
  <1>1. FactsInvariant => FactsTypeOK
    BY DEF FactsInvariant
  <1> QED BY <1>1, FactsInvariantHolds, PTL

(* A SUCCESS that can be read from the disk, or would be after a restart,  *)
(* names the whole bundle in place, whatever fails and wherever runTask()  *)
(* dies.                                                                   *)
THEOREM SuccessIsNeverClaimedInVain == FactsSpec => []SuccessIsBacked
  <1>1. FactsInvariant => SuccessIsBacked
    BY DEF FactsInvariant
  <1> QED BY <1>1, FactsInvariantHolds, PTL

(* rebuildIndex() lists a task exactly when its last request succeeded.    *)
THEOREM IndexIsCurrent == FactsSpec => []IndexTellsTheOutcome
  <1>1. FactsInvariant => IndexTellsTheOutcome
    BY DEF FactsInvariant
  <1> QED BY <1>1, FactsInvariantHolds, PTL

(* publishArtifactBundle() never puts a bundle in the place of a whole one *)
(* of the same context.                                                    *)
THEOREM DriftIsRefused == FactsSpec => []DriftNeverReplaces
  <1>1. FactsInvariant => DriftNeverReplaces
    BY DEF FactsInvariant
  <1> QED BY <1>1, FactsInvariantHolds, PTL

(* Once published, a whole bundle survives crashes and failed installs, as *)
(* long as neither retiring nor discarding the old one has failed.         *)
THEOREM PublishedBundlesSurvive == FactsSpec => []BundleSurvivesCrashes
  <1>1. FactsInvariant => BundleSurvivesCrashes
    BY DEF FactsInvariant
  <1> QED BY <1>1, FactsInvariantHolds, PTL

(* The task directory implements PublishedFacts: its bundle is replaced    *)
(* only while no SUCCESS is claimed, a SUCCESS is claimed only of the      *)
(* whole bundle in place, and the index lists just what is claimed.        *)
THEOREM TaskFactsRefinePublishedFacts == FactsSpec => ImplementsPublishedFacts
  <1>1. FactsInit => Published!Init
    BY DEF FactsInit, Published!Init, Whole, Claimed
  <1>2. FactsInvariant /\ FactsInvariant' /\ [FactsNext]_factsVars
        => [Published!Next]_<<Whole, Claimed, index>>
    BY StepKeepsThePromise
  <1> QED BY <1>1, <1>2, FactsInvariantHolds, PTL
          DEF FactsSpec, ImplementsPublishedFacts, Published!Spec
=============================================================================
