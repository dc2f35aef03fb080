-------------------------- MODULE FactStoreProofs --------------------------
(***************************************************************************)
(* Proofs about FactStore, for every number of files, every set of         *)
(* extractions and every set of failing operations.  The strengthening,    *)
(* Phases, says of each file where its old and its new content are at each *)
(* step of the commit loop and of the rollback.                            *)
(***************************************************************************)
EXTENDS FactStore, TLAPS

Committed(f) == target[f] = {asked} /\ backup[f] = before[f]
Untouched(f) == target[f] = before[f] /\ backup[f] = {}
SetApart(f) == target[f] = {} /\ backup[f] = before[f]

Uniform(facts) == facts \in {Absent} \cup {AllOf(x) : x \in Extractions}
InForce == IF pc \in Committing THEN before ELSE target

Phases ==
    /\ pc = "idle" => backup = Absent /\ at = 1
    /\ pc = "stage" => target = before /\ backup = Absent /\ at = 1
    /\ pc = "setAside" => \A f \in Files : /\ f < at => Committed(f)
                                           /\ f >= at => Untouched(f) /\ staged[f] = {asked}
    /\ pc = "put" => \A f \in Files : /\ f < at => Committed(f)
                                      /\ f = at => SetApart(f)
                                      /\ f > at => Untouched(f)
                                      /\ f >= at => staged[f] = {asked}
    /\ pc = "undo" => \A f \in Files : /\ f < at => Committed(f)
                                       /\ f >= at => Untouched(f) \/ SetApart(f)
    /\ pc = "restore" => \A f \in Files : /\ f < at - 1 => Committed(f)
                                          /\ f = at - 1 => SetApart(f)
                                          /\ f >= at => Untouched(f) \/ SetApart(f)
    /\ pc = "finally" => \/ target = AllOf(asked)
                         \/ target = before /\ backup = Absent
                         \/ disturbed /\ erased

Ends ==
    /\ outcome = "returned" => /\ pc \in {"finally", "idle"}
                               /\ target = AllOf(asked) /\ ~disturbed
    /\ ~disturbed => Uniform(InForce)

StoreInvariant == StoreTypeOK /\ Phases /\ Ends /\ NothingLostToAKill
-----------------------------------------------------------------------------
(* The numbers of the files. *)
LEMMA Bounds == N \in Nat /\ 1 \in Files /\ N \in Files /\ Files \subseteq Nat
  BY FilesAssumption, SMT DEF Files

(* Where a file may be, seen from the loop. *)
LEMMA Between ==
    \A f, a \in Nat : /\ (f < a) \/ (f >= a)
                      /\ (f < a) \/ (f = a) \/ (f > a)
                      /\ (f < a - 1) \/ (f = a - 1) \/ (f >= a)
  OBVIOUS

(* What a Maybe is. *)
LEMMA MaybeMembers ==
    ASSUME NEW S, NEW X
    PROVE  X \in Maybe(S) <=> X = {} \/ \E x \in S : X = {x}
  BY DEF Maybe

(* The files that are absent, or hold one extraction, are typed. *)
LEMMA UniformIsTyped ==
    /\ Absent \in [Files -> Maybe(Extractions)]
    /\ \A x \in Extractions : AllOf(x) \in [Files -> Maybe(Extractions)]
  <1>1. {} \in Maybe(Extractions) /\ \A x \in Extractions : {x} \in Maybe(Extractions)
    BY MaybeMembers
  <1> QED BY <1>1 DEF Absent, AllOf

THEOREM StoreInitially == StoreInit => StoreInvariant
  <1> SUFFICES ASSUME StoreInit PROVE StoreInvariant
    OBVIOUS
  <1>1. target \in [Files -> Maybe(Extractions)]
    BY UniformIsTyped DEF StoreInit
  <1>2. StoreTypeOK
    BY <1>1, UniformIsTyped, Bounds DEF StoreInit, StoreTypeOK, Absent
  <1>3. Phases /\ Ends
    BY DEF StoreInit, Phases, Ends, Uniform, InForce, Committing
  <1>4. NothingLostToAKill
    BY DEF StoreInit, NothingLostToAKill
  <1> QED BY <1>2, <1>3, <1>4 DEF StoreInvariant

(* Types are kept by every step. *)
LEMMA TypesKept ==
    ASSUME StoreInvariant, [StoreNext]_storeVars
    PROVE  StoreTypeOK'
  <1> USE Bounds
  <1>0. \A X \in Maybe(Extractions) : X \subseteq Extractions
    BY MaybeMembers
  <1>1. ASSUME NEW how \in {"returned", "raised", "interrupted", "killed", "running", "none"},
               Leave(how)
        PROVE  /\ stray' \in [Files -> SUBSET Extractions]
               /\ staged' \in [Files -> Maybe(Extractions)]
               /\ backup' \in [Files -> Maybe(Extractions)]
               /\ at' \in Files /\ pc' = "idle" /\ outcome' = how /\ asked' = asked
    BY <1>0, <1>1, UniformIsTyped DEF Leave, StoreInvariant, StoreTypeOK
  <1>2. {} \in Maybe(Extractions)
    BY MaybeMembers
  <1>3. CASE \E x \in Extractions : Begin(x)
    BY <1>3 DEF Begin, StoreInvariant, StoreTypeOK, disk, Committing
  <1>4. CASE Stage
    BY <1>4, UniformIsTyped DEF Stage, StoreInvariant, StoreTypeOK, Committing, Fails
  <1>5. CASE SetAside
    BY <1>5, <1>2 DEF SetAside, StoreInvariant, StoreTypeOK, Committing, Fails
  <1>6. CASE Put
    <2>1. at < N => at + 1 \in Files
      BY FilesAssumption, SMT DEF Files, StoreInvariant, StoreTypeOK
    <2> QED BY <1>6, <1>2, <2>1 DEF Put, StoreInvariant, StoreTypeOK, Committing, Fails
  <1>7. CASE Unlink
    BY <1>7, <1>2 DEF Unlink, GiveUp, Hurt, StoreInvariant, StoreTypeOK, Committing, Fails
  <1>8. ASSUME NEW f \in Files, Return(f)
        PROVE  /\ target' \in [Files -> Maybe(Extractions)]
               /\ backup' \in [Files -> Maybe(Extractions)]
    BY <1>8, <1>2 DEF Return, StoreInvariant, StoreTypeOK
  <1>9. CASE Restore
    <2>1. at - 1 \in Files
      BY <1>9, FilesAssumption, SMT DEF Files, Restore, StoreInvariant, StoreTypeOK
    <2>2. CASE Return(at - 1) /\ at' = at - 1 /\ pc' = "undo"
      <3>1. UNCHANGED <<disturbed, erased, staged, stray, asked, outcome, before>>
        BY <2>2, <1>9 DEF Return, Restore
      <3> QED BY <2>1, <2>2, <1>8, <3>1 DEF StoreInvariant, StoreTypeOK, Committing
    <2>3. CASE GiveUp
      BY <2>3, <1>9 DEF GiveUp, Hurt, Restore, StoreInvariant, StoreTypeOK, Committing
    <2> QED BY <2>2, <2>3, <1>9 DEF Restore
  <1>10. CASE RestorePending
    <2>1. CASE \E f \in Files : Return(f) /\ pc' = "finally" /\ at' = at
      <3>1. UNCHANGED <<disturbed, erased, staged, stray, asked, outcome, before>>
        BY <2>1, <1>10 DEF Return, RestorePending
      <3> QED BY <2>1, <1>8, <3>1 DEF StoreInvariant, StoreTypeOK, Committing
    <2>2. CASE GiveUp
      BY <2>2, <1>10 DEF GiveUp, Hurt, RestorePending, StoreInvariant, StoreTypeOK, Committing
    <2> QED BY <2>1, <2>2, <1>10 DEF RestorePending
  <1>11. CASE Finally
    <2>1. CASE Leave(outcome) \/ Leave("raised")
      BY <2>1, <1>1, <1>11 DEF Finally, StoreInvariant, StoreTypeOK
    <2>2. CASE \E f \in Files : backup' = [backup EXCEPT ![f] = {}]
      BY <1>11, <2>2, <2>1, <1>2, UniformIsTyped DEF Finally, StoreInvariant, StoreTypeOK, Committing
    <2> QED BY <1>11, <2>1, <2>2 DEF Finally
  <1>12. CASE Interrupt
    <2>1. CASE Leave("interrupted") /\ UNCHANGED <<target, disturbed, erased, before>>
      BY <2>1, <1>1 DEF StoreInvariant, StoreTypeOK
    <2>2. CASE UNCHANGED <<disk, at, asked>> /\ pc' = "finally" /\ outcome' = "interrupted"
      BY <2>2, <1>12 DEF Interrupt, Hurt, disk, StoreInvariant, StoreTypeOK, Committing
    <2> QED BY <1>12, <2>1, <2>2 DEF Interrupt
  <1>13. CASE Kill
    BY <1>13, <1>1 DEF Kill, StoreInvariant, StoreTypeOK
  <1>14. CASE UNCHANGED storeVars
    BY <1>14 DEF storeVars, disk, StoreInvariant, StoreTypeOK
  <1> QED BY <1>3, <1>4, <1>5, <1>6, <1>7, <1>9, <1>10, <1>11, <1>12, <1>13, <1>14 DEF StoreNext
-----------------------------------------------------------------------------
(* Where the files are, step by step. *)
LEMMA PhasesKept ==
    ASSUME StoreInvariant, [StoreNext]_storeVars
    PROVE  Phases'
  <1> USE DEF StoreInvariant, StoreTypeOK, Phases, Committed, Untouched, SetApart, Committing
  <1> USE Bounds
  <1>1. CASE \E x \in Extractions : Begin(x)
    BY <1>1 DEF Begin, disk
  <1>2. CASE Stage
    <2>1. CASE pc' = "setAside"
      <3>1. staged' = AllOf(asked) /\ UNCHANGED <<target, backup, at, asked, before>>
        BY <1>2, <2>1 DEF Stage
      <3>2. pc = "stage"
        BY <1>2 DEF Stage
      <3>3. \A f \in Files : f >= at' /\ ~(f < at')
        BY <3>1, <3>2 DEF Files
      <3> QED BY <3>1, <3>2, <3>3, <2>1 DEF Absent, AllOf
    <2>2. CASE pc' = "finally"
      BY <1>2, <2>2 DEF Stage
    <2> QED BY <1>2, <2>1, <2>2 DEF Stage
  <1>3. CASE SetAside
    <2>1. CASE pc' = "put"
      BY <1>3, <2>1 DEF SetAside, Files
    <2>2. CASE pc' = "undo"
      BY <1>3, <2>2 DEF SetAside, Files
    <2> QED BY <1>3, <2>1, <2>2 DEF SetAside
  <1>4. CASE Put
    <2>1. CASE at < N /\ pc' = "setAside"
      BY <1>4, <2>1 DEF Put, Files
    <2>2. CASE pc' = "finally"
      <3>1. at = N /\ target' = [target EXCEPT ![at] = staged[at]]
        BY <1>4, <2>2 DEF Put, Files
      <3>2. \A f \in Files : target'[f] = {asked}
        BY <3>1, <1>4 DEF Put, Files
      <3>3. target' = [f \in Files |-> target'[f]]
        BY <3>1
      <3>4. asked' = asked
        BY <1>4 DEF Put
      <3> QED BY <2>2, <3>2, <3>3, <3>4 DEF AllOf
    <2>3. CASE pc' = "undo"
      BY <1>4, <2>3 DEF Put, Files
    <2> QED BY <1>4, <2>1, <2>2, <2>3 DEF Put
  <1>5. CASE Unlink
    BY <1>5 DEF Unlink, GiveUp, Hurt, Files
  <1>6. CASE Restore
    <2>1. CASE GiveUp
      BY <1>6, <2>1 DEF Restore, GiveUp, Hurt
    <2>2. CASE Return(at - 1) /\ at' = at - 1 /\ pc' = "undo"
      <3>1. at > 1 /\ at - 1 \in Files /\ before' = before /\ asked' = asked
        BY <1>6 DEF Restore, Files
      <3>2. PICK k \in Files : k = at - 1
        BY <3>1
      <3>3. Untouched(k)'
        <4>1. SetApart(k)
          BY <3>2, <1>6 DEF Restore
        <4>2. target'[k] = backup[k] /\ backup'[k] = {}
          BY <3>2, <4>1, <2>2 DEF Return
        <4> QED BY <4>1, <4>2, <3>1
      <3>4. \A f \in Files : f # k => target'[f] = target[f] /\ backup'[f] = backup[f]
        BY <3>2, <2>2 DEF Return
      <3>5. \A f \in Files : /\ f < at' => Committed(f)'
                             /\ f >= at' => Untouched(f)' \/ SetApart(f)'
        <4> SUFFICES ASSUME NEW f \in Files
                     PROVE  /\ f < at' => Committed(f)'
                            /\ f >= at' => Untouched(f)' \/ SetApart(f)'
          OBVIOUS
        <4>1. CASE f = k
          BY <4>1, <3>2, <3>3, <2>2 DEF Files
        <4>2. CASE f # k
          <5>1. /\ f < at - 1 => Committed(f)
                /\ f >= at => Untouched(f) \/ SetApart(f)
            BY <1>6 DEF Restore
          <5>2. f < at - 1 \/ f >= at
            BY <4>2, <3>2 DEF Files
          <5> QED BY <5>1, <5>2, <3>1, <3>4, <4>2, <2>2 DEF Files
        <4> QED BY <4>1, <4>2
      <3> QED BY <3>5, <2>2
    <2> QED BY <2>1, <2>2, <1>6 DEF Restore
  <1>7. CASE RestorePending
    <2>1. ASSUME NEW f \in Files, \A g \in Files \ {f} : backup[g] = {}, Return(f), pc' = "finally"
          PROVE  target' = before /\ backup' = Absent
      <3>1. \A g \in Files : Untouched(g) \/ SetApart(g)
        BY <1>7 DEF RestorePending, Files
      <3>2. \A g \in Files : target'[g] = before[g] /\ backup'[g] = {}
        BY <2>1, <3>1 DEF Return
      <3>3. target' \in [Files -> Maybe(Extractions)] /\ backup' = [g \in Files |-> backup'[g]]
        BY <2>1, <1>7, TypesKept DEF Return, RestorePending, StoreNext
      <3> QED BY <3>2, <3>3 DEF Absent
    <2>2. CASE GiveUp
      BY <2>2, <1>7 DEF GiveUp, Hurt, RestorePending
    <2> QED BY <2>1, <2>2, <1>7 DEF RestorePending
  <1>8. CASE Finally
    <2>1. CASE Leave(outcome) \/ Leave("raised")
      BY <2>1, <1>8 DEF Leave, Finally
    <2>2. CASE \E f \in Files : backup[f] # {} /\ UNCHANGED <<pc, at, asked, target, before, disturbed, erased>>
      BY <1>8, <2>2 DEF Finally, Absent
    <2> QED BY <1>8, <2>1, <2>2 DEF Finally
  <1>9. CASE Interrupt
    BY <1>9 DEF Interrupt, Leave, Hurt, disk
  <1>10. CASE Kill
    BY <1>10 DEF Kill, Leave
  <1>11. CASE UNCHANGED storeVars
    BY <1>11 DEF storeVars, disk
  <1> QED BY <1>1, <1>2, <1>3, <1>4, <1>5, <1>6, <1>7, <1>8, <1>9, <1>10, <1>11 DEF StoreNext

(* What the end of a run says of the files. *)
LEMMA EndsKept ==
    ASSUME StoreInvariant, [StoreNext]_storeVars
    PROVE  Ends'
  <1> USE DEF StoreInvariant, StoreTypeOK, Ends, InForce, Committing
  <1>0. Phases'
    BY PhasesKept
  <1>1. CASE \E x \in Extractions : Begin(x)
    BY <1>1 DEF Begin, disk, Uniform
  <1>2. CASE Stage
    BY <1>2 DEF Stage, Phases, Uniform
  <1>3. CASE SetAside
    BY <1>3 DEF SetAside, Uniform
  <1>4. CASE Put
    <2>1. CASE pc' = "finally"
      <3>1. outcome' = "returned" /\ disturbed' = FALSE /\ asked' = asked
        BY <1>4, <2>1 DEF Put
      <3>2. \A f \in Files : target'[f] = {asked}
        BY <1>4, <2>1, Bounds DEF Put, Phases, Committed, SetApart, Files
      <3>3. target' = [f \in Files |-> target'[f]]
        BY <1>4, <2>1 DEF Put
      <3> QED BY <2>1, <3>1, <3>2, <3>3 DEF AllOf, Uniform
    <2>2. CASE pc' # "finally"
      BY <1>4, <2>2 DEF Put, Uniform
    <2> QED BY <2>1, <2>2
  <1>5. CASE Unlink
    BY <1>5 DEF Unlink, GiveUp, Hurt, Uniform
  <1>6. CASE Restore
    BY <1>6 DEF Restore, Return, GiveUp, Hurt, Uniform
  <1>7. CASE RestorePending
    <2>1. CASE GiveUp
      BY <2>1, <1>7 DEF GiveUp, Hurt, RestorePending
    <2>2. CASE \E f \in Files : (\A g \in Files \ {f} : backup[g] = {}) /\ Return(f) /\ pc' = "finally"
      <3>1. PICK f \in Files : (\A g \in Files \ {f} : backup[g] = {}) /\ Return(f)
        BY <2>2
      <3>2. \A g \in Files : Untouched(g) \/ SetApart(g)
        BY <1>7, Bounds DEF RestorePending, Phases, Files
      <3>3. \A g \in Files : target'[g] = before[g]
        BY <3>1, <3>2 DEF Return, Untouched, SetApart
      <3>4. target' = before
        BY <3>1, <3>3 DEF Return
      <3> QED BY <3>1, <3>4, <2>2, <1>7 DEF Return, RestorePending, Uniform
    <2> QED BY <2>1, <2>2, <1>7 DEF RestorePending
  <1>8. CASE Finally
    BY <1>8 DEF Finally, Leave, Uniform
  <1>9. CASE Interrupt
    BY <1>9 DEF Interrupt, Leave, Hurt, disk, Uniform, Phases
  <1>10. CASE Kill
    BY <1>10 DEF Kill, Leave, Phases, Uniform
  <1>11. CASE UNCHANGED storeVars
    BY <1>11 DEF storeVars, disk, Uniform
  <1> QED BY <1>1, <1>2, <1>3, <1>4, <1>5, <1>6, <1>7, <1>8, <1>9, <1>10, <1>11 DEF StoreNext

(* Until they are replaced, the old files are in the output directory. *)
LEMMA NothingLostKept ==
    ASSUME StoreInvariant, [StoreNext]_storeVars
    PROVE  NothingLostToAKill'
  <1> USE DEF StoreInvariant, StoreTypeOK, NothingLostToAKill
  <1>0. Phases'
    BY PhasesKept
  <1>1. CASE pc' \in Committing
    <2>1. at' \in Nat /\ Files \subseteq Nat
      BY TypesKept, Bounds
    <2>2. \A f \in Files : Committed(f)' \/ Untouched(f)' \/ SetApart(f)'
      <3> SUFFICES ASSUME NEW f \in Files
                   PROVE  Committed(f)' \/ Untouched(f)' \/ SetApart(f)'
        OBVIOUS
      <3>0. f \in Nat /\ at' \in Nat
        BY <2>1
      <3>1. /\ (f < at') \/ (f >= at')
            /\ (f < at') \/ (f = at') \/ (f > at')
            /\ (f < at' - 1) \/ (f = at' - 1) \/ (f >= at')
        BY <3>0, Between
      <3> QED BY <3>1, <1>0, <1>1 DEF Phases, Committing
    <2>3. \A f \in Files : before'[f] \subseteq target'[f] \cup backup'[f]
      BY <2>2 DEF Committed, Untouched, SetApart
    <2> QED BY <2>3
  <1>2. CASE pc' \in {"stage", "finally"}
    BY <1>0, <1>2 DEF Phases
  <1>3. CASE pc' = "idle"
    <2>1. CASE pc = "idle"
      BY <1>3, <2>1 DEF StoreNext, Begin, Stage, SetAside, Put, Unlink, Restore, RestorePending,
            Finally, Interrupt, Kill, Committing, storeVars, disk
    <2>2. CASE pc # "idle"
      <3>1. UNCHANGED <<target, before, erased, asked>>
        BY <1>3, <2>2 DEF StoreNext, Begin, Stage, SetAside, Put, Unlink, Restore, RestorePending,
              GiveUp, Finally, Interrupt, Kill, Leave, storeVars
      <3>2. stray' = [f \in Files |-> stray[f] \cup backup[f]]
        BY <1>3, <2>2 DEF StoreNext, Begin, Stage, SetAside, Put, Unlink, Restore, RestorePending,
              GiveUp, Finally, Interrupt, Kill, Leave, storeVars
      <3> QED BY <3>1, <3>2
    <2> QED BY <2>1, <2>2
  <1>4. pc' \in Committing \cup {"stage", "finally", "idle"}
    BY TypesKept
  <1> QED BY <1>1, <1>2, <1>3, <1>4

(* The invariant, and the three the run checks. *)
THEOREM StoreSafe == StoreSpec => []StoreInvariant
  <1>1. StoreInvariant /\ [StoreNext]_storeVars => StoreInvariant'
    BY TypesKept, PhasesKept, EndsKept, NothingLostKept DEF StoreInvariant
  <1> QED BY StoreInitially, <1>1, PTL DEF StoreSpec

(* The type invariant. *)
THEOREM StoreTyped == StoreSpec => []StoreTypeOK
  <1>1. StoreInvariant => StoreTypeOK
    BY DEF StoreInvariant
  <1> QED BY StoreSafe, <1>1, PTL

(* Between runs the files are one extraction, unless a run was cut short;  *)
(* and the one asked for after a call that returned.                       *)
THEOREM StoreReadsOneExtraction == StoreSpec => []OneExtraction
  <1>1. StoreInvariant => OneExtraction
    BY DEF StoreInvariant, OneExtraction, Ends, Uniform, InForce, Committing
  <1> QED BY StoreSafe, <1>1, PTL

(* A process that is killed loses none of the old files. *)
THEOREM StoreSurvivesAKill == StoreSpec => []NothingLostToAKill
  <1>1. StoreInvariant => NothingLostToAKill
    BY DEF StoreInvariant
  <1> QED BY StoreSafe, <1>1, PTL
-----------------------------------------------------------------------------
(* What a reader is owed is changed by the last rename of a run, which     *)
(* replaces all of it, or by a step that cuts the run short.               *)
LEMMA StepRefines ==
    ASSUME StoreInvariant, StoreInvariant', [StoreNext]_storeVars
    PROVE  [Atomic!Next]_<<InForce, disturbed>>
  <1> USE DEF InForce, Committing
  <1>1. CASE InForce' = InForce /\ disturbed' = disturbed
    BY <1>1
  <1>2. CASE pc' = "finally" /\ outcome' = "returned" /\ asked' = asked
    <2>1. InForce' = Atomic!AllOf(asked) /\ disturbed' = FALSE
      BY <1>2 DEF StoreInvariant, StoreTypeOK, Ends, AllOf, Atomic!AllOf
    <2>2. Atomic!Replace(asked)
      BY <2>1 DEF Atomic!Replace
    <2> QED BY <2>2 DEF Atomic!Next, StoreInvariant, StoreTypeOK
  <1>3. CASE /\ pc \in Committing /\ pc' \notin Committing /\ disturbed' = TRUE
             /\ target' = target /\ asked' = asked
    <2>1. \A f \in Files : Committed(f) \/ Untouched(f) \/ SetApart(f)
      <3> SUFFICES ASSUME NEW f \in Files
                   PROVE  Committed(f) \/ Untouched(f) \/ SetApart(f)
        OBVIOUS
      <3>1. f \in Nat /\ at \in Nat
        BY Bounds DEF StoreInvariant, StoreTypeOK
      <3> QED BY <3>1, Between, <1>3 DEF StoreInvariant, Phases
    <2>2. \A f \in Files : InForce'[f] \in {InForce[f], {}, {asked}}
      BY <2>1, <1>3 DEF Committed, Untouched, SetApart
    <2>3. \A X \in Maybe(Extractions) : X \subseteq Extractions
      BY MaybeMembers
    <2>4. InForce' \in [Files -> SUBSET Extractions]
      BY <2>3, <1>3 DEF StoreInvariant, StoreTypeOK
    <2>5. Atomic!Disturb(asked)
      BY <2>2, <2>4, <1>3 DEF Atomic!Disturb
    <2> QED BY <2>5 DEF Atomic!Next, StoreInvariant, StoreTypeOK
  <1>4. CASE \E x \in Extractions : Begin(x)
    BY <1>4, <1>1 DEF Begin, disk, StoreInvariant, StoreTypeOK
  <1>5. CASE Stage
    BY <1>5, <1>1 DEF Stage, StoreInvariant, Phases
  <1>6. CASE SetAside
    BY <1>6, <1>1 DEF SetAside
  <1>7. CASE Put
    <2>1. CASE pc' = "finally"
      BY <1>7, <2>1, <1>2 DEF Put
    <2>2. CASE pc' # "finally"
      BY <1>7, <2>2, <1>1 DEF Put
    <2> QED BY <2>1, <2>2
  <1>8. CASE Unlink
    BY <1>8, <1>1, <1>3 DEF Unlink, GiveUp, Hurt
  <1>9. CASE Restore
    BY <1>9, <1>1, <1>3 DEF Restore, Return, GiveUp, Hurt
  <1>10. CASE RestorePending
    <2>1. CASE GiveUp
      BY <2>1, <1>10, <1>3 DEF RestorePending, GiveUp, Hurt
    <2>2. CASE pc' = "finally" /\ \E f \in Files : (\A g \in Files \ {f} : backup[g] = {}) /\ Return(f)
      <3>1. PICK f \in Files : (\A g \in Files \ {f} : backup[g] = {}) /\ Return(f)
        BY <2>2
      <3>2. \A g \in Files : Untouched(g) \/ SetApart(g)
        BY <1>10, Bounds DEF RestorePending, StoreInvariant, Phases, Files
      <3>3. \A g \in Files : target'[g] = before[g]
        BY <3>1, <3>2 DEF Return, Untouched, SetApart, StoreInvariant, StoreTypeOK
      <3>4. target' = before
        BY <3>1, <3>3 DEF Return, StoreInvariant, StoreTypeOK
      <3> QED BY <3>4, <3>1, <2>2, <1>10, <1>1 DEF RestorePending, Return
    <2> QED BY <2>1, <2>2, <1>10 DEF RestorePending
  <1>11. CASE Finally
    BY <1>11, <1>1 DEF Finally, Leave
  <1>12. CASE Interrupt
    <2>1. CASE pc \in Committing
      BY <2>1, <1>12, <1>3 DEF Interrupt, Hurt, disk
    <2>2. CASE pc = "stage"
      BY <2>2, <1>12, <1>1 DEF Interrupt, disk, StoreInvariant, Phases
    <2>3. CASE pc = "finally"
      BY <2>3, <1>12, <1>1 DEF Interrupt, Leave
    <2> QED BY <2>1, <2>2, <2>3, <1>12 DEF Interrupt
  <1>13. CASE Kill
    <2>1. CASE pc \in Committing
      BY <2>1, <1>13, <1>3 DEF Kill, Leave
    <2>2. CASE pc \notin Committing
      BY <2>2, <1>13, <1>1 DEF Kill, Leave, StoreInvariant, StoreTypeOK
    <2> QED BY <2>1, <2>2
  <1>14. CASE UNCHANGED storeVars
    BY <1>14, <1>1 DEF storeVars, disk
  <1> QED BY <1>4, <1>5, <1>6, <1>7, <1>8, <1>9, <1>10, <1>11, <1>12, <1>13, <1>14 DEF StoreNext

(* The store implements its promise to the readers.                        *)
THEOREM StoreRefinesAtomicFacts == StoreSpec => ImplementsAtomicFacts
  <1>1. StoreInit => Atomic!Init
    BY DEF StoreInit, Atomic!Init, Committing, Absent, AllOf, Atomic!Absent, Atomic!AllOf
  <1>2. StoreInvariant /\ StoreInvariant' /\ [StoreNext]_storeVars
        => [Atomic!Next]_<<InForce, disturbed>>
    BY StepRefines
  <1> QED BY <1>1, <1>2, StoreSafe, PTL DEF StoreSpec, ImplementsAtomicFacts, Atomic!Spec, InForce
=============================================================================
