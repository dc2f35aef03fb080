------------------------- MODULE TaskResolverProofs -------------------------
(***************************************************************************)
(* Proofs about TaskResolver, for every set of tables, every number of     *)
(* parts and every bound on the retries.  The strengthening says, while a  *)
(* run goes on, how its memory stands to the mapping file: a table named   *)
(* in the input has in memory what is resolved on disk, one without a name *)
(* is invalid in memory, and only named ones without a resolved row are    *)
(* asked.                                                                  *)
(***************************************************************************)
EXTENDS TaskResolver, TLAPS

(* The memory of a run that goes on. *)
Faithful ==
    \A g \in sources :
      /\ Named(g, scope) /\ Resolved(file[g]) => results[g] = file[g]
      /\ ~Named(g, scope) => results[g] = Invalid

Waiting ==
    /\ \A g \in todo : ~Skipped(results[g])
    /\ \A g \in todo \cup current : Named(g, scope) /\ ~Resolved(file[g])
    /\ \A g, h \in current : g = h

Steps ==
    /\ pc = "idle" <=> code # "running"
    /\ pc = "closing" => todo = {} /\ current = {}
    /\ pc = "asking" => \A g \in current : results[g].status = "RATE_LIMITED"
    /\ pc # "idle" => Faithful /\ Waiting

ResolverInvariant ==
    /\ ResolverTypeOK /\ Steps
    /\ ZeroMeansResolvedOnDisk /\ StoppedRunCanResume
-----------------------------------------------------------------------------
(* The parts are numbered by naturals; every input is a set of parts. *)
LEMMA InputsAreParts ==
    ASSUME ResolverTypeOK, NEW ps \in Inputs
    PROVE  ps \subseteq Parts
  <1>1. NParts \in Nat /\ written \in 0..NParts
    BY ResolverAssumption DEF ResolverTypeOK
  <1>2. 1..written \subseteq 1..NParts
    BY <1>1
  <1> QED BY <1>2 DEF Inputs, Parts

(* An answer is a row. *)
LEMMA AnswersAreRows == Answers \subseteq Rows
  <1> SUFFICES ASSUME NEW r \in Responses PROVE Classify(r) \in Rows
    BY DEF Answers
  <1>1. r.tasks \in BOOLEAN
    BY DEF Responses
  <1>2. \A status \in Statuses, ids \in BOOLEAN : Row(status, ids) \in Rows
    BY DEF Row, Rows
  <1>3. CASE r.kind \in {"none", "error", "garbled", "odd"}
    BY <1>2, <1>3 DEF Classify, Statuses
  <1>4. CASE r.kind = "limit"
    BY <1>2, <1>4 DEF Classify, Statuses
  <1>5. CASE r.kind = "empty"
    BY <1>2, <1>5 DEF Classify, Statuses
  <1>6. CASE r.kind = "object"
    <2>1. Classify(r) = Row(IF r.partial \/ r.errors THEN "PARTIAL"
                            ELSE IF r.tasks THEN "SUCCESS" ELSE "NO_TASKS", r.tasks)
      BY <1>6 DEF Classify
    <2> QED BY <2>1, <1>1, <1>2 DEF Statuses
  <1> QED BY <1>3, <1>4, <1>5, <1>6 DEF Responses

(* The rows that are no answers: none of them is resolved. *)
LEMMA OtherRows ==
    /\ NoRow \in Rows /\ Pending \in Rows /\ Invalid \in Rows
    /\ Pending # NoRow /\ Invalid # NoRow
    /\ ~Resolved(NoRow) /\ ~Resolved(Pending) /\ ~Resolved(Invalid)
    /\ ~Skipped(NoRow) /\ ~Skipped(Pending) /\ Skipped(Invalid)
  BY DEF NoRow, Pending, Invalid, Row, Rows, Statuses, Skipped, Resolved

(* What a checkpoint leaves: the rows of the input, and no others. *)
LEMMA CheckpointWrites ==
    ASSUME ResolverTypeOK, Checkpoint
    PROVE  /\ file' \in [Tables -> Rows]
           /\ {g \in Tables : file'[g] # NoRow} = sources
           /\ \A g \in sources : ~Skipped(results[g]) => ~Skipped(file'[g])
           /\ \A g \in sources : Resolved(results[g]) \/ results[g] = Invalid
                                  => file'[g] = results[g]
           /\ \A g \in sources : Resolved(file'[g]) => Resolved(results[g])
  <1>1. file' = [g \in Tables |-> IF g \notin sources THEN NoRow
                                  ELSE IF results[g] = NoRow THEN Pending ELSE results[g]]
    BY DEF Checkpoint
  <1>2. results \in [Tables -> Rows] /\ sources \subseteq Tables
    BY DEF ResolverTypeOK
  <1> QED BY <1>1, <1>2, OtherRows
-----------------------------------------------------------------------------
(* Nothing is written yet, and nothing runs. *)
THEOREM ResolverInitially == ResolverInit => ResolverInvariant
  <1> SUFFICES ASSUME ResolverInit PROVE ResolverInvariant
    OBVIOUS
  <1> USE DEF ResolverInit
  <1>1. NoRows \in [Tables -> Rows]
    BY OtherRows DEF NoRows
  <1>2. 0 \in 0..NParts /\ 0 \in 0..Retries
    BY ResolverAssumption
  <1>3. ResolverTypeOK
    BY <1>1, <1>2 DEF ResolverTypeOK
  <1> QED BY <1>3 DEF ResolverInvariant, Steps, ZeroMeansResolvedOnDisk, StoppedRunCanResume

(* The start of a run. *)
LEMMA StartKept ==
    ASSUME ResolverInvariant, NEW ps \in Inputs, Start(ps)
    PROVE  ResolverInvariant'
  <1> USE DEF ResolverInvariant
  <1>1. /\ scope' = ps /\ sources' = {g \in Tables : InParts(g, ps)}
        /\ results' = [g \in Tables |-> IF g \in sources' /\ ~Named(g, ps) THEN Invalid
                                        ELSE file[g]]
        /\ todo' = {g \in sources' : ~Skipped(results'[g])} /\ current' = {} /\ retried' = 0
        /\ pc' = (IF todo' = {} THEN "closing" ELSE "asking") /\ code' = "running"
        /\ UNCHANGED <<detail, written, file>>
    BY DEF Start, inputVars
  <1>2. results' \in [Tables -> Rows]
    BY <1>1, OtherRows DEF ResolverTypeOK
  <1>3. ps \subseteq Parts /\ 0 \in 0..Retries
    BY InputsAreParts, ResolverAssumption
  <1>4. ResolverTypeOK'
    BY <1>1, <1>2, <1>3 DEF ResolverTypeOK
  <1>5. \A g : Named(g, ps)' <=> Named(g, ps)
    BY <1>1 DEF Named
  <1>6. ASSUME NEW g \in sources'
        PROVE  /\ Named(g, ps) => results'[g] = file[g]
               /\ ~Named(g, ps) => results'[g] = Invalid
    BY <1>1
  <1>7. Faithful'
    BY <1>1, <1>5, <1>6 DEF Faithful
  <1>8. Waiting'
    BY <1>1, <1>5, <1>6, OtherRows DEF Waiting, Skipped
  <1> QED BY <1>1, <1>4, <1>7, <1>8 DEF Steps, ZeroMeansResolvedOnDisk, StoppedRunCanResume

(* A verdict of 0 speaks for every table of the input. *)
LEMMA VerdictSpeaks ==
    Verdict \in {"zero", "one"} /\ (Verdict = "zero" => \A g \in sources : Resolved(results[g]))
  BY DEF Verdict

(* A process that ends without a verdict leaves the file as it was. *)
LEMMA AbortKept ==
    ASSUME ResolverInvariant, NEW how \in {"raised", "crashed"}, Abort(how)
    PROVE  ResolverInvariant'
  <1>1. NoRows \in [Tables -> Rows] /\ 0 \in 0..Retries
    BY OtherRows, ResolverAssumption DEF NoRows
  <1> QED BY <1>1 DEF Abort, End, inputVars, ResolverInvariant, ResolverTypeOK, Steps,
                      ZeroMeansResolvedOnDisk, StoppedRunCanResume

(* One that ends with a checkpoint of all it was told to read. *)
LEMMA VerdictKept ==
    ASSUME ResolverInvariant, pc # "idle", Checkpoint, NEW how, End(how),
           UNCHANGED <<inputVars, scope, sources, todo>>,
           current' \subseteq current,
           \A g \in todo' \cup current' : ~Skipped(results[g]),
           \/ how = "two"
           \/ how \in {"zero", "one"} /\ how = Verdict
    PROVE  ResolverInvariant'
  <1> USE DEF ResolverInvariant
  <1>1. NoRows \in [Tables -> Rows] /\ 0 \in 0..Retries
    BY OtherRows, ResolverAssumption DEF NoRows
  <1>2. todo \cup current \subseteq sources
    BY DEF ResolverTypeOK
  <1>3. ResolverTypeOK'
    BY <1>1, CheckpointWrites DEF ResolverTypeOK, End, inputVars
  <1>4. StoppedRunCanResume'
    BY <1>2, CheckpointWrites DEF StoppedRunCanResume, End
  <1>5. ZeroMeansResolvedOnDisk'
    BY CheckpointWrites, VerdictSpeaks DEF ZeroMeansResolvedOnDisk, End
  <1> QED BY <1>3, <1>4, <1>5 DEF Steps, End

(* The end of a run that had nothing to ask. *)
LEMMA CloseKept ==
    ASSUME ResolverInvariant, Close
    PROVE  ResolverInvariant'
  <1>1. CASE Abort("raised")
    BY <1>1, AbortKept
  <1>2. ASSUME Checkpoint, End(Verdict), UNCHANGED <<inputVars, scope, sources, todo, current>>
        PROVE  ResolverInvariant'
    <2>1. pc = "closing" /\ todo = {} /\ current = {}
      BY DEF Close, ResolverInvariant, Steps
    <2> QED BY <1>2, <2>1, VerdictSpeaks, VerdictKept
  <1> QED BY <1>1, <1>2 DEF Close

(* One question. *)
LEMMA AskKept ==
    ASSUME ResolverInvariant, NEW g \in Tables, Ask(g)
    PROVE  ResolverInvariant'
  <1> USE DEF ResolverInvariant
  <1>1. PICK row \in Answers : results' = [results EXCEPT ![g] = row]
    BY DEF Ask
  <1>2. /\ pc = "asking" /\ pc' = "saving"
        /\ current' = {g} /\ todo' = todo \ {g}
        /\ UNCHANGED <<detail, written, file, scope, sources, retried, code>>
        /\ g \in todo \cup current
    BY DEF Ask, inputVars
  <1>3. g \in sources /\ Named(g, scope) /\ ~Resolved(file[g])
    BY <1>2 DEF Steps, Waiting, ResolverTypeOK
  <1>4. results' \in [Tables -> Rows]
    BY <1>1, AnswersAreRows DEF ResolverTypeOK
  <1>5. ResolverTypeOK'
    BY <1>2, <1>3, <1>4 DEF ResolverTypeOK
  <1>6. \A h : Named(h, scope)' <=> Named(h, scope)
    BY <1>2 DEF Named
  <1>7. \A h \in Tables : h # g => results'[h] = results[h]
    BY <1>1 DEF ResolverTypeOK
  <1>8. Steps'
    BY <1>2, <1>3, <1>6, <1>7 DEF Steps, Faithful, Waiting, ResolverTypeOK
  <1> QED BY <1>2, <1>5, <1>8 DEF Steps, ZeroMeansResolvedOnDisk, StoppedRunCanResume

(* The checkpoint after a question: the run goes on, ends, or gives up. *)
LEMMA SaveKept ==
    ASSUME ResolverInvariant, Save
    PROVE  ResolverInvariant'
  <1> USE DEF ResolverInvariant
  <1>1. pc = "saving"
    BY DEF Save
  <1>2. sources \subseteq Tables /\ todo \subseteq sources /\ current \subseteq sources \ todo
    BY DEF ResolverTypeOK
  <1>3. CASE Abort("raised")
    BY <1>3, AbortKept
  <1>4. ASSUME Checkpoint, UNCHANGED <<inputVars, scope, sources, todo>>,
               GoOn, current' \subseteq current, retried' \in 0..Retries,
               \A g \in current' : results[g].status = "RATE_LIMITED"
        PROVE  ResolverInvariant'
    <2>1. \A h \in todo \cup current' : ~Skipped(results[h])
      BY <1>1, <1>4 DEF Steps, Waiting, Skipped, Resolved
    <2>2. \A h \in todo \cup current' : ~Skipped(file'[h])
      BY <1>2, <1>4, <2>1, CheckpointWrites
    <2>3. ResolverTypeOK'
      BY <1>4, CheckpointWrites DEF GoOn, inputVars, ResolverTypeOK
    <2>4. \A h : Named(h, scope)' <=> Named(h, scope)
      BY <1>4 DEF inputVars, Named
    <2>5. Faithful'
      BY <1>1, <1>4, <2>4, CheckpointWrites DEF Steps, Faithful, GoOn
    <2>6. Waiting'
      BY <1>1, <1>4, <2>1, <2>2, <2>4 DEF Steps, Waiting, GoOn, Skipped
    <2> QED BY <1>1, <1>4, <2>3, <2>5, <2>6
            DEF Steps, GoOn, ZeroMeansResolvedOnDisk, StoppedRunCanResume
  <1>5. ASSUME Checkpoint, UNCHANGED <<inputVars, scope, sources, todo>>,
               NEW g \in current, results[g].status = "RATE_LIMITED", UNCHANGED current,
               IF LimitReached THEN End("two") ELSE GoOn /\ retried' = NextTry
        PROVE  ResolverInvariant'
    <2>1. current = {g} /\ \A h \in todo \cup current : ~Skipped(results[h])
      BY <1>1, <1>5 DEF Steps, Waiting, Skipped, Resolved
    <2>2. CASE LimitReached
      BY <1>1, <1>5, <2>1, <2>2, VerdictKept
    <2>3. CASE ~LimitReached
      <3>1. retried' \in 0..Retries
        BY <1>5, <2>3, ResolverAssumption DEF LimitReached, NextTry, ResolverTypeOK
      <3> QED BY <1>4, <1>5, <2>1, <2>3, <3>1
    <2> QED BY <2>2, <2>3
  <1>6. ASSUME Checkpoint, UNCHANGED <<inputVars, scope, sources, todo>>, current' = {},
               IF todo = {} THEN End(Verdict) ELSE GoOn /\ retried' = 0
        PROVE  ResolverInvariant'
    <2>1. CASE todo = {}
      BY <1>1, <1>6, <2>1, VerdictSpeaks, VerdictKept
    <2>2. CASE todo # {}
      <3>1. 0 \in 0..Retries
        BY ResolverAssumption
      <3> QED BY <1>4, <1>6, <2>2, <3>1
    <2> QED BY <2>1, <2>2
  <1> QED BY <1>3, <1>5, <1>6 DEF Save
-----------------------------------------------------------------------------
(* The invariant holds of every behaviour. *)
THEOREM ResolverSafe == ResolverSpec => []ResolverInvariant
  <1>1. ResolverInvariant /\ [ResolverNext]_resolverVars => ResolverInvariant'
    <2> SUFFICES ASSUME ResolverInvariant, [ResolverNext]_resolverVars
                 PROVE  ResolverInvariant'
      OBVIOUS
    <2>1. CASE UNCHANGED resolverVars
      BY <2>1 DEF resolverVars, inputVars, runVars, ResolverInvariant, ResolverTypeOK, Steps,
                  Faithful, Waiting, Named, ZeroMeansResolvedOnDisk, StoppedRunCanResume
    <2>2. CASE WritePart
      BY <2>2, ResolverAssumption
      DEF WritePart, runVars, ResolverInvariant, ResolverTypeOK, Steps,
          Faithful, Waiting, Named, ZeroMeansResolvedOnDisk, StoppedRunCanResume
    <2>3. CASE Crash
      BY <2>3, AbortKept DEF Crash
    <2> QED BY <2>1, <2>2, <2>3, StartKept, CloseKept, AskKept, SaveKept DEF ResolverNext, Run
  <1> QED BY <1>1, ResolverInitially, PTL DEF ResolverSpec

(* Every variable keeps its type; the retries stay within their bound. *)
THEOREM ResolverTyped == ResolverSpec => []ResolverTypeOK
  <1>1. ResolverInvariant => ResolverTypeOK
    BY DEF ResolverInvariant
  <1> QED BY <1>1, ResolverSafe, PTL

(* A run that answers 0 has left every table of its input resolved on disk.*)
THEOREM ResolverZero == ResolverSpec => []ZeroMeansResolvedOnDisk
  <1>1. ResolverInvariant => ZeroMeansResolvedOnDisk
    BY DEF ResolverInvariant
  <1> QED BY <1>1, ResolverSafe, PTL

(* A run that stops of its own accord leaves what the next one asks. *)
THEOREM ResolverResumes == ResolverSpec => []StoppedRunCanResume
  <1>1. ResolverInvariant => StoppedRunCanResume
    BY DEF ResolverInvariant
  <1> QED BY <1>1, ResolverSafe, PTL

(* What a checkpoint does to a resolved row of the input. *)
LEMMA CheckpointSettles ==
    ASSUME ResolverInvariant, pc # "idle", Checkpoint, NEW g \in sources, Resolved(file[g])
    PROVE  IF Named(g, scope) THEN file'[g] = file[g] ELSE file'[g] = Invalid
  BY CheckpointWrites DEF ResolverInvariant, Steps, Faithful

(* What a step does to the resolved rows of the file, by action. *)
LEMMA StepSettles ==
    ASSUME ResolverInvariant, ResolverNext, NEW g \in Tables, Resolved(file[g])
    PROVE  /\ pc = "saving" \/ current' \subseteq current \/ g \notin current'
           /\ g \in sources' /\ Named(g, scope') => file'[g] = file[g]
           /\ g \in sources' => file'[g] \in {file[g], Invalid}
  <1> USE DEF ResolverInvariant
  <1>1. CASE file' = file /\ current' \subseteq current
    BY <1>1
  <1>2. CASE WritePart \/ Crash
    BY <1>1, <1>2 DEF WritePart, Crash, Abort, runVars
  <1>3. ASSUME NEW ps \in Inputs, Start(ps) PROVE file' = file /\ current' \subseteq current
    BY <1>3 DEF Start
  <1>4. ASSUME NEW h \in Tables, Ask(h) PROVE file' = file /\ g \notin current'
    <2>1. pc = "asking" /\ current' = {h} /\ h \in todo \cup current /\ file' = file
      BY <1>4 DEF Ask
    <2> QED BY <2>1 DEF Steps, Waiting
  <1>5. CASE Close \/ Save
    <2>1. pc \in {"closing", "saving"}
      BY <1>5 DEF Close, Save
    <2>2. CASE Abort("raised")
      BY <1>1, <2>2 DEF Abort
    <2>3. ASSUME Checkpoint, UNCHANGED <<inputVars, scope, sources>>, current' \subseteq current
          PROVE  /\ g \in sources' /\ Named(g, scope') => file'[g] = file[g]
                 /\ g \in sources' => file'[g] \in {file[g], Invalid}
      <3>1. Named(g, scope') <=> Named(g, scope)
        BY <2>3
      <3> QED BY <2>1, <2>3, <3>1, CheckpointSettles
    <2>4. \/ Abort("raised")
          \/ Checkpoint /\ UNCHANGED <<inputVars, scope, sources>> /\ current' \subseteq current
      BY <1>5 DEF Close, Save
    <2> QED BY <2>2, <2>3, <2>4
  <1> QED BY <1>1, <1>2, <1>3, <1>4, <1>5 DEF ResolverNext, Run

(* A resolved row of a table that a later run reads is neither asked for   *)
(* nor changed, but for an input whose first row of it has no name.        *)
THEOREM ResolverSettles == ResolverSpec => ResolvedIsSettled
  <1>1. ResolverInvariant /\ [ResolverNext]_resolverVars =>
          [\A g \in Tables : Resolved(file[g]) =>
             /\ pc = "saving" \/ current' \subseteq current \/ g \notin current'
             /\ g \in sources' /\ Named(g, scope') => file'[g] = file[g]
             /\ g \in sources' => file'[g] \in {file[g], Invalid}]_resolverVars
    BY StepSettles
  <1> QED BY <1>1, ResolverSafe, PTL DEF ResolverSpec, ResolvedIsSettled
=============================================================================
