---------------------------- MODULE TaskResolver ----------------------------
(***************************************************************************)
(* scripts/resolve_downstream_task_ids.py: the tables named in the part    *)
(* files of a crawl are looked up one at a time, every answer is written   *)
(* to a mapping file before the next question, and a later run goes on     *)
(* from that file.  The crawl may still be adding parts, and a run may be  *)
(* given the directory, its first parts, or a single part.  The process    *)
(* may die at any step, the platform may refuse, and a write may fail.     *)
(*                                                                         *)
(* The order of the rows is left out: a run takes its pending tables in    *)
(* some order.  So are the attempt count, the times and the waits.  A row  *)
(* is its status and whether it holds task ids; FAILED stands for TIMEOUT, *)
(* AUTH_REQUIRED, COMMAND_ERROR and PARSE_ERROR.  Of a run that has        *)
(* returned, what it read and what it left unasked is kept for the         *)
(* properties to speak of; the next start forgets it.                      *)
(***************************************************************************)
EXTENDS Naturals

CONSTANTS
    Tables,     \* table guids
    NParts,     \* how many part files the crawl writes in all
    Retries     \* rate_limit_retries

ASSUME ResolverAssumption == NParts \in Nat /\ Retries \in Nat

Parts == 1..NParts

VARIABLES
    \* the crawl's output: external to the resolver
    detail,     \* for each table and part, the row there is
    written,    \* how many parts there are so far
    \* the mapping file
    file,
    \* the process
    pc,         \* the next step
    scope,      \* the parts it reads
    sources,    \* the tables of its input
    results,    \* the mapping in memory
    todo,       \* pending tables not yet asked
    current,    \* the table being asked: a set of at most one
    retried,    \* rate_limit_attempt
    code        \* how the last run ended

inputVars == <<detail, written>>
runVars == <<scope, sources, results, todo, current, retried>>
resolverVars == <<inputVars, file, pc, runVars, code>>

Row(status, ids) == [status |-> status, ids |-> ids]
NoRow == Row("none", FALSE)
NoRows == [g \in Tables |-> NoRow]
Invalid == Row("INPUT_INVALID", FALSE)
Pending == Row("PENDING", FALSE)

Resolved(row) == row.status \in {"SUCCESS", "NO_TASKS"}

(* The crawl stops asking for a table's detail once it has a name. *)
Histories == {h \in [Parts -> {"absent", "unnamed", "named"}] :
                \A p, q \in Parts : p < q /\ h[p] = "named" => h[q] = "absent"}

ResolverInit ==
    /\ detail \in [Tables -> Histories] /\ written = 0
    /\ file = NoRows
    /\ pc = "idle" /\ scope = {} /\ sources = {} /\ results = file
    /\ todo = {} /\ current = {} /\ retried = 0 /\ code = "none"

WritePart ==
    /\ written < NParts
    /\ written' = written + 1
    /\ UNCHANGED <<detail, file, pc, runVars, code>>

-----------------------------------------------------------------------------
(* classify_response() and query_table().                                  *)

Responses ==
    [kind : {"none", "limit", "error", "garbled", "odd", "empty", "object"},
     partial : BOOLEAN, errors : BOOLEAN, tasks : BOOLEAN]
    \* none: no process or a timeout; empty: no item in the payload

Classify(r) ==
    CASE r.kind \in {"none", "error", "garbled", "odd"} -> Row("FAILED", FALSE)
      [] r.kind = "limit" -> Row("RATE_LIMITED", FALSE)
      [] r.kind = "empty" -> Row("NO_TASKS", FALSE)
      [] OTHER -> Row(IF r.partial \/ r.errors THEN "PARTIAL"
                      ELSE IF r.tasks THEN "SUCCESS" ELSE "NO_TASKS", r.tasks)

Answers == {Classify(r) : r \in Responses}

(* _input_files(): the first parts of a directory, up to max_input_files,  *)
(* or one part file.  load_input_rows(): the first row of a table counts.  *)

Inputs == {{p \in 1..written : p <= k} : k \in Parts} \cup {{p} : p \in 1..written}

InParts(g, ps) == \E p \in ps : detail[g][p] # "absent"
Named(g, ps) == \E p \in ps : /\ detail[g][p] = "named"
                              /\ \A q \in ps : q < p => detail[g][q] = "absent"

AskedAgain(row) == row.status = "INPUT_INVALID"     \* mutant: resolved rows are asked again
Skipped(row) == Resolved(row) \/ row.status = "INPUT_INVALID"

OnlyAnswered ==         \* mutant: what has not been asked is dropped
    file' = [g \in Tables |-> IF g \in sources THEN results[g] ELSE NoRow]

Checkpoint ==           \* _atomic_write() of _checkpoint_rows()
    file' = [g \in Tables |-> IF g \notin sources THEN NoRow
                              ELSE IF results[g] = NoRow THEN Pending ELSE results[g]]

End(how) == pc' = "idle" /\ code' = how /\ results' = NoRows /\ retried' = 0
Abort(how) ==           \* without a verdict; the mapping file stays as it is
    /\ End(how)
    /\ scope' = {} /\ sources' = {} /\ todo' = {} /\ current' = {}
    /\ UNCHANGED <<inputVars, file>>
GoOn == pc' = "asking" /\ UNCHANGED <<code, results>>

VerdictOfLast == IF \A g \in current : Resolved(results[g]) THEN "zero" ELSE "one"
                        \* mutant: earlier failures are forgotten
Verdict == IF \A g \in sources : Resolved(results[g]) THEN "zero" ELSE "one"

(* The start of run().  A table whose first row in the input has no name   *)
(* is invalid, whatever the mapping file says of it.                       *)
Start(ps) ==
    /\ pc = "idle"
    /\ scope' = ps
    /\ sources' = {g \in Tables : InParts(g, ps)}
    /\ results' = [g \in Tables |-> IF g \in sources' /\ ~Named(g, ps) THEN Invalid
                                    ELSE file[g]]
    /\ todo' = {g \in sources' : ~Skipped(results'[g])}
    /\ current' = {} /\ retried' = 0
    /\ pc' = IF todo' = {} THEN "closing" ELSE "asking"
    /\ code' = "running"
    /\ UNCHANGED <<inputVars, file>>

(* Nothing is pending: the file is written once, for the new scope. *)
Close ==
    /\ pc = "closing"
    /\ \/ /\ Checkpoint /\ End(Verdict)
          /\ UNCHANGED <<inputVars, scope, sources, todo, current>>
       \/ Abort("raised")

Ask(g) ==
    /\ pc = "asking"
    /\ IF current = {} THEN g \in todo ELSE g \in current
    /\ \E row \in Answers : results' = [results EXCEPT ![g] = row]
    /\ current' = {g} /\ todo' = todo \ {g}
    /\ pc' = "saving"
    /\ UNCHANGED <<inputVars, file, scope, sources, retried, code>>

LimitIgnored == FALSE                   \* mutant: the retries have no bound
LimitReached == retried >= Retries

SameTry == retried                      \* mutant: a retry is not counted
NextTry == retried + 1

(* The checkpoint, and what the answer means for the loop. *)
Save ==
    /\ pc = "saving"
    /\ \/ /\ Checkpoint
          /\ \E g \in current :
               IF results[g].status = "RATE_LIMITED"
               THEN /\ UNCHANGED current
                    /\ IF LimitReached THEN End("two") ELSE GoOn /\ retried' = NextTry
               ELSE /\ current' = {}
                    /\ IF todo = {} THEN End(Verdict) ELSE GoOn /\ retried' = 0
          /\ UNCHANGED <<inputVars, scope, sources, todo>>
       \/ Abort("raised")

Crash == pc # "idle" /\ Abort("crashed")

Run == Close \/ (\E g \in Tables : Ask(g)) \/ Save

ResolverNext ==
    \/ WritePart
    \/ \E ps \in Inputs : Start(ps)
    \/ Run
    \/ Crash

(* A started run takes its steps: it waits for nothing but a subprocess    *)
(* with a timeout.                                                         *)
ResolverSpec == ResolverInit /\ [][ResolverNext]_resolverVars /\ WF_resolverVars(Run)
-----------------------------------------------------------------------------
Statuses == {"PENDING", "INPUT_INVALID", "SUCCESS", "NO_TASKS", "PARTIAL", "RATE_LIMITED", "FAILED"}
Rows == [status : Statuses \cup {"none"}, ids : BOOLEAN]

(* The type invariant. *)
ResolverTypeOK ==
    /\ detail \in [Tables -> Histories] /\ written \in 0..NParts
    /\ file \in [Tables -> Rows] /\ results \in [Tables -> Rows]
    /\ pc \in {"idle", "closing", "asking", "saving"}
    /\ scope \subseteq Parts /\ sources \subseteq Tables /\ todo \subseteq sources
    /\ current \subseteq sources \ todo
    /\ retried \in 0..Retries
    /\ code \in {"none", "running", "zero", "one", "two", "raised", "crashed"}

(* A run that answers 0 has left, for every table of its input, a resolved *)
(* row in the mapping file: not only in memory, and whatever runs over     *)
(* other inputs, crashes and failed writes came before it.                 *)
ZeroMeansResolvedOnDisk ==
    pc = "idle" /\ code = "zero" => \A g \in sources : Resolved(file[g])

(* A run that stops of its own accord, the rate limit's stop included,     *)
(* leaves a file for exactly the tables of its input, in which every table *)
(* it did not get an answer for is one that the next run asks.             *)
StoppedRunCanResume ==
    code \in {"zero", "one", "two"} =>
      /\ {g \in Tables : file[g] # NoRow} = sources
      /\ \A g \in todo \cup current : ~Skipped(file[g])

(* A resolved row of a table that a later run reads is not asked for again *)
(* and not changed, however that run ends.  There is one exception: a run  *)
(* over an input in which the first row of the table has no name, as a run *)
(* over the directory may follow one over a later part.  It writes the row *)
(* over as invalid, and does not ask for it either.                        *)
ResolvedIsSettled ==
    [][\A g \in Tables : Resolved(file[g]) =>
         /\ pc = "saving" \/ current' \subseteq current \/ g \notin current'
         /\ g \in sources' /\ Named(g, scope') => file'[g] = file[g]
         /\ g \in sources' => file'[g] \in {file[g], Invalid}]_resolverVars

(* A run that is started ends: the loop over the tables and the retries    *)
(* under rate limiting inside it are bounded, whatever the platform says.  *)
RunsEnd == pc # "idle" ~> pc = "idle"
=============================================================================
