--------------------------- MODULE LineageCrawler ---------------------------
(***************************************************************************)
(* scripts/crawl_szdata_downstream.py: from the seed tables the platform   *)
(* is asked for the tables downstream of each table, batch by batch.  The  *)
(* answers of a batch are processed one at a time, in the order in which   *)
(* they arrive, and then saved: the query results in one part file, the    *)
(* direct edges in another.  A table is expanded only if its database is   *)
(* known, from its name, a hint or its detail, and is no terminal DM       *)
(* database.  A later run may resume from the part files.                  *)
(*                                                                         *)
(* The parts of a directory are read in order and the last row of a table  *)
(* counts, so a directory is a function of the tables.  A call to the      *)
(* platform stands for all its retries.  The process may die at any step;  *)
(* a part it was writing then holds some of its rows.  The limits on the   *)
(* hops and on the databases are left at their defaults (none).            *)
(***************************************************************************)
EXTENDS FiniteSets, Naturals

CONSTANTS
    Nodes,      \* tables; another kind of node behaves as a terminal one
    Seeds,
    Worlds,     \* what the platform may hold: see World
    BatchSize,
    Caps        \* values of max_queried_nodes; 0 is none

ASSUME CrawlAssumption ==
    /\ IsFiniteSet(Nodes) /\ Seeds \subseteq Nodes
    /\ BatchSize \in Nat \ {0} /\ Caps \subseteq Nat

(* The platform: the tables downstream of each, whether it may be expanded *)
(* once its database is known, whether that shows without its detail, and  *)
(* the tables it may answer for with JSON that is not a list.              *)
World == [children : [Nodes -> SUBSET Nodes], open : SUBSET Nodes, hinted : SUBSET Nodes,
          odd : SUBSET Nodes]

ASSUME WorldsAssumption == Worlds \subseteq World

VARIABLES
    world,
    \* the output directory
    status,     \* query-results
    edges,      \* direct-edges
    named,      \* the tables whose first edge row gives their database
    details,    \* table-details
    manifest,   \* the status of manifest.json
    \* the process
    pc,
    resumed,    \* --resume
    cap,        \* --max-queried-nodes
    queried,    \* the answers in memory
    graph,      \* direct_edges
    tried,      \* detail_cache
    retryable,  \* detail_retryable
    missing,    \* tables whose detail this round of the resume asks for
    frontier,   \* what the next round may ask
    pending,    \* what this round has still to ask
    batch,      \* the calls under way
    answered,   \* answers of this batch
    unsaved,    \* edges found in it
    complete,   \* traversal_complete
    \* history
    gap         \* a crash has fallen between the two parts of a batch

disk == <<status, edges, named, details, manifest>>
loaded == <<resumed, cap>>
asking == <<frontier, pending, batch, answered, unsaved, complete>>
memory == <<queried, graph, tried, retryable>>
crawlVars == <<world, disk, pc, loaded, memory, missing, asking, gap>>

Nothing == [n \in Nodes |-> "none"]

Idle ==
    /\ pc = "idle" /\ resumed = FALSE /\ cap = 0
    /\ queried = Nothing /\ graph = {} /\ tried = Nothing /\ retryable = {}
    /\ missing = {} /\ frontier = {} /\ pending = {} /\ batch = {} /\ answered = {}
    /\ unsaved = {} /\ complete = TRUE

Stop ==                 \* the process ends, and its memory with it: Idle'
    /\ pc' = "idle" /\ resumed' = FALSE /\ cap' = 0
    /\ queried' = Nothing /\ graph' = {} /\ tried' = Nothing /\ retryable' = {}
    /\ missing' = {} /\ frontier' = {} /\ pending' = {} /\ batch' = {} /\ answered' = {}
    /\ unsaved' = {} /\ complete' = TRUE

CrawlInit ==
    /\ world \in Worlds
    /\ status = Nothing /\ edges = {} /\ named = {} /\ details = Nothing /\ manifest = "none"
    /\ Idle
    /\ gap = FALSE

-----------------------------------------------------------------------------
Ends(arcs) == UNION {{e[1], e[2]} : e \in arcs}
Known == Seeds \cup Ends(graph)                             \* known_nodes

HasDb(n) == n \in world.hinted \/ tried[n] = "db" \/ (resumed /\ n \in named)

ExpandUnknown(n) == HasDb(n) => n \in world.open    \* mutant: no database is no stop
CanExpand(n) == HasDb(n) /\ n \in world.open                \* can_expand()

FetchUntilFound(n) == ~HasDb(n) /\ tried[n] \in {"none", "FAILED"}
                        \* mutant: a failed detail is asked again and again
Fetchable(n) == ~HasDb(n) /\ (tried[n] = "none" \/ n \in retryable)

Some(S, k) ==           \* the next k of S, in an order that is left out
    {T \in SUBSET S : Cardinality(T) = IF k < Cardinality(S) THEN k ELSE Cardinality(S)}

(* reachable_resume_frontier(): the traversal passes the tables that have  *)
(* been answered and may be expanded; it stops at the others.              *)

Passed(n) == CanExpand(n) /\ queried[n] = "SUCCESS"
Follows(S) == Seeds \subseteq S /\ \A e \in graph : e[1] \in S /\ Passed(e[1]) => e[2] \in S
Reached == {n \in Nodes : \A S \in SUBSET Nodes : Follows(S) => n \in S}

ResumeFrontier == {n \in Reached : CanExpand(n) /\ queried[n] # "SUCCESS"}
MissingDetails == {n \in Reached : Fetchable(n) /\ \E e \in graph : e[2] = n /\ Passed(e[1])}

-----------------------------------------------------------------------------
(* The start of main(), and the rounds of details of a resumed run.        *)

Fresh(c) ==
    /\ pc = "idle"
    /\ pc' = "round" /\ cap' = c
    /\ frontier' = Seeds \cap world.hinted \cap world.open
    /\ UNCHANGED <<world, disk, resumed, memory, missing, pending, batch, answered, unsaved,
                   complete, gap>>

NotFound(t) == {n \in Nodes : t[n] # "db"}     \* mutant: a blank detail is asked again too
Failed(t) == {n \in Nodes : t[n] = "FAILED"}

Resume(c) ==
    /\ pc = "idle"
    /\ pc' = "details" /\ cap' = c /\ resumed' = TRUE
    /\ queried' = status /\ graph' = edges /\ tried' = details
    /\ retryable' = Failed(details)
    /\ UNCHANGED <<world, disk, missing, asking, gap>>

Reconsider ==
    /\ pc = "details" /\ missing = {}
    /\ missing' = MissingDetails
    /\ IF MissingDetails = {}
       THEN frontier' = ResumeFrontier /\ pc' = "round"
       ELSE UNCHANGED <<frontier, pc>>
    /\ UNCHANGED <<world, disk, loaded, memory, pending, batch, answered, unsaved, complete, gap>>

Found == {"FAILED", "blank", "db"}      \* blank: a detail without a database

With(seen, found) ==    \* the details seen, and those found after them
    [n \in Nodes |-> IF n \in DOMAIN found THEN found[n] ELSE seen[n]]

(* One batch of resolve_missing_details(), with its part. *)
FetchDetails ==
    /\ pc = "details" /\ missing # {}
    /\ \E B \in Some(missing, BatchSize) : \E found \in [B -> Found] :
         /\ tried' = With(tried, found) /\ details' = With(details, found)
         /\ retryable' = retryable \ B
         /\ missing' = missing \ B
    /\ UNCHANGED <<world, status, edges, named, manifest, pc, loaded, queried, graph, asking, gap>>

-----------------------------------------------------------------------------
(* The loop over rounds and batches.                                       *)

Asked == {n \in Nodes : queried[n] # "none"}
Left == cap - Cardinality(Asked)
Unheard == frontier     \* mutant: results are not looked at
Unanswered == {n \in frontier : queried[n] # "SUCCESS"}

Round ==
    /\ pc = "round"
    /\ frontier' = {}
    /\ \/ /\ Unanswered = {}
          /\ pc' = "finish" /\ UNCHANGED <<pending, complete>>
       \/ /\ Unanswered # {} /\ cap > 0 /\ cap <= Cardinality(Asked)
          /\ complete' = FALSE
          /\ pc' = "finish" /\ UNCHANGED pending
       \/ /\ Unanswered # {} /\ (cap = 0 \/ cap > Cardinality(Asked))
          /\ pending' \in IF cap = 0 THEN {Unanswered} ELSE Some(Unanswered, Left)
          /\ pc' = "batch" /\ UNCHANGED complete
    /\ UNCHANGED <<world, disk, loaded, memory, missing, batch, answered, unsaved, gap>>

NextBatch ==
    /\ pc = "batch" /\ pending # {}
    /\ batch' \in Some(pending, BatchSize)
    /\ pending' = pending \ batch'
    /\ answered' = {} /\ unsaved' = {}
    /\ pc' = "answers"
    /\ UNCHANGED <<world, disk, loaded, memory, missing, frontier, complete, gap>>

EndOfRound ==
    /\ pc = "batch" /\ pending = {}
    /\ IF cap > 0 /\ cap <= Cardinality(Asked) /\ frontier # {}
       THEN complete' = FALSE /\ pc' = "finish"
       ELSE pc' = "round" /\ UNCHANGED complete
    /\ UNCHANGED <<world, disk, loaded, memory, missing, frontier, pending, batch, answered,
                   unsaved, gap>>

(* One answer: a child whose database is not known has its detail fetched  *)
(* on the spot, which is kept in memory only.                              *)

Heard(n) ==
    /\ n \in batch
    /\ batch' = batch \ {n} /\ answered' = answered \cup {n}
    /\ pc' = IF batch = {n} THEN "saveQueries" ELSE "answers"

Answer(n) ==
    /\ pc = "answers"
    /\ UNCHANGED <<world, disk, loaded, missing, pending, complete, gap>>
    /\ Heard(n)
    /\ queried' = [queried EXCEPT ![n] = "SUCCESS"]
    /\ LET kids == world.children[n]
           ask == {c \in kids : c \notin world.hinted /\ (tried[c] = "none" \/ c \in retryable)}
       IN  /\ \E found \in [ask -> Found] :
                tried' = [c \in Nodes |-> IF c \in ask THEN found[c] ELSE tried[c]]
           /\ retryable' = retryable \ ask
           /\ graph' = graph \cup ({n} \X kids)
           /\ unsaved' = unsaved \cup (({n} \X kids) \ graph)
           /\ frontier' = frontier \cup {c \in kids : CanExpand(c)' /\ queried'[c] = "none"}

AnswerFails(n) ==
    /\ pc = "answers"
    /\ Heard(n)
    /\ queried' = [queried EXCEPT ![n] = "FAILED"]
    /\ UNCHANGED <<world, disk, loaded, graph, tried, retryable, missing, frontier, pending,
                   unsaved, complete, gap>>

(* JSON that is not a list counts as an answer without tables. *)
AnswerOdd(n) ==
    /\ pc = "answers" /\ n \in world.odd
    /\ Heard(n)
    /\ queried' = [queried EXCEPT ![n] = "SUCCESS"]
    /\ UNCHANGED <<world, disk, loaded, graph, tried, retryable, missing, frontier, pending,
                   unsaved, complete, gap>>

-----------------------------------------------------------------------------
(* The two parts of a batch.                                               *)

PutQueries(S) == status' = [n \in Nodes |-> IF n \in S THEN queried[n] ELSE status[n]]

(* The first row of a table gives its database; the seeds come first. *)
Told(arcs) == {n \in Ends(arcs) \ (Ends(edges) \cup Seeds) : n \in world.hinted \/ tried[n] = "db"}
PutEdges(arcs) == edges' = edges \cup arcs /\ named' = named \cup Told(arcs)

SaveQueries ==
    /\ pc = "saveQueries"
    /\ PutQueries(answered)
    /\ pc' = "saveEdges"
    /\ UNCHANGED <<world, edges, named, details, manifest, loaded, memory, missing, asking, gap>>

SaveFewer ==            \* mutant: edges to tables that will not be expanded are dropped
    /\ pc = "saveEdges"
    /\ PutEdges({e \in unsaved : CanExpand(e[2])})
    /\ pc' = "batch"
    /\ UNCHANGED <<world, status, details, manifest, loaded, memory, missing, asking, gap>>

SaveEdges ==
    /\ pc = "saveEdges"
    /\ PutEdges(unsaved)
    /\ pc' = "batch"
    /\ UNCHANGED <<world, status, details, manifest, loaded, memory, missing, asking, gap>>

(* The manifest; eligible_unqueried_nodes is Eligible. *)
NoneEligible == {}      \* mutant: what was left unasked does not count
Eligible == {n \in Known : CanExpand(n) /\ queried[n] # "SUCCESS"}

ManifestStatus ==
    IF /\ complete /\ Eligible = {}
       /\ \A n \in Nodes : queried[n] # "FAILED" /\ tried[n] # "FAILED"
    THEN "SUCCESS" ELSE "PARTIAL"

Finish ==
    /\ pc = "finish"
    /\ manifest' = ManifestStatus
    /\ Stop
    /\ UNCHANGED <<world, status, edges, named, details, gap>>

(* The process dies.  A part it was writing is there with some of its      *)
(* rows, or not at all; the manifest is as it was, or torn.                *)
Crash ==
    /\ pc # "idle"
    /\ Stop
    /\ \/ UNCHANGED disk
       \/ /\ pc = "details"
          /\ \E S \in SUBSET missing : \E found \in [S -> Found] :
               Cardinality(S) <= BatchSize /\ details' = With(details, found)
          /\ UNCHANGED <<status, edges, named, manifest>>
       \/ /\ pc = "saveQueries"
          /\ \E S \in SUBSET answered : PutQueries(S)
          /\ UNCHANGED <<edges, named, details, manifest>>
       \/ /\ pc = "saveEdges"
          /\ \E arcs \in SUBSET unsaved : PutEdges(arcs)
          /\ UNCHANGED <<status, details, manifest>>
       \/ /\ pc = "finish" /\ manifest' = "torn"
          /\ UNCHANGED <<status, edges, named, details>>
    /\ gap' = (gap \/ status' # status \/ pc = "saveEdges")
    /\ UNCHANGED world

CrawlStep ==
    \/ Reconsider \/ FetchDetails
    \/ Round \/ NextBatch \/ EndOfRound
    \/ \E n \in Nodes : Answer(n) \/ AnswerFails(n) \/ AnswerOdd(n)
    \/ SaveQueries \/ SaveEdges \/ Finish

CrawlNext ==
    \/ \E c \in Caps : Fresh(c) \/ Resume(c)
    \/ CrawlStep
    \/ Crash

(* Every call of the crawler has a timeout, so a run takes its steps. *)
CrawlSpec == CrawlInit /\ [][CrawlNext]_crawlVars /\ WF_crawlVars(CrawlStep)
-----------------------------------------------------------------------------
Answers == {"none", "FAILED", "SUCCESS"}

(* The type invariant.  Only a detail that failed is asked for again, and  *)
(* a call under way is no longer pending.                                  *)
CrawlTypeOK ==
    /\ world \in Worlds
    /\ status \in [Nodes -> Answers] /\ queried \in [Nodes -> Answers]
    /\ edges \subseteq Nodes \X Nodes /\ graph \subseteq Nodes \X Nodes
    /\ details \in [Nodes -> Found \cup {"none"}] /\ tried \in [Nodes -> Found \cup {"none"}]
    /\ named \subseteq Nodes /\ manifest \in {"none", "SUCCESS", "PARTIAL", "torn"}
    /\ pc \in {"idle", "details", "round", "batch", "answers", "saveQueries", "saveEdges", "finish"}
    /\ resumed \in BOOLEAN /\ cap \in Caps \cup {0}
    /\ retryable \subseteq {n \in Nodes : tried[n] = "FAILED"} /\ missing \subseteq Nodes
    /\ frontier \subseteq Nodes /\ pending \subseteq Nodes /\ batch \subseteq Nodes \ pending
    /\ answered \subseteq Nodes /\ unsaved \subseteq graph
    /\ complete \in BOOLEAN /\ gap \in BOOLEAN

Traced(n) == {n} \X world.children[n] \subseteq edges

(* A table whose query result is on disk as SUCCESS is not asked again by  *)
(* a resumed run; so its edges had better be on disk: they are, whatever   *)
(* calls failed and whatever runs were resumed before.  There are two      *)
(* exceptions: a crash between the two parts, and a table for which the    *)
(* platform may answer with JSON that is no list, which counts as SUCCESS. *)
SuccessIsTraced ==
    ~gap /\ pc # "saveEdges" =>
      \A n \in Nodes \ world.odd : status[n] = "SUCCESS" => Traced(n)

(* No table is asked for unless it may be expanded: an unknown database, a *)
(* failed detail or a terminal DM database is a boundary, in the run that  *)
(* saw it and in every run that resumes.                                   *)
BoundaryHolds == \A n \in Nodes : status[n] # "none" \/ n \in batch => n \in world.open

(* What the operation's document says of a run that ends with a final      *)
(* manifest: the closure is complete, every table it has reached was       *)
(* treated by the DM rules.  So those that may be expanded are traced.  It *)
(* is so, over any number of crashes, resumed runs and failed calls, but   *)
(* for the two exceptions of SuccessIsTraced: after a crash between the    *)
(* two parts of a batch, and of a table the platform may answer for with   *)
(* JSON that is no list, the manifest may say SUCCESS all the same.        *)
ClosedUnlessGap ==
    ~gap /\ pc = "finish" /\ ManifestStatus = "SUCCESS" =>
      \A n \in Known \ world.odd : CanExpand(n) => Traced(n)

(* A resumed run does not ask again for what is on disk as SUCCESS. *)
SuccessNotAskedAgain ==
    [][\A n \in batch' \ batch : resumed => status[n] # "SUCCESS"]_crawlVars

(* A run ends: cycles in the lineage and answers that fail do not keep it  *)
(* going, and a failed detail is asked for once in a run.                  *)
CrawlEnds == pc # "idle" ~> pc = "idle"
=============================================================================
