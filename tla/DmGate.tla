------------------------------- MODULE DmGate -------------------------------
(***************************************************************************)
(* Which tables downstream of a seed have been reached through a DM        *)
(* database, and at how many hops.  The question is answered twice: by the *)
(* loop at the end of scripts/crawl_szdata_downstream.py, for range/, and  *)
(* by scripts/machine-facts/downstream-lineage-adapter.ts, for the facts   *)
(* of a task, which first selects the edges the task owns and then walks   *)
(* these.  All three loops are breadth-first over pairs of a table and of  *)
(* whether a DM database lies behind it; they differ in where a pair is    *)
(* marked as visited and in what stops a branch.                           *)
(*                                                                         *)
(* A step is one turn of a loop: a pair is taken from the queue and its    *)
(* children are looked at in the order of their guids.  Names, types and   *)
(* databases are left out but for what they tell of a table: its kind.     *)
(* Both programs are given the same kinds and the same edges.              *)
(***************************************************************************)
EXTENDS Integers, Sequences, FiniteSetsExt

CONSTANTS
    N,          \* the tables are 1..N, in the order of their guids
    Kinds,
    SeedSets    \* the seeds one task owns

Tables == 1..N
Nobody == 0
AllKinds == {"plain", "otc", "dm", "unknown", "observed", "observedDm"}
    \* otc: in the DM database that is passed through; unknown: the database is not known;
    \* observed, observedDm: not a table, of no database and of a DM database

ASSUME GateAssumption == N \in Nat \ {0} /\ Kinds \subseteq AllKinds /\ SeedSets \subseteq SUBSET Tables

VARIABLES
    kind, arcs, seeds,  \* what both programs are given
    loop,               \* the loop: "range", "edges", "scope", or "done"
    left,               \* the seeds it has still to start from
    seed, queue, visited,
    range,              \* range_rows
    selected,           \* the edges of the task
    scope               \* the records of deriveDmGatedScope()

given == <<kind, arcs, seeds>>
gateVars == <<given, loop, left, seed, queue, visited, range, selected, scope>>

(* What is no table is never asked for what is downstream of it. *)
Crawled(k) == {n \in Tables : k[n] \notin {"observed", "observedDm"}}

GateInit ==
    /\ kind \in [Tables -> Kinds]
    /\ arcs \in SUBSET (Crawled(kind) \X Tables)
    /\ seeds \in SeedSets /\ seeds \subseteq Crawled(kind)
    /\ loop = "range" /\ left = seeds
    /\ seed = Nobody /\ queue = <<>> /\ visited = {}
    /\ range = {} /\ selected = {} /\ scope = {}

-----------------------------------------------------------------------------
RangeDm(n) == kind[n] \in {"otc", "dm"}                     \* of tables only
ScopeDm(n) == kind[n] \in {"otc", "dm", "observedDm"}       \* of any node
Resolved(n) == kind[n] \notin {"unknown", "observed"}

(* A pair in the queue, with the hop and the first DM table before it. *)
Start(s, isDm) == [node |-> s, hop |-> 0, dm |-> isDm, first |-> IF isDm THEN s ELSE Nobody]
After(p, c, isDm) ==
    [node |-> c, hop |-> p.hop + 1, dm |-> p.dm \/ isDm,
     first |-> IF p.first = Nobody /\ isDm THEN c ELSE p.first]

(* One row for a seed and a table: the one of the least hop. *)
RecordLast(rows, s, q) ==       \* mutant: a later row takes the place of a nearer one
    {r \in rows : <<r.seed, r.node>> # <<s, q.node>>}
      \cup {[seed |-> s, node |-> q.node, hop |-> q.hop, first |-> q.first]}
Record(rows, s, q) ==
    IF \E r \in rows : r.seed = s /\ r.node = q.node /\ r.hop <= q.hop
    THEN rows
    ELSE RecordLast(rows, s, q)

(* The crawler's loop: a pair is marked as it enters the queue. *)
MarkNode(q) == <<q.node, FALSE>>        \* mutant: a table is visited once
Mark(q) == <<q.node, q.dm>>

RangeChild(s, p, b, c) ==
    LET q == After(p, c, RangeDm(c))
        stops == kind[c] \in {"unknown", "dm"} \/ Mark(q) \in b.visited
    IN  [queue |-> IF stops THEN b.queue ELSE Append(b.queue, q),
         visited |-> IF stops THEN b.visited ELSE b.visited \cup {Mark(q)},
         rows |-> IF q.dm THEN Record(b.rows, s, q) ELSE b.rows]

(* The turns of the loop over the children of p, in the order of the guids. *)
RangeTurns(s, p, b0) ==
    LET after[c \in 0..N] ==
          IF c = 0 THEN b0
          ELSE IF <<p.node, c>> \in arcs THEN RangeChild(s, p, after[c - 1], c)
          ELSE after[c - 1]
    IN  after

RangeStep ==
    LET b == [queue |-> Tail(queue), visited |-> visited, rows |-> range]
        done == RangeTurns(seed, Head(queue), b)[N]
    IN  /\ queue' = done.queue /\ visited' = done.visited /\ range' = done.rows
        /\ UNCHANGED <<selected, scope>>

(* The adapter's two loops: a pair is marked as it leaves the queue.  An   *)
(* unresolved table stops a branch, before a DM database without a record. *)
PassesUnknown(c) == ~(ScopeDm(c) /\ kind[c] # "otc")        \* mutant: unresolved is no stop
Passes(c) == Resolved(c) /\ ~(ScopeDm(c) /\ kind[c] # "otc")

AdapterChild(s, p, b, c) ==
    LET q == After(p, c, ScopeDm(c))
    IN  [queue |-> IF Passes(c) THEN Append(b.queue, q) ELSE b.queue,
         rows |-> IF q.dm /\ (p.dm \/ Resolved(c)) THEN Record(b.rows, s, q) ELSE b.rows]

AdapterTurns(s, p, from, b0) ==
    LET after[c \in 0..N] ==
          IF c = 0 THEN b0
          ELSE IF <<p.node, c>> \in from THEN AdapterChild(s, p, after[c - 1], c)
          ELSE after[c - 1]
    IN  after

(* What a turn leaves of the queue and of the records, the marked pairs    *)
(* skipped; the loop that selects the edges has no records.                *)
Skip == Mark(Head(queue)) \in visited
AdapterTurn(from, rows) ==
    LET b == [queue |-> Tail(queue), rows |-> rows]
    IN  IF Skip THEN b ELSE AdapterTurns(seed, Head(queue), from, b)[N]

EdgesPassed ==          \* mutant: the edges that end a branch are not the task's
    /\ queue' = AdapterTurn(arcs, {}).queue
    /\ selected' = IF Skip THEN selected
                   ELSE selected \cup {a \in arcs : a[1] = Head(queue).node /\ Passes(a[2])}
    /\ UNCHANGED scope

EdgesStep ==            \* deriveDmGatedLineageEdges()
    /\ queue' = AdapterTurn(arcs, {}).queue
    /\ selected' = IF Skip THEN selected
                   ELSE selected \cup {a \in arcs : a[1] = Head(queue).node}
    /\ UNCHANGED scope

ScopeStep ==            \* deriveDmGatedScope(), over the edges of the task
    LET done == AdapterTurn(selected, scope)
    IN  /\ queue' = done.queue /\ scope' = done.rows
        /\ UNCHANGED selected

AdapterStep ==
    /\ IF loop = "edges" THEN EdgesStep ELSE ScopeStep
    /\ visited' = visited \cup {Mark(Head(queue))}
    /\ UNCHANGED range

Turn ==
    /\ queue # <<>>
    /\ IF loop = "range" THEN RangeStep ELSE AdapterStep
    /\ UNCHANGED <<given, loop, left, seed>>

NextSeed ==
    /\ loop # "done" /\ queue = <<>> /\ left # {}
    /\ LET s == Min(left)
           start == Start(s, IF loop = "range" THEN RangeDm(s) ELSE ScopeDm(s))
       IN  /\ seed' = s /\ left' = left \ {s}
           /\ queue' = <<start>>
           /\ visited' = IF loop = "range" THEN {Mark(start)} ELSE {}
    /\ UNCHANGED <<given, loop, range, selected, scope>>

NextLoop ==
    /\ loop # "done" /\ queue = <<>> /\ left = {}
    /\ loop' = CASE loop = "range" -> "edges" [] loop = "edges" -> "scope" [] loop = "scope" -> "done"
    /\ left' = IF loop' = "done" THEN {} ELSE seeds
    /\ seed' = Nobody /\ visited' = {}
    /\ UNCHANGED <<given, queue, range, selected, scope>>

GateNext == Turn \/ NextSeed \/ NextLoop

GateSpec == GateInit /\ [][GateNext]_gateVars
-----------------------------------------------------------------------------
(* The rule of the gate, by walks instead of by a queue.  A walk from s    *)
(* may go on from any table but one of an unknown or a terminal database,  *)
(* s itself excepted; Ends[k] are the pairs at the end of one of k hops.   *)
(* A shortest walk passes each pair at most once.                          *)
Open(n) == kind[n] \in {"plain", "otc"}
Hops == 0..(2 * N)

WalkEnds(s) ==
    LET ends[k \in Hops] ==
          IF k = 0 THEN {<<s, RangeDm(s)>>}
          ELSE LET before == {p \in ends[k - 1] : k = 1 \/ Open(p[1])}
               IN  UNION {{<<c, p[2] \/ RangeDm(c)>> : c \in {x \in Tables : <<p[1], x>> \in arcs}} :
                          p \in before}
    IN  ends

Nearest(s, c) == Min({k \in Hops \ {0} : <<c, TRUE>> \in WalkEnds(s)[k]})
Gated(s) == {c \in Tables : \E k \in Hops \ {0} : <<c, TRUE>> \in WalkEnds(s)[k]}

(* The first DM table f of a walk of k hops to c: a walk without one leads *)
(* to an arc into f, at hop j, and one of k - j hops leads on from f.      *)
FirstOnWalk(s, f, c, k) ==
    IF RangeDm(s) THEN f = s
    ELSE /\ RangeDm(f)
         /\ \E j \in 1..k :
              /\ \E p \in Tables : /\ <<p, FALSE>> \in WalkEnds(s)[j - 1]
                                  /\ <<p, f>> \in arcs /\ (j = 1 \/ Open(p))
              /\ \/ j = k /\ f = c
                 \/ j < k /\ Open(f) /\ <<c, TRUE>> \in WalkEnds(f)[k - j]

(* "Retain only seed-to-node branches that have reached a DM database":    *)
(* the range holds one row for each table at the end of such a branch,     *)
(* with the hops of a shortest one and the first DM table of one of these, *)
(* and no others -- also where a table is met before the gate and again,   *)
(* round a cycle, behind it.                                               *)
RangeIsGated ==
    loop = "done" =>
      /\ {<<r.seed, r.node>> : r \in range} = UNION {{s} \X Gated(s) : s \in seeds}
      /\ \A r \in range : /\ r.hop = Nearest(r.seed, r.node)
                          /\ FirstOnWalk(r.seed, r.first, r.node, r.hop)
      /\ \A r, q \in range : <<r.seed, r.node>> = <<q.seed, q.node>> => r = q

(* The two programs agree on the range, to the hop and the first DM table, *)
(* although one walks all edges and the other those it selected for the    *)
(* task; unless a node that is no table carries the name of a DM database, *)
(* which opens the gate for the adapter only.                              *)
ScopeAgreesWithRange ==
    loop = "done" /\ (\A n \in Tables : kind[n] # "observedDm") => scope = range

(* "Without pretending that every platform edge belongs to every task":    *)
(* the edges of a task are those that lead on from a table its seeds reach *)
(* through tables that may be expanded, before the gate or behind it.      *)
OwnEdgesOnly ==
    loop = "done" =>
      selected = {a \in arcs : \E s \in seeds, k \in Hops, d \in BOOLEAN :
                     <<a[1], d>> \in WalkEnds(s)[k] /\ (k = 0 \/ Open(a[1]))}
=============================================================================
