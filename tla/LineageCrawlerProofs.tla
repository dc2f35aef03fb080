------------------------ MODULE LineageCrawlerProofs ------------------------
(***************************************************************************)
(* Proofs about LineageCrawler, for every set of tables and seeds, every   *)
(* platform, every batch size and every cap: the strengthening says how    *)
(* the memory of a run stands to the two kinds of parts on disk.  Then     *)
(* proofs about DmGate, for every number of tables and every lineage: the  *)
(* strengthening says how a breadth-first queue stands to walks.           *)
(***************************************************************************)
EXTENDS LineageCrawler, DmGate, TLAPS, FiniteSetTheorems, NaturalsInduction,
    WellFoundedInduction, SequenceTheorems

InBatch == pc \in {"answers", "saveQueries", "saveEdges"}
Arcs(n) == {n} \X world.children[n]

Types ==
    /\ CrawlTypeOK /\ world \in World
    /\ pc = "idle" => Idle
    /\ pc # "answers" => batch = {}

(* What has been saved, what is in memory, what is asked. *)
Saved == graph \subseteq edges \cup (IF InBatch THEN unsaved ELSE {})

(* Nothing is said of a table that may be answered for by no list. *)
Heeded ==
    ~gap => \A n \in Nodes \ world.odd :
      /\ queried[n] = "SUCCESS" => Arcs(n) \subseteq graph
      /\ status[n] = "SUCCESS" =>
           Arcs(n) \subseteq edges \cup (IF pc = "saveEdges" THEN unsaved ELSE {})

Opened ==
    /\ frontier \cup pending \cup batch \subseteq world.open
    /\ \A n \in Nodes : status[n] # "none" \/ queried[n] # "none" => n \in world.open

Once ==
    /\ \A n \in pending \cup batch : queried[n] # "SUCCESS"
    /\ resumed => \A n \in Nodes : status[n] = "SUCCESS" => queried[n] = "SUCCESS"

CrawlInvariant == Types /\ Saved /\ Heeded /\ Opened /\ Once
-----------------------------------------------------------------------------
(* What is expanded is open; a choice of some of a set is a part of it. *)
LEMMA ExpandedIsOpen == \A n : CanExpand(n) => n \in world.open
  BY DEF CanExpand

LEMMA SomeIsPart == \A S, k : \A T \in Some(S, k) : T \subseteq S
  BY DEF Some

(* Details found are details, whatever was seen before. *)
LEMMA FoundTyped ==
    ASSUME NEW seen \in [Nodes -> Found \cup {"none"}], NEW S, NEW found \in [S -> Found]
    PROVE  With(seen, found) \in [Nodes -> Found \cup {"none"}]
  BY DEF With

(* The directory is empty at first, and no process runs. *)
THEOREM CrawlInitially == CrawlInit => CrawlInvariant
  BY WorldsAssumption
  DEF CrawlInit, Idle, CrawlInvariant, Types, CrawlTypeOK, Saved, Heeded, Opened, Once, InBatch,
      Nothing, Answers, Found, World, Arcs

(* A new process has read what is on disk, or nothing. *)
LEMMA StartKept ==
    ASSUME CrawlInvariant, NEW c \in Caps, Fresh(c) \/ Resume(c)
    PROVE  CrawlInvariant'
  <1> USE CrawlAssumption DEF CrawlInvariant, disk, memory, loaded, asking
  <1>1. CASE Fresh(c)
    <2>1. Types'
      BY <1>1 DEF Fresh, Types, CrawlTypeOK, Idle
    <2>2. Saved' /\ Heeded' /\ Opened' /\ Once'
      BY <1>1
         DEF Fresh, Types, CrawlTypeOK, Idle, Saved, Heeded, Opened, Once, InBatch, Arcs, Nothing
    <2> QED BY <2>1, <2>2
  <1>2. CASE Resume(c)
    <2>1. Types'
      BY <1>2 DEF Resume, Types, CrawlTypeOK, Idle, Failed, Found
    <2>2. Saved' /\ Heeded' /\ Opened' /\ Once'
      BY <1>2
         DEF Resume, Types, CrawlTypeOK, Idle, Saved, Heeded, Opened, Once, InBatch, Arcs, Nothing
    <2> QED BY <2>1, <2>2
  <1> QED BY <1>1, <1>2

(* The rounds of details touch neither results nor edges. *)
LEMMA DetailsKept ==
    ASSUME CrawlInvariant, Reconsider \/ FetchDetails
    PROVE  CrawlInvariant'
  <1> USE DEF CrawlInvariant, disk, memory, loaded, asking
  <1>1. CASE Reconsider
    <2>1. MissingDetails \subseteq Nodes /\ ResumeFrontier \subseteq Nodes
      BY DEF MissingDetails, ResumeFrontier, Reached
    <2>2. ResumeFrontier \subseteq world.open
      BY ExpandedIsOpen DEF ResumeFrontier
    <2>3. Types'
      BY <1>1, <2>1 DEF Reconsider, Types, CrawlTypeOK, Idle
    <2>4. Saved' /\ Heeded' /\ Opened' /\ Once'
      BY <1>1, <2>2
         DEF Reconsider, Types, CrawlTypeOK, Saved, Heeded, Opened, Once, InBatch, Arcs
    <2> QED BY <2>3, <2>4
  <1>2. CASE FetchDetails
    <2>0. PICK B \in Some(missing, BatchSize) : \E found \in [B -> Found] :
            /\ tried' = With(tried, found) /\ details' = With(details, found)
            /\ retryable' = retryable \ B
            /\ missing' = missing \ B
      BY <1>2 DEF FetchDetails
    <2>1. PICK found \in [B -> Found] :
            /\ tried' = With(tried, found) /\ details' = With(details, found)
            /\ retryable' = retryable \ B
            /\ missing' = missing \ B
      BY <2>0
    <2>2. /\ tried' \in [Nodes -> Found \cup {"none"}]
          /\ details' \in [Nodes -> Found \cup {"none"}]
      BY <2>1, FoundTyped DEF Types, CrawlTypeOK
    <2>3. retryable' \subseteq {n \in Nodes : tried'[n] = "FAILED"} /\ missing' \subseteq Nodes
      BY <2>1 DEF With, Types, CrawlTypeOK
    <2>4. Types'
      BY <1>2, <2>2, <2>3 DEF FetchDetails, Types, CrawlTypeOK, Idle
    <2>5. Saved' /\ Heeded' /\ Opened' /\ Once'
      BY <1>2 DEF FetchDetails, Types, CrawlTypeOK, Saved, Heeded, Opened, Once, InBatch, Arcs
    <2> QED BY <2>4, <2>5
  <1> QED BY <1>1, <1>2

(* A round asks for open tables that have not been answered. *)
LEMMA RoundKept ==
    ASSUME CrawlInvariant, Round \/ NextBatch \/ EndOfRound
    PROVE  CrawlInvariant'
  <1> USE DEF CrawlInvariant, disk, memory, loaded, asking
  <1>1. CASE Round
    <2>1. pending' \subseteq pending \cup Unanswered
      BY <1>1, SomeIsPart DEF Round
    <2>2. pending' \subseteq Nodes \ batch'
      BY <1>1, <2>1 DEF Round, Unanswered, Types, CrawlTypeOK
    <2>3. Types'
      BY <1>1, <2>2 DEF Round, Types, CrawlTypeOK, Idle
    <2>4. Saved' /\ Heeded' /\ Opened' /\ Once'
      BY <1>1, <2>1
         DEF Round, Unanswered, Types, CrawlTypeOK, Saved, Heeded, Opened, Once, InBatch, Arcs
    <2> QED BY <2>3, <2>4
  <1>2. CASE NextBatch
    <2>1. batch' \subseteq pending /\ pending' = pending \ batch'
      BY <1>2, SomeIsPart DEF NextBatch
    <2>2. Types'
      BY <1>2, <2>1 DEF NextBatch, Types, CrawlTypeOK, Idle
    <2>3. Saved' /\ Heeded' /\ Opened' /\ Once'
      BY <1>2, <2>1
         DEF NextBatch, Types, CrawlTypeOK, Saved, Heeded, Opened, Once, InBatch, Arcs
    <2> QED BY <2>2, <2>3
  <1>3. CASE EndOfRound
    BY <1>3
       DEF EndOfRound, Types, CrawlTypeOK, Idle, Saved, Heeded, Opened, Once, InBatch, Arcs
  <1> QED BY <1>1, <1>2, <1>3

(* An answer puts the found of its table into memory, new ones to be saved. *)
LEMMA AnswerKept ==
    ASSUME CrawlInvariant, NEW n \in Nodes, Answer(n)
    PROVE  CrawlInvariant'
  <1> USE DEF CrawlInvariant, disk, memory, loaded, asking
  <1> DEFINE kids == world.children[n]
             ask == {c \in kids : c \notin world.hinted /\ (tried[c] = "none" \/ c \in retryable)}
  <1>1. kids \subseteq Nodes /\ ask \subseteq Nodes
    BY DEF Types, World
  <1>2. PICK found \in [ask -> Found] :
          tried' = [c \in Nodes |-> IF c \in ask THEN found[c] ELSE tried[c]]
    BY DEF Answer
  <1>3. /\ pc = "answers" /\ pc' \in {"answers", "saveQueries"} /\ n \in batch
        /\ batch' = batch \ {n} /\ answered' = answered \cup {n}
        /\ pc' # "answers" => batch' = {}
        /\ queried' = [queried EXCEPT ![n] = "SUCCESS"]
        /\ retryable' = retryable \ ask
        /\ graph' = graph \cup Arcs(n) /\ unsaved' = unsaved \cup (Arcs(n) \ graph)
        /\ UNCHANGED <<world, status, edges, named, details, manifest, resumed, cap, missing,
                       pending, complete, gap>>
    BY DEF Answer, Heard, Arcs
  <1>4. frontier' \subseteq frontier \cup {c \in kids : c \in world.open}
    BY <1>3 DEF Answer, CanExpand
  <1>5. tried' \in [Nodes -> Found \cup {"none"}]
    BY <1>2 DEF Types, CrawlTypeOK
  <1>6. retryable' \subseteq {c \in Nodes : tried'[c] = "FAILED"}
    BY <1>2, <1>3 DEF Types, CrawlTypeOK
  <1>7. Arcs(n) \subseteq Nodes \X Nodes
    BY <1>1 DEF Arcs
  <1>8. Types'
    BY <1>1, <1>3, <1>4, <1>5, <1>6, <1>7 DEF Types, CrawlTypeOK, Idle, Answers
  <1>9. Saved' /\ Heeded'
    BY <1>3 DEF Types, CrawlTypeOK, Saved, Heeded, InBatch, Arcs
  <1>10. Opened' /\ Once'
    BY <1>3, <1>4 DEF Types, CrawlTypeOK, Opened, Once
  <1> QED BY <1>8, <1>9, <1>10

(* A failed answer leaves the edges alone, and so does one that is no list. *)
LEMMA FailureKept ==
    ASSUME CrawlInvariant, NEW n \in Nodes, AnswerFails(n) \/ AnswerOdd(n)
    PROVE  CrawlInvariant'
  <1> USE DEF CrawlInvariant
  <1>1. /\ pc = "answers" /\ pc' \in {"answers", "saveQueries"} /\ n \in batch
        /\ batch' = batch \ {n} /\ answered' = answered \cup {n}
        /\ pc' # "answers" => batch' = {}
        /\ \/ queried' = [queried EXCEPT ![n] = "FAILED"]
           \/ n \in world.odd /\ queried' = [queried EXCEPT ![n] = "SUCCESS"]
        /\ UNCHANGED <<world, status, edges, named, details, manifest, resumed, cap, graph, tried,
                       retryable, missing, frontier, pending, unsaved, complete, gap>>
    BY DEF AnswerFails, AnswerOdd, Heard, disk, loaded
  <1>2. Types'
    BY <1>1 DEF Types, CrawlTypeOK, Idle, Answers
  <1>3. Saved' /\ Heeded'
    BY <1>1 DEF Types, CrawlTypeOK, Saved, Heeded, InBatch, Arcs
  <1>4. Opened' /\ Once'
    BY <1>1 DEF Types, CrawlTypeOK, Opened, Once
  <1> QED BY <1>2, <1>3, <1>4

(* The two parts of a batch; the second has the found the first relies on. *)
LEMMA SaveKept ==
    ASSUME CrawlInvariant, SaveQueries \/ SaveEdges
    PROVE  CrawlInvariant'
  <1> USE DEF CrawlInvariant, disk, memory, loaded, asking
  <1>1. CASE SaveQueries
    <2>1. /\ pc = "saveQueries" /\ pc' = "saveEdges"
          /\ status' = [m \in Nodes |-> IF m \in answered THEN queried[m] ELSE status[m]]
          /\ UNCHANGED <<world, edges, named, details, manifest, loaded, memory, missing, asking, gap>>
      BY <1>1 DEF SaveQueries, PutQueries
    <2>2. Types'
      BY <2>1 DEF Types, CrawlTypeOK, Idle, Answers
    <2>3. Saved' /\ Heeded'
      BY <2>1 DEF Types, CrawlTypeOK, Saved, Heeded, InBatch, Arcs
    <2>4. Opened' /\ Once'
      BY <2>1 DEF Types, CrawlTypeOK, Opened, Once
    <2> QED BY <2>2, <2>3, <2>4
  <1>2. CASE SaveEdges
    <2>1. /\ pc = "saveEdges" /\ pc' = "batch"
          /\ edges' = edges \cup unsaved /\ named' = named \cup Told(unsaved)
          /\ UNCHANGED <<world, status, details, manifest, loaded, memory, missing, asking, gap>>
      BY <1>2 DEF SaveEdges, PutEdges
    <2>2. Told(unsaved) \subseteq Nodes
      BY DEF Told, Ends, Types, CrawlTypeOK
    <2>3. Types'
      BY <2>1, <2>2 DEF Types, CrawlTypeOK, Idle
    <2>4. Saved' /\ Heeded'
      BY <2>1 DEF Types, CrawlTypeOK, Saved, Heeded, InBatch, Arcs
    <2>5. Opened' /\ Once'
      BY <2>1 DEF Types, CrawlTypeOK, Opened, Once
    <2> QED BY <2>3, <2>4, <2>5
  <1> QED BY <1>1, <1>2

(* The end of the process, by itself or by a crash. *)
LEMMA EndKept ==
    ASSUME CrawlInvariant, Finish \/ Crash
    PROVE  CrawlInvariant'
  <1> USE DEF CrawlInvariant
  <1>1. Idle' /\ UNCHANGED world /\ pc # "idle"
    BY DEF Finish, Crash, Stop, Idle, Nothing
  <1>2. manifest' \in {"none", "SUCCESS", "PARTIAL", "torn"}
    BY DEF Finish, Crash, ManifestStatus, Types, CrawlTypeOK, disk
  <1>3. edges \subseteq edges'
    BY DEF Finish, Crash, PutEdges, disk
  <1>4. edges' \subseteq edges \cup unsaved
    BY DEF Finish, Crash, PutEdges, disk
  <1>5. named' \subseteq Nodes
    <2>1. ASSUME NEW found \in SUBSET unsaved PROVE Told(found) \subseteq Nodes
      BY DEF Told, Ends, Types, CrawlTypeOK
    <2> QED BY <2>1 DEF Finish, Crash, PutEdges, Types, CrawlTypeOK, disk
  <1>6. status' \in [Nodes -> Answers] /\ \A n \in Nodes : status'[n] \in {status[n], queried[n]}
    BY DEF Finish, Crash, PutQueries, Types, CrawlTypeOK, disk
  <1>0. details' \in [Nodes -> Found \cup {"none"}]
    <2>1. details' = details \/ \E S : \E found \in [S -> Found] : details' = With(details, found)
      BY DEF Finish, Crash, disk
    <2> QED BY <2>1, FoundTyped DEF Types, CrawlTypeOK
  <1>7. gap' \in BOOLEAN /\ (~gap' => ~gap /\ status' = status /\ pc # "saveEdges")
    <2>1. CASE Finish
      BY <2>1 DEF Finish, Types, CrawlTypeOK
    <2>2. CASE Crash
      BY <2>2 DEF Crash
    <2> QED BY <2>1, <2>2
  <1>8. Types'
    BY <1>0, <1>1, <1>2, <1>4, <1>5, <1>6, <1>7 DEF Types, CrawlTypeOK, Idle, Nothing, Answers
  <1>9. Saved' /\ Heeded'
    BY <1>1, <1>3, <1>7 DEF Types, CrawlTypeOK, Idle, Nothing, Saved, Heeded, InBatch, Arcs
  <1>10. Opened' /\ Once'
    BY <1>1, <1>6 DEF Types, CrawlTypeOK, Idle, Nothing, Opened, Once
  <1> QED BY <1>8, <1>9, <1>10
-----------------------------------------------------------------------------
(* The invariant holds of every behaviour. *)
THEOREM CrawlSafe == CrawlSpec => []CrawlInvariant
  <1>1. CrawlInvariant /\ [CrawlNext]_crawlVars => CrawlInvariant'
    <2> SUFFICES ASSUME CrawlInvariant, [CrawlNext]_crawlVars
                 PROVE  CrawlInvariant'
      OBVIOUS
    <2>1. CASE UNCHANGED crawlVars
      BY <2>1 DEF crawlVars, disk, loaded, memory, asking, CrawlInvariant, Types, CrawlTypeOK,
                  Idle, Saved, Heeded, Opened, Once, InBatch, Arcs
    <2>2. CASE CrawlNext
      BY <2>2, StartKept, DetailsKept, RoundKept, AnswerKept, FailureKept, SaveKept, EndKept
      DEF CrawlNext, CrawlStep
    <2> QED BY <2>1, <2>2
  <1> QED BY <1>1, CrawlInitially, PTL DEF CrawlSpec

(* Every variable keeps its type; a call under way is no longer pending. *)
THEOREM CrawlTyped == CrawlSpec => []CrawlTypeOK
  <1>1. CrawlInvariant => CrawlTypeOK
    BY DEF CrawlInvariant, Types
  <1> QED BY <1>1, CrawlSafe, PTL

(* A table that is on disk as answered has its edges on disk, over any     *)
(* number of runs and crashes that respect the pair of parts, unless the   *)
(* platform may answer for it with JSON that is no list.                   *)
THEOREM CrawlTraces == CrawlSpec => []SuccessIsTraced
  <1>1. CrawlInvariant => SuccessIsTraced
    BY DEF CrawlInvariant, Heeded, SuccessIsTraced, Traced, Arcs
  <1> QED BY <1>1, CrawlSafe, PTL

(* No table beyond a boundary is ever asked for. *)
THEOREM CrawlKeepsBoundary == CrawlSpec => []BoundaryHolds
  <1>1. CrawlInvariant => BoundaryHolds
    BY DEF CrawlInvariant, Types, CrawlTypeOK, Opened, BoundaryHolds
  <1> QED BY <1>1, CrawlSafe, PTL

(* A manifest that says SUCCESS is of a closed traversal, but for tables   *)
(* the platform may answer for with JSON that is no list.                  *)
THEOREM CrawlCloses == CrawlSpec => []ClosedUnlessGap
  <1>1. ASSUME CrawlInvariant, ~gap, pc = "finish", ManifestStatus = "SUCCESS",
               NEW n \in Known \ world.odd, CanExpand(n)
        PROVE  Traced(n)
    <2>1. Eligible = {}
      BY <1>1 DEF ManifestStatus
    <2>2. queried[n] = "SUCCESS"
      BY <1>1, <2>1 DEF Eligible
    <2>3. n \in Nodes
      BY <1>1, CrawlAssumption DEF Known, Ends, CrawlInvariant, Types, CrawlTypeOK
    <2>4. Arcs(n) \subseteq graph /\ graph \subseteq edges
      BY <1>1, <2>2, <2>3 DEF CrawlInvariant, Heeded, Saved, InBatch
    <2> QED BY <2>4 DEF Traced, Arcs
  <1>2. CrawlInvariant => ClosedUnlessGap
    BY <1>1 DEF ClosedUnlessGap
  <1> QED BY <1>2, CrawlSafe, PTL

(* A resumed run does not ask again for what was answered. *)
THEOREM CrawlAsksOnce == CrawlSpec => SuccessNotAskedAgain
  <1> DEFINE P == \A n \in batch' \ batch : resumed => status[n] # "SUCCESS"
  <1>1. ASSUME CrawlInvariant, CrawlNext PROVE P
    <2>1. batch' \subseteq batch \cup pending
      <3>1. CASE NextBatch
        BY <3>1, SomeIsPart DEF NextBatch
      <3>2. CASE Finish \/ Crash
        BY <3>2 DEF Finish, Crash, Stop
      <3>3. ASSUME NEW c \in Caps, Fresh(c) \/ Resume(c) PROVE batch' = batch
        BY <3>3 DEF Fresh, Resume, asking
      <3>4. ASSUME NEW n \in Nodes, Answer(n) \/ AnswerFails(n) \/ AnswerOdd(n)
            PROVE  batch' \subseteq batch
        BY <3>4 DEF Answer, AnswerFails, AnswerOdd, Heard
      <3>5. CASE Reconsider \/ FetchDetails \/ Round \/ EndOfRound \/ SaveQueries \/ SaveEdges
        BY <3>5 DEF Reconsider, FetchDetails, Round, EndOfRound, SaveQueries, SaveEdges, asking
      <3> QED BY <1>1, <3>1, <3>2, <3>3, <3>4, <3>5 DEF CrawlNext, CrawlStep
    <2> QED BY <1>1, <2>1 DEF CrawlInvariant, Once, Types, CrawlTypeOK
  <1>2. CrawlInvariant /\ [CrawlNext]_crawlVars => [P]_crawlVars
    BY <1>1
  <1> QED BY <1>2, CrawlSafe, PTL DEF CrawlSpec, SuccessNotAskedAgain

LEMMA GateN == N \in Nat /\ N > 0 /\ 2 * N \in Nat /\ 0 \in Hops /\ 0 \in 0..N /\ N \in 0..N
  BY GateAssumption DEF Hops

(* A set of naturals with a member has a least one. *)
LEMMA LeastNumber ==
    ASSUME NEW T \in SUBSET Nat, T # {}
    PROVE  \E x \in T : \A y \in T : x <= y
<1> DEFINE R == OpToRel(<, Nat)
<1>1. IsWellFoundedOn(R, Nat)
  BY NatLessThanWellFounded
<1>2. \A x, y \in Nat : y < x => <<y, x>> \in R
  BY DEF OpToRel
<1> HIDE DEF R
<1>3. PICK x \in T : \A y \in T : ~(<<y, x>> \in R)
  BY <1>1, WFMin
<1>4. ASSUME NEW y \in T PROVE x <= y
  <2>1. x \in Nat /\ y \in Nat
    OBVIOUS
  <2>2. ~(y < x)
    BY <1>2, <1>3, <2>1
  <2> QED BY <2>1, <2>2
<1> QED BY <1>4

(* Induction up to n, for a property given as the set of what has it. *)
LEMMA UpTo ==
    ASSUME NEW n \in Nat, NEW T, 0 \in T,
           \A k \in 0..n : k \in T /\ k + 1 \in 0..n => k + 1 \in T
    PROVE  \A k \in 0..n : k \in T
<1> DEFINE F == {k \in 0..n : k \notin T}
<1>1. SUFFICES ASSUME F # {} PROVE FALSE
  OBVIOUS
<1>2. F \in SUBSET Nat
  OBVIOUS
<1>3. PICK m \in F : \A y \in F : m <= y
  BY <1>1, <1>2, LeastNumber
<1>4. m \in 0..n /\ m # 0 /\ m - 1 \in 0..n /\ m - 1 < m /\ (m - 1) + 1 = m
  BY <1>3
<1>5. m - 1 \in T
  BY <1>3, <1>4
<1> QED BY <1>3, <1>4, <1>5

(* The recursive functions of the model exist. *)
LEMMA RangeTurnsEquation ==
    ASSUME NEW s, NEW p, NEW b0
    PROVE  RangeTurns(s, p, b0) =
             [c \in 0..N |->
                IF c = 0 THEN b0
                ELSE IF <<p.node, c>> \in arcs THEN RangeChild(s, p, RangeTurns(s, p, b0)[c - 1], c)
                ELSE RangeTurns(s, p, b0)[c - 1]]
<1> DEFINE Next1(x, c) == IF <<p.node, c>> \in arcs THEN RangeChild(s, p, x, c) ELSE x
           Ok == {k \in 0..N :
                    \E g : g = [c \in 0..k |-> IF c = 0 THEN b0 ELSE Next1(g[c - 1], c)]}
<1>1. 0 \in Ok
  <2> DEFINE g == [c \in 0..0 |-> b0]
  <2>1. g = [c \in 0..0 |-> IF c = 0 THEN b0 ELSE Next1(g[c - 1], c)]
    OBVIOUS
  <2> QED BY <2>1, GateN
<1>2. ASSUME NEW k \in 0..N, k \in Ok, k + 1 \in 0..N PROVE k + 1 \in Ok
  <2> HIDE DEF Next1
  <2>1. PICK g : g = [c \in 0..k |-> IF c = 0 THEN b0 ELSE Next1(g[c - 1], c)]
    BY <1>2
  <2> DEFINE h == [c \in 0..(k + 1) |-> IF c = k + 1 THEN Next1(g[k], k + 1) ELSE g[c]]
  <2>2. ASSUME NEW c \in 0..(k + 1)
        PROVE  h[c] = IF c = 0 THEN b0 ELSE Next1(h[c - 1], c)
    <3>1. CASE c = 0
      BY <2>1, <3>1
    <3>2. CASE c = k + 1
      BY <2>1, <3>2
    <3>3. CASE c \in 1..k
      BY <2>1, <3>3
    <3> QED BY <3>1, <3>2, <3>3
  <2>3. h = [c \in 0..(k + 1) |-> IF c = 0 THEN b0 ELSE Next1(h[c - 1], c)]
    BY <2>2
  <2> HIDE DEF h
  <2> QED BY <1>2, <2>3
<1>3. N \in Ok
  <2> HIDE DEF Ok
  <2> QED BY <1>1, <1>2, GateN, UpTo
<1>4. PICK g : g = [c \in 0..N |-> IF c = 0 THEN b0 ELSE Next1(g[c - 1], c)]
  BY <1>3
<1>5. RangeTurns(s, p, b0) =
        CHOOSE f : f = [c \in 0..N |-> IF c = 0 THEN b0
                                       ELSE IF <<p.node, c>> \in arcs THEN RangeChild(s, p, f[c - 1], c)
                                       ELSE f[c - 1]]
  BY Zenon DEF RangeTurns
<1> QED
  BY <1>4, <1>5

LEMMA AdapterTurnsEquation ==
    ASSUME NEW s, NEW p, NEW from, NEW b0
    PROVE  AdapterTurns(s, p, from, b0) =
             [c \in 0..N |->
                IF c = 0 THEN b0
                ELSE IF <<p.node, c>> \in from THEN AdapterChild(s, p, AdapterTurns(s, p, from, b0)[c - 1], c)
                ELSE AdapterTurns(s, p, from, b0)[c - 1]]
<1> DEFINE Next1(x, c) == IF <<p.node, c>> \in from THEN AdapterChild(s, p, x, c) ELSE x
           Ok == {k \in 0..N :
                    \E g : g = [c \in 0..k |-> IF c = 0 THEN b0 ELSE Next1(g[c - 1], c)]}
<1>1. 0 \in Ok
  <2> DEFINE g == [c \in 0..0 |-> b0]
  <2>1. g = [c \in 0..0 |-> IF c = 0 THEN b0 ELSE Next1(g[c - 1], c)]
    OBVIOUS
  <2> QED BY <2>1, GateN
<1>2. ASSUME NEW k \in 0..N, k \in Ok, k + 1 \in 0..N PROVE k + 1 \in Ok
  <2> HIDE DEF Next1
  <2>1. PICK g : g = [c \in 0..k |-> IF c = 0 THEN b0 ELSE Next1(g[c - 1], c)]
    BY <1>2
  <2> DEFINE h == [c \in 0..(k + 1) |-> IF c = k + 1 THEN Next1(g[k], k + 1) ELSE g[c]]
  <2>2. ASSUME NEW c \in 0..(k + 1)
        PROVE  h[c] = IF c = 0 THEN b0 ELSE Next1(h[c - 1], c)
    <3>1. CASE c = 0
      BY <2>1, <3>1
    <3>2. CASE c = k + 1
      BY <2>1, <3>2
    <3>3. CASE c \in 1..k
      BY <2>1, <3>3
    <3> QED BY <3>1, <3>2, <3>3
  <2>3. h = [c \in 0..(k + 1) |-> IF c = 0 THEN b0 ELSE Next1(h[c - 1], c)]
    BY <2>2
  <2> HIDE DEF h
  <2> QED BY <1>2, <2>3
<1>3. N \in Ok
  <2> HIDE DEF Ok
  <2> QED BY <1>1, <1>2, GateN, UpTo
<1>4. PICK g : g = [c \in 0..N |-> IF c = 0 THEN b0 ELSE Next1(g[c - 1], c)]
  BY <1>3
<1>5. AdapterTurns(s, p, from, b0) =
        CHOOSE f : f = [c \in 0..N |-> IF c = 0 THEN b0
                                       ELSE IF <<p.node, c>> \in from THEN AdapterChild(s, p, f[c - 1], c)
                                       ELSE f[c - 1]]
  BY Zenon DEF AdapterTurns
<1> QED
  BY <1>4, <1>5

WalkOn(ends, k) ==
    LET before == {p \in ends : k = 1 \/ Open(p[1])}
    IN  UNION {{<<c, p[2] \/ RangeDm(c)>> : c \in {x \in Tables : <<p[1], x>> \in arcs}} :
                 p \in before}

LEMMA WalksEquation ==
    ASSUME NEW s
    PROVE  WalkEnds(s) =
             [k \in Hops |->
                IF k = 0 THEN {<<s, RangeDm(s)>>} ELSE WalkOn(WalkEnds(s)[k - 1], k)]
<1> DEFINE e0 == {<<s, RangeDm(s)>>}
           Ok == {n \in 0..(2 * N) :
                    \E g : g = [k \in 0..n |-> IF k = 0 THEN e0 ELSE WalkOn(g[k - 1], k)]}
<1>1. 0 \in Ok
  <2> DEFINE g == [k \in 0..0 |-> e0]
  <2>1. g = [k \in 0..0 |-> IF k = 0 THEN e0 ELSE WalkOn(g[k - 1], k)]
    OBVIOUS
  <2>2. 0 \in 0..(2 * N)
    BY GateN
  <2> QED BY <2>1, <2>2
<1>2. ASSUME NEW n \in 0..(2 * N), n \in Ok, n + 1 \in 0..(2 * N) PROVE n + 1 \in Ok
  <2>1. PICK g : g = [k \in 0..n |-> IF k = 0 THEN e0 ELSE WalkOn(g[k - 1], k)]
    BY <1>2
  <2> HIDE DEF e0
  <2> DEFINE h == [k \in 0..(n + 1) |-> IF k = n + 1 THEN WalkOn(g[n], n + 1) ELSE g[k]]
  <2>2. ASSUME NEW k \in 0..(n + 1)
        PROVE  h[k] = IF k = 0 THEN e0 ELSE WalkOn(h[k - 1], k)
    <3>1. CASE k = 0
      BY <2>1, <3>1
    <3>2. CASE k = n + 1
      BY <2>1, <3>2
    <3>3. CASE k \in 1..n
      BY <2>1, <3>3
    <3> QED BY <3>1, <3>2, <3>3
  <2>3. h = [k \in 0..(n + 1) |-> IF k = 0 THEN e0 ELSE WalkOn(h[k - 1], k)]
    BY <2>2
  <2> HIDE DEF h
  <2> QED BY <1>2, <2>3
<1>3. 2 * N \in Ok
  <2> HIDE DEF Ok
  <2>1. 2 * N \in 0..(2 * N)
    BY GateN
  <2> QED BY <1>1, <1>2, <2>1, GateN, UpTo
<1>4. PICK g : g = [k \in Hops |-> IF k = 0 THEN e0 ELSE WalkOn(g[k - 1], k)]
  BY <1>3 DEF Hops
<1>5. WalkEnds(s) =
        CHOOSE f : f = [k \in Hops |-> IF k = 0 THEN {<<s, RangeDm(s)>>} ELSE WalkOn(f[k - 1], k)]
  BY Zenon DEF WalkEnds, WalkOn
<1> QED
  BY <1>4, <1>5

(* A walk of one hop more goes on from an open table, or from its start. *)
LEMMA WalkStart == ASSUME NEW s PROVE WalkEnds(s)[0] = {<<s, RangeDm(s)>>}
  BY GateN, WalksEquation

LEMMA WalkStep ==
    ASSUME NEW s, NEW k \in Hops \ {0}, NEW c, NEW d
    PROVE  <<c, d>> \in WalkEnds(s)[k] <=>
             /\ c \in Tables
             /\ \E p \in WalkEnds(s)[k - 1] : /\ k = 1 \/ Open(p[1])
                                             /\ <<p[1], c>> \in arcs
                                             /\ d = (p[2] \/ RangeDm(c))
<1>1. WalkEnds(s)[k] = WalkOn(WalkEnds(s)[k - 1], k)
  BY WalksEquation
<1>2. <<c, d>> \in WalkOn(WalkEnds(s)[k - 1], k) <=>
        \E p \in WalkEnds(s)[k - 1] : \E x \in Tables :
          /\ k = 1 \/ Open(p[1])
          /\ <<p[1], x>> \in arcs
          /\ <<c, d>> = <<x, p[2] \/ RangeDm(x)>>
  <2> DEFINE E == WalkEnds(s)[k - 1]
             F(p) == {<<x, p[2] \/ RangeDm(x)>> : x \in {x \in Tables : <<p[1], x>> \in arcs}}
             B == {p \in E : k = 1 \/ Open(p[1])}
  <2>1. WalkOn(E, k) = UNION {F(p) : p \in B}
    BY Zenon DEF WalkOn
  <2>2. \A p : <<c, d>> \in F(p) <=>
              \E x \in Tables : <<p[1], x>> \in arcs /\ <<c, d>> = <<x, p[2] \/ RangeDm(x)>>
    BY Zenon
  <2>3. \A p : p \in B <=> p \in E /\ (k = 1 \/ Open(p[1]))
    BY Zenon
  <2> HIDE DEF E, F, B
  <2>4. <<c, d>> \in UNION {F(p) : p \in B} <=> \E p \in B : <<c, d>> \in F(p)
    BY Zenon
  <2>5. <<c, d>> \in WalkOn(E, k) <=>
        \E p \in E : \E x \in Tables :
          /\ k = 1 \/ Open(p[1])
          /\ <<p[1], x>> \in arcs
          /\ <<c, d>> = <<x, p[2] \/ RangeDm(x)>>
    BY Zenon, <2>1, <2>2, <2>3, <2>4
  <2> QED BY <2>5 DEF E
<1>3. \A p, x : <<c, d>> = <<x, p[2] \/ RangeDm(x)>> <=> c = x /\ d = (p[2] \/ RangeDm(x))
  OBVIOUS
<1> QED BY Zenon, <1>1, <1>2, <1>3

-----------------------------------------------------------------------------
(* One turn of a loop. *)

Pairs == [node : Tables, hop : Nat, dm : BOOLEAN, first : Tables \cup {Nobody}]
Rows == [seed : Tables, node : Tables, hop : Nat, first : Tables \cup {Nobody}]

Marks(q) == {Mark(q[i]) : i \in DOMAIN q}

OneRowEach(rows) ==
    \A r, t \in rows : r.seed = t.seed /\ r.node = t.node => r = t

(* No pair of a seed and a table is lost, and none moves farther away. *)
Keeps(rows, old) ==
    \A r \in old : \E t \in rows : t.seed = r.seed /\ t.node = r.node /\ t.hop <= r.hop

HasRow(rows, s, c, k) == \E r \in rows : r.seed = s /\ r.node = c /\ r.hop <= k

LEMMA RecordWorks ==
    ASSUME NEW rows \in SUBSET Rows, NEW s \in Tables, NEW q \in Pairs
    PROVE  /\ Record(rows, s, q) \in SUBSET Rows
           /\ HasRow(Record(rows, s, q), s, q.node, q.hop)
           /\ Keeps(Record(rows, s, q), rows)
           /\ OneRowEach(rows) => OneRowEach(Record(rows, s, q))
           /\ \A r \in Record(rows, s, q) :
                \/ r \in rows
                \/ /\ r = [seed |-> s, node |-> q.node, hop |-> q.hop, first |-> q.first]
                   /\ ~HasRow(rows, s, q.node, q.hop)
<1> DEFINE row == [seed |-> s, node |-> q.node, hop |-> q.hop, first |-> q.first]
<1>1. /\ q.node \in Tables /\ q.hop \in Nat /\ q.first \in Tables \cup {Nobody}
      /\ \A r \in rows : r.seed \in Tables /\ r.node \in Tables /\ r.hop \in Nat
  BY DEF Pairs, Rows
<1>2. row \in Rows /\ row.seed = s /\ row.node = q.node /\ row.hop = q.hop
  BY <1>1 DEF Rows
<1>3. CASE \E r \in rows : r.seed = s /\ r.node = q.node /\ r.hop <= q.hop
  <2>1. Record(rows, s, q) = rows
    BY <1>3 DEF Record
  <2> QED BY <1>1, <1>3, <2>1 DEF HasRow, Keeps
<1>4. CASE ~ \E r \in rows : r.seed = s /\ r.node = q.node /\ r.hop <= q.hop
  <2> HIDE DEF row
  <2>1. Record(rows, s, q) = {r \in rows : <<r.seed, r.node>> # <<s, q.node>>} \cup {row}
    BY <1>4 DEF Record, RecordLast, row
  <2>2. Record(rows, s, q) \in SUBSET Rows
    BY <1>2, <2>1
  <2>3. HasRow(Record(rows, s, q), s, q.node, q.hop)
    BY <1>1, <1>2, <2>1 DEF HasRow
  <2>4. ASSUME NEW r \in rows
        PROVE  \E t \in Record(rows, s, q) : t.seed = r.seed /\ t.node = r.node /\ t.hop <= r.hop
    <3>1. CASE <<r.seed, r.node>> # <<s, q.node>>
      BY <1>1, <2>1, <3>1
    <3>2. CASE <<r.seed, r.node>> = <<s, q.node>>
      <4>1. r.seed = s /\ r.node = q.node /\ ~(r.hop <= q.hop)
        BY <1>4, <3>2
      <4>2. row.hop <= r.hop
        BY <1>1, <1>2, <4>1
      <4> QED BY <1>2, <2>1, <4>1, <4>2
    <3> QED BY <3>1, <3>2
  <2>5. OneRowEach(rows) => OneRowEach(Record(rows, s, q))
    BY <1>2, <2>1 DEF OneRowEach
  <2>6. \A r \in Record(rows, s, q) : r \in rows \/ (r = row /\ ~HasRow(rows, s, q.node, q.hop))
    BY <1>4, <2>1 DEF HasRow
  <2> QED BY <2>2, <2>3, <2>4, <2>5, <2>6 DEF Keeps, row
<1> QED BY <1>3, <1>4

LEMMA KeepsOn ==
    ASSUME NEW a \in SUBSET Rows, NEW b \in SUBSET Rows, NEW c \in SUBSET Rows,
           Keeps(b, a), Keeps(c, b)
    PROVE  Keeps(c, a)
<1> SUFFICES ASSUME NEW r \in a
             PROVE  \E t \in c : t.seed = r.seed /\ t.node = r.node /\ t.hop <= r.hop
  BY DEF Keeps
<1>1. PICK t \in b : t.seed = r.seed /\ t.node = r.node /\ t.hop <= r.hop
  BY DEF Keeps
<1>2. PICK u \in c : u.seed = t.seed /\ u.node = t.node /\ u.hop <= t.hop
  BY DEF Keeps
<1>3. r.hop \in Nat /\ t.hop \in Nat /\ u.hop \in Nat
  BY DEF Rows
<1>4. u.hop <= r.hop
  BY <1>1, <1>2, <1>3
<1> QED BY <1>1, <1>2, <1>4

LEMMA KeepsRow ==
    ASSUME NEW a \in SUBSET Rows, NEW b \in SUBSET Rows, Keeps(b, a),
           NEW s, NEW c, NEW k \in Nat, NEW m \in Nat, k <= m, HasRow(a, s, c, k)
    PROVE  HasRow(b, s, c, m)
<1>1. PICK r \in a : r.seed = s /\ r.node = c /\ r.hop <= k
  BY DEF HasRow
<1>2. PICK t \in b : t.seed = r.seed /\ t.node = r.node /\ t.hop <= r.hop
  BY DEF Keeps
<1>3. r.hop \in Nat /\ t.hop \in Nat
  BY DEF Rows
<1>4. t.hop <= m
  BY <1>1, <1>2, <1>3
<1> QED BY <1>1, <1>2, <1>4 DEF HasRow

LEMMA AfterIsPair ==
    ASSUME NEW p \in Pairs, NEW c \in Tables, NEW d \in BOOLEAN
    PROVE  /\ After(p, c, d) \in Pairs
           /\ After(p, c, d).node = c /\ After(p, c, d).hop = p.hop + 1
           /\ After(p, c, d).dm = (p.dm \/ d)
           /\ Mark(After(p, c, d)) = <<c, p.dm \/ d>>
<1>1. p.hop + 1 \in Nat /\ (p.dm \/ d) \in BOOLEAN
  BY DEF Pairs
<1>2. (IF p.first = Nobody /\ d THEN c ELSE p.first) \in Tables \cup {Nobody}
  BY DEF Pairs
<1> QED BY <1>1, <1>2 DEF After, Mark, Pairs

(* After the turns of the children 1..c of p: what was pushed onto the     *)
(* queue q0, which pairs have become known, and where the open ones are.   *)
Pushed(p, x, e) ==
    <<p.node, x>> \in arcs /\ kind[x] \notin {"unknown", "dm"} /\ e = After(p, x, RangeDm(x))

Looked(p, q0, known0, q, known, c) ==
    /\ q \in Seq(Pairs) /\ Len(q0) <= Len(q)
    /\ \A i \in 1..Len(q0) : q[i] = q0[i]
    /\ \A i \in DOMAIN q :
         i \in 1..Len(q0) \/ (Mark(q[i]) \in known /\ \E x \in 1..c : Pushed(p, x, q[i]))
    /\ known0 \subseteq known
    /\ \A m \in known \ known0 : \E i \in DOMAIN q : i > Len(q0) /\ Mark(q[i]) = m
    /\ \A x \in 1..c : <<p.node, x>> \in arcs /\ Open(x) => <<x, p.dm \/ RangeDm(x)>> \in known
    /\ \A i, j \in DOMAIN q : Len(q0) < i /\ i < j => q[i].node < q[j].node

(* And which rows have been recorded. *)
RowAfter(s, p, x) ==
    [seed |-> s, node |-> x, hop |-> p.hop + 1, first |-> After(p, x, RangeDm(x)).first]

RowsOf(s, p, rows0, rows, c) ==
    /\ rows \in SUBSET Rows
    /\ Keeps(rows, rows0)
    /\ OneRowEach(rows0) => OneRowEach(rows)
    /\ \A r \in rows :
         r \in rows0 \/ \E x \in 1..c : /\ <<p.node, x>> \in arcs
                                        /\ p.dm \/ RangeDm(x)
                                        /\ r = RowAfter(s, p, x)
                                        /\ ~HasRow(rows0, s, x, p.hop + 1)
    /\ \A x \in 1..c : <<p.node, x>> \in arcs /\ (p.dm \/ RangeDm(x)) => HasRow(rows, s, x, p.hop + 1)

LEMMA LookedNone ==
    ASSUME NEW p \in Pairs, NEW q0 \in Seq(Pairs), NEW known0
    PROVE  Looked(p, q0, known0, q0, known0, 0)
<1>1. DOMAIN q0 = 1..Len(q0) /\ Len(q0) \in Nat
  OBVIOUS
<1>2. 1..0 = {} /\ \A i \in 1..Len(q0) : ~(Len(q0) < i)
  BY <1>1
<1> QED BY <1>1, <1>2 DEF Looked

LEMMA LookedPast ==
    ASSUME NEW p \in Pairs, NEW q0 \in Seq(Pairs), NEW known0, NEW q, NEW known,
           NEW c \in 0..N, c + 1 \in 0..N, Looked(p, q0, known0, q, known, c),
           <<p.node, c + 1>> \in arcs /\ Open(c + 1) => <<c + 1, p.dm \/ RangeDm(c + 1)>> \in known
    PROVE  Looked(p, q0, known0, q, known, c + 1)
<1>1. \A x : x \in 1..(c + 1) <=> x \in 1..c \/ x = c + 1
  BY GateN
<1>2. \A i \in DOMAIN q :
        i \in 1..Len(q0) \/ (Mark(q[i]) \in known /\ \E x \in 1..(c + 1) : Pushed(p, x, q[i]))
  BY <1>1 DEF Looked
<1>3. \A x \in 1..(c + 1) :
        <<p.node, x>> \in arcs /\ Open(x) => <<x, p.dm \/ RangeDm(x)>> \in known
  BY <1>1 DEF Looked
<1> QED BY <1>2, <1>3 DEF Looked

LEMMA LookedPush ==
    ASSUME NEW p \in Pairs, NEW q0 \in Seq(Pairs), NEW known0, NEW q, NEW known,
           NEW c \in 0..N, c + 1 \in 0..N, Looked(p, q0, known0, q, known, c),
           NEW e, Pushed(p, c + 1, e)
    PROVE  Looked(p, q0, known0, Append(q, e), known \cup {Mark(e)}, c + 1)
<1> DEFINE n0 == Len(q0)
           n == Len(q)
           r == Append(q, e)
           all == known \cup {Mark(e)}
<1>1. c + 1 \in Tables /\ e = After(p, c + 1, RangeDm(c + 1)) /\ RangeDm(c + 1) \in BOOLEAN
  BY GateN DEF Pushed, Tables, RangeDm
<1>2. e \in Pairs /\ Mark(e) = <<c + 1, p.dm \/ RangeDm(c + 1)>>
  BY <1>1, AfterIsPair
<1>3. q \in Seq(Pairs) /\ n0 \in Nat /\ n \in Nat /\ n0 <= n
  BY DEF Looked
<1>4. /\ r \in Seq(Pairs) /\ Len(r) = n + 1 /\ r[n + 1] = e
      /\ DOMAIN r = 1..(n + 1) /\ DOMAIN q = 1..n
      /\ \A i \in 1..n : r[i] = q[i]
  BY <1>2, <1>3
<1>5. \A x : x \in 1..(c + 1) <=> x \in 1..c \/ x = c + 1
  BY GateN
<1>6. \A i \in 1..n0 : q[i] = q0[i]
  BY DEF Looked
<1>7. \A i \in 1..n :
        i \in 1..n0 \/ (Mark(q[i]) \in known /\ \E x \in 1..c : Pushed(p, x, q[i]))
  BY <1>4 DEF Looked
<1>8. /\ known0 \subseteq known
      /\ \A m \in known \ known0 : \E i \in 1..n : i > n0 /\ Mark(q[i]) = m
      /\ \A x \in 1..c : <<p.node, x>> \in arcs /\ Open(x) => <<x, p.dm \/ RangeDm(x)>> \in known
      /\ \A i, j \in 1..n : n0 < i /\ i < j => q[i].node < q[j].node
  BY <1>4 DEF Looked
<1> HIDE DEF n0, n, r
<1>9. \A i \in 1..n0 : r[i] = q0[i]
  <2> TAKE i \in 1..n0
  <2>1. i \in 1..n
    BY <1>3
  <2> QED BY <1>4, <1>6, <2>1
<1>10. \A i \in DOMAIN r :
         i \in 1..n0 \/ (Mark(r[i]) \in all /\ \E x \in 1..(c + 1) : Pushed(p, x, r[i]))
  <2> TAKE i \in DOMAIN r
  <2>1. CASE i = n + 1
    BY <1>4, <1>5, <2>1
  <2>2. CASE i \in 1..n
    BY <1>4, <1>5, <1>7, <2>2
  <2>3. i = n + 1 \/ i \in 1..n
    BY <1>3, <1>4
  <2> QED BY <2>1, <2>2, <2>3
<1>11. known0 \subseteq all
  BY <1>8
<1>12. ASSUME NEW m \in all \ known0 PROVE \E i \in DOMAIN r : i > n0 /\ Mark(r[i]) = m
  <2>1. CASE m = Mark(e)
    <3>1. n + 1 \in DOMAIN r /\ n + 1 > n0
      BY <1>3, <1>4
    <3> QED BY <1>4, <2>1, <3>1
  <2>2. CASE m \in known \ known0
    <3>1. PICK i \in 1..n : i > n0 /\ Mark(q[i]) = m
      BY <1>8, <2>2
    <3>2. i \in DOMAIN r /\ r[i] = q[i]
      BY <1>3, <1>4
    <3> QED BY <3>1, <3>2
  <2> QED BY <2>1, <2>2
<1>13. \A x \in 1..(c + 1) :
         <<p.node, x>> \in arcs /\ Open(x) => <<x, p.dm \/ RangeDm(x)>> \in all
  BY <1>2, <1>5, <1>8
<1>14. n0 <= Len(r)
  BY <1>3, <1>4
<1>15. ASSUME NEW i \in DOMAIN r, NEW j \in DOMAIN r, n0 < i, i < j PROVE r[i].node < r[j].node
  <2>1. i \in 1..n /\ r[i] = q[i] /\ i \notin 1..n0
    BY <1>3, <1>4, <1>15
  <2>2. CASE j \in 1..n
    BY <1>4, <1>8, <1>15, <2>1, <2>2
  <2>3. CASE j = n + 1
    <3>1. PICK x \in 1..c : Pushed(p, x, q[i])
      BY <1>7, <2>1
    <3>2. x \in Tables /\ RangeDm(x) \in BOOLEAN /\ x < c + 1
      BY GateN DEF Tables, RangeDm
    <3>3. q[i].node = x
      BY <3>1, <3>2, AfterIsPair DEF Pushed
    <3>4. e.node = c + 1
      BY <1>1, AfterIsPair
    <3> QED BY <1>4, <2>1, <2>3, <3>2, <3>3, <3>4
  <2>4. j \in 1..n \/ j = n + 1
    BY <1>3, <1>4
  <2> QED BY <2>2, <2>3, <2>4
<1> QED BY <1>4, <1>9, <1>10, <1>11, <1>12, <1>13, <1>14, <1>15 DEF Looked, n0, r

LEMMA RowsNone ==
    ASSUME NEW s \in Tables, NEW p \in Pairs, NEW rows0 \in SUBSET Rows
    PROVE  RowsOf(s, p, rows0, rows0, 0)
<1>1. 1..0 = {}
  OBVIOUS
<1>2. \A r \in rows0 : r.hop <= r.hop
  BY DEF Rows
<1> QED BY <1>1, <1>2 DEF RowsOf, Keeps

LEMMA RowsPast ==
    ASSUME NEW s \in Tables, NEW p \in Pairs, NEW rows0 \in SUBSET Rows, NEW rows,
           NEW c \in 0..N, c + 1 \in 0..N, RowsOf(s, p, rows0, rows, c),
           ~(<<p.node, c + 1>> \in arcs /\ (p.dm \/ RangeDm(c + 1)))
    PROVE  RowsOf(s, p, rows0, rows, c + 1)
<1>1. \A x : x \in 1..(c + 1) <=> x \in 1..c \/ x = c + 1
  BY GateN
<1>2. \A r \in rows :
        r \in rows0 \/ \E x \in 1..(c + 1) : /\ <<p.node, x>> \in arcs
                                             /\ p.dm \/ RangeDm(x)
                                             /\ r = RowAfter(s, p, x)
                                             /\ ~HasRow(rows0, s, x, p.hop + 1)
  BY <1>1 DEF RowsOf
<1>3. \A x \in 1..(c + 1) :
        <<p.node, x>> \in arcs /\ (p.dm \/ RangeDm(x)) => HasRow(rows, s, x, p.hop + 1)
  BY <1>1 DEF RowsOf
<1> QED BY <1>2, <1>3 DEF RowsOf

LEMMA RowsPush ==
    ASSUME NEW s \in Tables, NEW p \in Pairs, NEW rows0 \in SUBSET Rows, NEW rows,
           NEW c \in 0..N, c + 1 \in 0..N, RowsOf(s, p, rows0, rows, c),
           <<p.node, c + 1>> \in arcs, p.dm \/ RangeDm(c + 1)
    PROVE  RowsOf(s, p, rows0, Record(rows, s, After(p, c + 1, RangeDm(c + 1))), c + 1)
<1> DEFINE e == After(p, c + 1, RangeDm(c + 1))
           new == Record(rows, s, e)
<1>1. c + 1 \in Tables /\ RangeDm(c + 1) \in BOOLEAN
  BY GateN DEF Tables, RangeDm
<1>2. e \in Pairs /\ e.node = c + 1 /\ e.hop = p.hop + 1 /\ p.hop + 1 \in Nat
  BY <1>1, AfterIsPair DEF Pairs
<1>3. /\ rows \in SUBSET Rows /\ Keeps(rows, rows0)
      /\ OneRowEach(rows0) => OneRowEach(rows)
  BY DEF RowsOf
<1>4. RowAfter(s, p, c + 1) = [seed |-> s, node |-> e.node, hop |-> e.hop, first |-> e.first]
  BY <1>2 DEF RowAfter
<1> HIDE DEF e
<1>5. /\ new \in SUBSET Rows
      /\ HasRow(new, s, c + 1, p.hop + 1)
      /\ Keeps(new, rows)
      /\ OneRowEach(rows) => OneRowEach(new)
      /\ \A r \in new :
           r \in rows \/ (r = RowAfter(s, p, c + 1) /\ ~HasRow(rows, s, c + 1, p.hop + 1))
  <2>1. /\ new \in SUBSET Rows
        /\ HasRow(new, s, e.node, e.hop)
        /\ Keeps(new, rows)
        /\ OneRowEach(rows) => OneRowEach(new)
        /\ \A r \in new :
             \/ r \in rows
             \/ /\ r = [seed |-> s, node |-> e.node, hop |-> e.hop, first |-> e.first]
                /\ ~HasRow(rows, s, e.node, e.hop)
    BY <1>2, <1>3, RecordWorks
  <2> QED BY <2>1, <1>2, <1>4
<1> HIDE DEF new
<1>6. Keeps(new, rows0)
  BY <1>3, <1>5, KeepsOn
<1>7. \A x : x \in 1..(c + 1) <=> x \in 1..c \/ x = c + 1
  BY GateN
<1>8. \A r \in new :
        r \in rows0 \/ \E x \in 1..(c + 1) : /\ <<p.node, x>> \in arcs
                                             /\ p.dm \/ RangeDm(x)
                                             /\ r = RowAfter(s, p, x)
                                             /\ ~HasRow(rows0, s, x, p.hop + 1)
  <2> TAKE r \in new
  <2>1. CASE r = RowAfter(s, p, c + 1) /\ ~HasRow(rows, s, c + 1, p.hop + 1)
    <3>1. p.hop + 1 <= p.hop + 1
      BY <1>2
    <3>2. ~HasRow(rows0, s, c + 1, p.hop + 1)
      BY <1>2, <1>3, <2>1, <3>1, KeepsRow
    <3> QED BY <1>7, <2>1, <3>2
  <2>2. CASE r \in rows
    <3>1. r \in rows0 \/ \E x \in 1..c : /\ <<p.node, x>> \in arcs
                                         /\ p.dm \/ RangeDm(x)
                                         /\ r = RowAfter(s, p, x)
                                         /\ ~HasRow(rows0, s, x, p.hop + 1)
      BY <2>2 DEF RowsOf
    <3> QED BY <1>7, <3>1
  <2> QED BY <1>5, <2>1, <2>2
<1>9. ASSUME NEW x \in 1..(c + 1), <<p.node, x>> \in arcs, p.dm \/ RangeDm(x)
      PROVE  HasRow(new, s, x, p.hop + 1)
  <2>1. CASE x = c + 1
    BY <1>5, <2>1
  <2>2. CASE x \in 1..c
    <3>1. HasRow(rows, s, x, p.hop + 1)
      BY <1>9, <2>2 DEF RowsOf
    <3>2. p.hop + 1 <= p.hop + 1
      BY <1>2
    <3> QED BY <1>2, <1>3, <1>5, <3>1, <3>2, KeepsRow
  <2> QED BY <1>7, <2>1, <2>2
<1> QED BY <1>3, <1>5, <1>6, <1>8, <1>9 DEF RowsOf, new, e

(* The loops over the children, by induction on the last of them. *)
RangeLoop(s, p, q0, known0, rows0, b, c) ==
    /\ Looked(p, q0, known0, b.queue, b.visited, c)
    /\ RowsOf(s, p, rows0, b.rows, c)
    /\ b.visited \subseteq Tables \X BOOLEAN
    /\ \A i \in DOMAIN b.queue : i \in 1..Len(q0) \/ Mark(b.queue[i]) \notin known0

LEMMA RangeChildWorks ==
    ASSUME NEW s \in Tables, NEW p \in Pairs, NEW q0 \in Seq(Pairs),
           NEW known0 \in SUBSET (Tables \X BOOLEAN), NEW rows0 \in SUBSET Rows,
           NEW b, NEW c \in 0..N, c + 1 \in 0..N,
           RangeLoop(s, p, q0, known0, rows0, b, c), <<p.node, c + 1>> \in arcs
    PROVE  RangeLoop(s, p, q0, known0, rows0, RangeChild(s, p, b, c + 1), c + 1)
<1> DEFINE e == After(p, c + 1, RangeDm(c + 1))
           stops == kind[c + 1] \in {"unknown", "dm"} \/ Mark(e) \in b.visited
           new == RangeChild(s, p, b, c + 1)
<1>1. c + 1 \in Tables /\ RangeDm(c + 1) \in BOOLEAN
  BY GateN DEF Tables, RangeDm
<1>2. /\ e \in Pairs /\ e.dm = (p.dm \/ RangeDm(c + 1))
      /\ Mark(e) = <<c + 1, p.dm \/ RangeDm(c + 1)>>
  BY <1>1, AfterIsPair
<1>3. Mark(e) \in Tables \X BOOLEAN
  <2> HIDE DEF e
  <2> QED BY <1>2 DEF Mark, Pairs
<1>4. /\ new.queue = IF stops THEN b.queue ELSE Append(b.queue, e)
      /\ new.visited = IF stops THEN b.visited ELSE b.visited \cup {Mark(e)}
      /\ new.rows = IF e.dm THEN Record(b.rows, s, e) ELSE b.rows
  BY DEF RangeChild
<1> HIDE DEF e, new
<1>5. RowsOf(s, p, rows0, new.rows, c + 1)
  <2>1. CASE p.dm \/ RangeDm(c + 1)
    <3>1. new.rows = Record(b.rows, s, e)
      BY <1>2, <1>4, <2>1
    <3> QED BY <2>1, <3>1, RowsPush DEF RangeLoop, e
  <2>2. CASE ~(p.dm \/ RangeDm(c + 1))
    <3>1. new.rows = b.rows
      BY <1>2, <1>4, <2>2
    <3> QED BY <2>2, <3>1, RowsPast DEF RangeLoop
  <2> QED BY <2>1, <2>2
<1>6. ASSUME stops PROVE RangeLoop(s, p, q0, known0, rows0, new, c + 1)
  <2>1. new.queue = b.queue /\ new.visited = b.visited
    BY <1>4, <1>6
  <2>2. Open(c + 1) => <<c + 1, p.dm \/ RangeDm(c + 1)>> \in b.visited
    BY <1>2, <1>6 DEF Open
  <2>3. Looked(p, q0, known0, new.queue, new.visited, c + 1)
    BY <2>1, <2>2, LookedPast DEF RangeLoop
  <2> QED BY <1>5, <2>1, <2>3 DEF RangeLoop
<1>7. ASSUME ~stops PROVE RangeLoop(s, p, q0, known0, rows0, new, c + 1)
  <2>1. new.queue = Append(b.queue, e) /\ new.visited = b.visited \cup {Mark(e)}
    BY <1>4, <1>7
  <2>2. Pushed(p, c + 1, e)
    BY <1>7 DEF Pushed, e
  <2>3. Looked(p, q0, known0, new.queue, new.visited, c + 1)
    BY <2>1, <2>2, LookedPush DEF RangeLoop
  <2>4. new.visited \subseteq Tables \X BOOLEAN
    BY <1>3, <2>1 DEF RangeLoop
  <2>5. b.queue \in Seq(Pairs) /\ known0 \subseteq b.visited
    BY DEF RangeLoop, Looked
  <2>6. Mark(e) \notin known0
    BY <1>7, <2>5
  <2>7. ASSUME NEW i \in DOMAIN new.queue
        PROVE  i \in 1..Len(q0) \/ Mark(new.queue[i]) \notin known0
    <3> DEFINE n == Len(b.queue)
    <3>1. /\ DOMAIN new.queue = 1..(n + 1) /\ DOMAIN b.queue = 1..n /\ n \in Nat
          /\ new.queue[n + 1] = e /\ \A j \in 1..n : new.queue[j] = b.queue[j]
      BY <1>2, <2>1, <2>5
    <3> HIDE DEF n
    <3>2. i = n + 1 \/ i \in 1..n
      BY <3>1
    <3> QED BY <2>6, <3>1, <3>2 DEF RangeLoop
  <2> QED BY <1>5, <2>3, <2>4, <2>7 DEF RangeLoop
<1> QED BY <1>6, <1>7 DEF new

LEMMA RangeTurnsOn ==
    ASSUME NEW s, NEW p, NEW b0
    PROVE  /\ RangeTurns(s, p, b0)[0] = b0
           /\ \A c \in 0..N : c + 1 \in 0..N =>
                RangeTurns(s, p, b0)[c + 1] = IF <<p.node, c + 1>> \in arcs
                             THEN RangeChild(s, p, RangeTurns(s, p, b0)[c], c + 1) ELSE RangeTurns(s, p, b0)[c]
<1> DEFINE B == RangeTurns(s, p, b0)
<1>1. B = [x \in 0..N |->
             IF x = 0 THEN b0
             ELSE IF <<p.node, x>> \in arcs THEN RangeChild(s, p, B[x - 1], x) ELSE B[x - 1]]
  BY RangeTurnsEquation
<1> HIDE DEF B
<1>2. B[0] = b0
  BY <1>1, GateN
<1>3. ASSUME NEW c \in 0..N, c + 1 \in 0..N
      PROVE  B[c + 1] = IF <<p.node, c + 1>> \in arcs THEN RangeChild(s, p, B[c], c + 1) ELSE B[c]
  <2>1. c + 1 # 0 /\ (c + 1) - 1 = c
    BY GateN
  <2> QED BY <1>1, <1>3, <2>1
<1> QED BY <1>2, <1>3 DEF B

LEMMA RangeTurnsWork ==
    ASSUME NEW s \in Tables, NEW p \in Pairs, NEW q0 \in Seq(Pairs),
           NEW known0 \in SUBSET (Tables \X BOOLEAN), NEW rows0 \in SUBSET Rows
    PROVE  RangeLoop(s, p, q0, known0, rows0,
                     RangeTurns(s, p, [queue |-> q0, visited |-> known0, rows |-> rows0])[N], N)
<1> DEFINE b0 == [queue |-> q0, visited |-> known0, rows |-> rows0]
<1> HIDE DEF b0
<1> DEFINE B == RangeTurns(s, p, b0)
<1>1. /\ B[0] = b0
      /\ \A c \in 0..N : c + 1 \in 0..N =>
           B[c + 1] = IF <<p.node, c + 1>> \in arcs THEN RangeChild(s, p, B[c], c + 1) ELSE B[c]
  BY RangeTurnsOn
<1> HIDE DEF B
<1> DEFINE T == {c \in 0..N : RangeLoop(s, p, q0, known0, rows0, B[c], c)}
<1>2. 0 \in T
  <2> USE DEF b0
  <2>1. RangeLoop(s, p, q0, known0, rows0, b0, 0)
    <3>1. DOMAIN q0 = 1..Len(q0)
      OBVIOUS
    <3> QED BY <3>1, LookedNone, RowsNone DEF RangeLoop
  <2> HIDE DEF b0
  <2> QED BY <1>1, <2>1, GateN
<1>3. ASSUME NEW c \in 0..N, c \in T, c + 1 \in 0..N PROVE c + 1 \in T
  <2>1. RangeLoop(s, p, q0, known0, rows0, B[c], c)
    BY <1>3
  <2>2. B[c + 1] = IF <<p.node, c + 1>> \in arcs THEN RangeChild(s, p, B[c], c + 1) ELSE B[c]
    BY <1>1, <1>3
  <2>3. CASE <<p.node, c + 1>> \in arcs
    BY <1>3, <2>1, <2>2, <2>3, RangeChildWorks
  <2>4. CASE <<p.node, c + 1>> \notin arcs
    <3>1. Looked(p, q0, known0, B[c].queue, B[c].visited, c + 1)
      BY <1>3, <2>1, <2>4, LookedPast DEF RangeLoop
    <3>2. RowsOf(s, p, rows0, B[c].rows, c + 1)
      BY <1>3, <2>1, <2>4, RowsPast DEF RangeLoop
    <3>3. RangeLoop(s, p, q0, known0, rows0, B[c], c + 1)
      BY <2>1, <3>1, <3>2 DEF RangeLoop
    <3> QED BY <1>3, <2>2, <2>4, <3>3
  <2> QED BY <2>3, <2>4
<1>4. N \in T
  <2> HIDE DEF T
  <2> QED BY <1>2, <1>3, GateN, UpTo
<1> QED BY <1>4 DEF B, b0

(* The adapter's.  What it knows are the pairs it has visited and those in *)
(* the queue.                                                              *)
AdapterLoop(s, p, q0, seen, rows0, b, c) ==
    /\ Looked(p, q0, seen \cup Marks(q0), b.queue, seen \cup Marks(b.queue), c)
    /\ b.rows \in SUBSET Rows
    /\ (\A x \in Tables : kind[x] # "observedDm") => RowsOf(s, p, rows0, b.rows, c)

LEMMA PassesIsOpen ==
    ASSUME NEW x \in Tables, kind \in [Tables -> AllKinds]
    PROVE  /\ Passes(x) <=> Open(x)
           /\ Open(x) => ScopeDm(x) = RangeDm(x)
           /\ kind[x] # "observedDm" => ScopeDm(x) = RangeDm(x)
           /\ ~Resolved(x) => ~ScopeDm(x)
<1>1. kind[x] \in AllKinds
  OBVIOUS
<1> QED BY <1>1 DEF AllKinds, Passes, Open, Resolved, ScopeDm, RangeDm

LEMMA MarksAppend ==
    ASSUME NEW q \in Seq(Pairs), NEW e \in Pairs
    PROVE  Marks(Append(q, e)) = Marks(q) \cup {Mark(e)}
<1> DEFINE n == Len(q)
           r == Append(q, e)
<1>1. /\ n \in Nat /\ DOMAIN q = 1..n /\ DOMAIN r = 1..(n + 1)
      /\ r[n + 1] = e /\ \A i \in 1..n : r[i] = q[i]
  OBVIOUS
<1> HIDE DEF n, r
<1>2. \A i : i \in 1..(n + 1) <=> i \in 1..n \/ i = n + 1
  BY <1>1
<1>3. Marks(r) = Marks(q) \cup {Mark(e)}
  BY <1>1, <1>2 DEF Marks
<1> QED BY <1>3 DEF r

LEMMA AdapterChildWorks ==
    ASSUME NEW s \in Tables, NEW p \in Pairs, NEW q0 \in Seq(Pairs),
           NEW seen, NEW rows0 \in SUBSET Rows, kind \in [Tables -> AllKinds],
           NEW b, NEW c \in 0..N, c + 1 \in 0..N,
           AdapterLoop(s, p, q0, seen, rows0, b, c), <<p.node, c + 1>> \in arcs
    PROVE  AdapterLoop(s, p, q0, seen, rows0, AdapterChild(s, p, b, c + 1), c + 1)
<1> DEFINE x == c + 1
           e == After(p, x, ScopeDm(x))
           new == AdapterChild(s, p, b, x)
<1>1. x \in Tables /\ ScopeDm(x) \in BOOLEAN /\ RangeDm(x) \in BOOLEAN
  BY GateN DEF Tables, ScopeDm, RangeDm
<1>2. e \in Pairs /\ e.dm = (p.dm \/ ScopeDm(x))
  BY <1>1, AfterIsPair
<1>3. /\ new.queue = IF Passes(x) THEN Append(b.queue, e) ELSE b.queue
      /\ new.rows = IF e.dm /\ (p.dm \/ Resolved(x)) THEN Record(b.rows, s, e) ELSE b.rows
  BY DEF AdapterChild
<1> HIDE DEF e, new
<1>4. Looked(p, q0, seen \cup Marks(q0), new.queue, seen \cup Marks(new.queue), x)
  <2>1. Looked(p, q0, seen \cup Marks(q0), b.queue, seen \cup Marks(b.queue), c)
    BY DEF AdapterLoop
  <2>2. CASE Passes(x)
    <3>1. Open(x) /\ e = After(p, x, RangeDm(x))
      BY <1>1, <2>2, PassesIsOpen DEF e
    <3>2. Pushed(p, x, e)
      BY <3>1 DEF Pushed, Open
    <3>3. b.queue \in Seq(Pairs)
      BY <2>1 DEF Looked
    <3>4. new.queue = Append(b.queue, e)
      BY <1>3, <2>2
    <3>5. seen \cup Marks(new.queue) = (seen \cup Marks(b.queue)) \cup {Mark(e)}
      BY <1>2, <3>3, <3>4, MarksAppend
    <3> QED BY <2>1, <3>2, <3>4, <3>5, LookedPush
  <2>3. CASE ~Passes(x)
    <3>1. new.queue = b.queue /\ ~Open(x)
      BY <1>1, <1>3, <2>3, PassesIsOpen
    <3> QED BY <2>1, <3>1, LookedPast
  <2> QED BY <2>2, <2>3
<1>5. ASSUME \A y \in Tables : kind[y] # "observedDm"
      PROVE  RowsOf(s, p, rows0, new.rows, x)
  <2>1. RowsOf(s, p, rows0, b.rows, c)
    BY <1>5 DEF AdapterLoop
  <2>2. ScopeDm(x) = RangeDm(x) /\ (~Resolved(x) => ~RangeDm(x))
    BY <1>1, <1>5, PassesIsOpen
  <2>3. e = After(p, x, RangeDm(x))
    BY <2>2 DEF e
  <2>4. CASE p.dm \/ RangeDm(x)
    <3>1. new.rows = Record(b.rows, s, e)
      BY <1>2, <1>3, <2>2, <2>4
    <3> QED BY <2>1, <2>3, <2>4, <3>1, RowsPush
  <2>5. CASE ~(p.dm \/ RangeDm(x))
    <3>1. new.rows = b.rows
      BY <1>2, <1>3, <2>2, <2>5
    <3> QED BY <2>1, <2>5, <3>1, RowsPast
  <2> QED BY <2>4, <2>5
<1>6. new.rows \in SUBSET Rows
  <2>1. b.rows \in SUBSET Rows
    BY DEF AdapterLoop
  <2>2. Record(b.rows, s, e) \in SUBSET Rows
    BY <1>2, <2>1, RecordWorks
  <2> QED BY <1>3, <2>1, <2>2
<1> QED BY <1>4, <1>5, <1>6 DEF AdapterLoop, new

LEMMA AdapterTurnsOn ==
    ASSUME NEW s, NEW p, NEW from, NEW b0
    PROVE  /\ AdapterTurns(s, p, from, b0)[0] = b0
           /\ \A c \in 0..N : c + 1 \in 0..N =>
                AdapterTurns(s, p, from, b0)[c + 1] = IF <<p.node, c + 1>> \in from
                             THEN AdapterChild(s, p, AdapterTurns(s, p, from, b0)[c], c + 1) ELSE AdapterTurns(s, p, from, b0)[c]
<1> DEFINE B == AdapterTurns(s, p, from, b0)
<1>1. B = [x \in 0..N |->
             IF x = 0 THEN b0
             ELSE IF <<p.node, x>> \in from THEN AdapterChild(s, p, B[x - 1], x) ELSE B[x - 1]]
  BY AdapterTurnsEquation
<1> HIDE DEF B
<1>2. B[0] = b0
  BY <1>1, GateN
<1>3. ASSUME NEW c \in 0..N, c + 1 \in 0..N
      PROVE  B[c + 1] = IF <<p.node, c + 1>> \in from THEN AdapterChild(s, p, B[c], c + 1) ELSE B[c]
  <2>1. c + 1 # 0 /\ (c + 1) - 1 = c
    BY GateN
  <2> QED BY <1>1, <1>3, <2>1
<1> QED BY <1>2, <1>3 DEF B

LEMMA AdapterTurnsWork ==
    ASSUME NEW s \in Tables, NEW p \in Pairs, NEW q0 \in Seq(Pairs),
           NEW seen, NEW rows0 \in SUBSET Rows, kind \in [Tables -> AllKinds],
           NEW from, \A x \in Tables : <<p.node, x>> \in from <=> <<p.node, x>> \in arcs
    PROVE  AdapterLoop(s, p, q0, seen, rows0,
                       AdapterTurns(s, p, from, [queue |-> q0, rows |-> rows0])[N], N)
<1> DEFINE b0 == [queue |-> q0, rows |-> rows0]
<1> HIDE DEF b0
<1> DEFINE B == AdapterTurns(s, p, from, b0)
<1>1. /\ B[0] = b0
      /\ \A c \in 0..N : c + 1 \in 0..N =>
           B[c + 1] = IF <<p.node, c + 1>> \in from THEN AdapterChild(s, p, B[c], c + 1) ELSE B[c]
  BY AdapterTurnsOn
<1> HIDE DEF B
<1> DEFINE T == {c \in 0..N : AdapterLoop(s, p, q0, seen, rows0, B[c], c)}
<1>2. 0 \in T
  <2> USE DEF b0
  <2>1. AdapterLoop(s, p, q0, seen, rows0, b0, 0)
    BY LookedNone, RowsNone DEF AdapterLoop
  <2> HIDE DEF b0
  <2> QED BY <1>1, <2>1, GateN
<1>3. ASSUME NEW c \in 0..N, c \in T, c + 1 \in 0..N PROVE c + 1 \in T
  <2>1. AdapterLoop(s, p, q0, seen, rows0, B[c], c)
    BY <1>3
  <2>2. B[c + 1] = IF <<p.node, c + 1>> \in arcs THEN AdapterChild(s, p, B[c], c + 1) ELSE B[c]
    BY <1>1, <1>3, GateN DEF Tables
  <2>3. CASE <<p.node, c + 1>> \in arcs
    BY <1>3, <2>1, <2>2, <2>3, AdapterChildWorks
  <2>4. CASE <<p.node, c + 1>> \notin arcs
    <3>1. Looked(p, q0, seen \cup Marks(q0), B[c].queue, seen \cup Marks(B[c].queue), c + 1)
      BY <1>3, <2>1, <2>4, LookedPast DEF AdapterLoop
    <3>2. (\A x \in Tables : kind[x] # "observedDm") => RowsOf(s, p, rows0, B[c].rows, c + 1)
      BY <1>3, <2>1, <2>4, RowsPast DEF AdapterLoop
    <3>3. AdapterLoop(s, p, q0, seen, rows0, B[c], c + 1)
      BY <2>1, <3>1, <3>2 DEF AdapterLoop
    <3> QED BY <1>3, <2>2, <2>4, <3>3
  <2> QED BY <2>3, <2>4
<1>4. N \in T
  <2> HIDE DEF T
  <2> QED BY <1>2, <1>3, GateN, UpTo
<1> QED BY <1>4 DEF B, b0

-----------------------------------------------------------------------------
(* Breadth first.  What has been expanded at hop k: its open children are  *)
(* known, and the children behind the gate have a row of k + 1 hops or     *)
(* fewer.                                                                  *)
OpenEnds(s, k) == {m \in WalkEnds(s)[k] : k = 0 \/ Open(m[1])}

Expanded(s, m, k, known, rows) ==
    \A x \in Tables : <<m[1], x>> \in arcs =>
      /\ Open(x) => <<x, m[2] \/ RangeDm(x)>> \in known
      /\ m[2] \/ RangeDm(x) => HasRow(rows, s, x, k + 1)

(* The hops in the queue are h and then h + 1; what can be reached in h    *)
(* hops or fewer has been expanded, or waits in the queue; and so has, or  *)
(* does, what is known at all.                                             *)
Levels(s, q, known, rows, h) ==
    /\ \A i \in DOMAIN q : q[i].hop = h \/ q[i].hop = h + 1
    /\ \A i, j \in DOMAIN q : i <= j => q[i].hop <= q[j].hop
    /\ \A k \in Hops : k <= h => \A m \in OpenEnds(s, k) :
         \/ \E i \in DOMAIN q : Mark(q[i]) = m /\ q[i].hop <= k
         \/ Expanded(s, m, k, known, rows)
    /\ \A m \in known :
         \/ \E i \in DOMAIN q : Mark(q[i]) = m
         \/ Expanded(s, m, h, known, rows)

LEMMA WalksArePairs ==
    ASSUME NEW s \in Tables, NEW k \in Hops
    PROVE  WalkEnds(s)[k] \subseteq Tables \X BOOLEAN
<1> DEFINE E == WalkEnds(s)
<1>1. E[k] = IF k = 0 THEN {<<s, RangeDm(s)>>} ELSE WalkOn(E[k - 1], k)
  BY WalksEquation
<1> HIDE DEF E
<1>2. {<<s, RangeDm(s)>>} \subseteq Tables \X BOOLEAN
  <2>1. RangeDm(s) \in BOOLEAN
    BY DEF RangeDm
  <2> QED BY <2>1
<1>3. ASSUME NEW ends PROVE WalkOn(ends, k) \subseteq Tables \X BOOLEAN
  <2> DEFINE F(p) == {<<c, p[2] \/ RangeDm(c)>> : c \in {x \in Tables : <<p[1], x>> \in arcs}}
  <2>1. WalkOn(ends, k) = UNION {F(p) : p \in {p \in ends : k = 1 \/ Open(p[1])}}
    BY Zenon DEF WalkOn
  <2>2. \A p : F(p) \subseteq Tables \X BOOLEAN
    <3> TAKE p
    <3>1. SUFFICES ASSUME NEW e \in F(p) PROVE e \in Tables \X BOOLEAN
      OBVIOUS
    <3>2. PICK c \in Tables : e = <<c, p[2] \/ RangeDm(c)>>
      BY Zenon
    <3>3. PICK d \in BOOLEAN : d = (p[2] \/ RangeDm(c))
      OBVIOUS
    <3>4. e = <<c, d>>
      BY Zenon, <3>2, <3>3
    <3> QED BY <3>4
  <2> HIDE DEF F
  <2> QED BY <2>1, <2>2
<1> QED BY <1>1, <1>2, <1>3 DEF E

(* The open pairs of one hop more come after open pairs. *)
LEMMA OpenBefore ==
    ASSUME NEW s \in Tables, NEW k \in Hops, k # 0, NEW c \in Tables, NEW d \in BOOLEAN,
           <<c, d>> \in WalkEnds(s)[k]
    PROVE  /\ k - 1 \in Hops
           /\ \E p \in OpenEnds(s, k - 1) : <<p[1], c>> \in arcs /\ d = (p[2] \/ RangeDm(c))
<1>1. k - 1 \in Hops /\ (k - 1 = 0 <=> k = 1)
  BY GateN DEF Hops
<1>2. PICK p \in WalkEnds(s)[k - 1] : /\ k = 1 \/ Open(p[1])
                                     /\ <<p[1], c>> \in arcs
                                     /\ d = (p[2] \/ RangeDm(c))
  BY WalkStep
<1>3. p \in OpenEnds(s, k - 1)
  BY <1>1, <1>2 DEF OpenEnds
<1> QED BY <1>1, <1>2, <1>3

LEMMA ExpandedOn ==
    ASSUME NEW s \in Tables, NEW m, NEW k \in Nat, NEW k2 \in Nat, k <= k2,
           NEW known, NEW known2, known \subseteq known2,
           NEW rows \in SUBSET Rows, NEW rows2 \in SUBSET Rows, Keeps(rows2, rows),
           Expanded(s, m, k, known, rows)
    PROVE  Expanded(s, m, k2, known2, rows2)
<1> SUFFICES ASSUME NEW x \in Tables, <<m[1], x>> \in arcs
             PROVE  /\ Open(x) => <<x, m[2] \/ RangeDm(x)>> \in known2
                    /\ m[2] \/ RangeDm(x) => HasRow(rows2, s, x, k2 + 1)
  BY DEF Expanded
<1>1. /\ Open(x) => <<x, m[2] \/ RangeDm(x)>> \in known
      /\ m[2] \/ RangeDm(x) => HasRow(rows, s, x, k + 1)
  BY DEF Expanded
<1>2. ASSUME m[2] \/ RangeDm(x) PROVE HasRow(rows2, s, x, k2 + 1)
  <2>1. HasRow(rows, s, x, k + 1)
    BY <1>1, <1>2
  <2>2. k + 1 \in Nat /\ k2 + 1 \in Nat /\ k + 1 <= k2 + 1
    OBVIOUS
  <2> QED BY <2>1, <2>2, KeepsRow
<1> QED BY <1>1, <1>2

LEMMA KeepsItself == ASSUME NEW rows \in SUBSET Rows PROVE Keeps(rows, rows)
<1>1. \A r \in rows : r.hop <= r.hop
  BY DEF Rows
<1> QED BY <1>1 DEF Keeps

(* An open pair of one hop more than an expanded one is known. *)
LEMMA NextIsKnown ==
    ASSUME NEW s \in Tables, NEW k \in Hops, k # 0, NEW m \in OpenEnds(s, k), NEW known, NEW rows,
           \A p \in OpenEnds(s, k - 1) : Expanded(s, p, k - 1, known, rows)
    PROVE  m \in known
<1>1. m \in Tables \X BOOLEAN /\ Open(m[1]) /\ m \in WalkEnds(s)[k]
  BY WalksArePairs DEF OpenEnds
<1>2. PICK c \in Tables, d \in BOOLEAN : m = <<c, d>>
  BY <1>1
<1>3. PICK p \in OpenEnds(s, k - 1) : <<p[1], c>> \in arcs /\ d = (p[2] \/ RangeDm(c))
  BY <1>1, <1>2, OpenBefore
<1>4. Open(c)
  BY <1>1, <1>2
<1>5. <<c, p[2] \/ RangeDm(c)>> \in known
  BY <1>3, <1>4 DEF Expanded
<1> QED BY <1>2, <1>3, <1>5

(* When the head of the queue is of the next level, the level before is    *)
(* complete.                                                               *)
LEMMA LevelAdvance ==
    ASSUME NEW s \in Tables, NEW q \in Seq(Pairs), q # <<>>, NEW known, NEW rows \in SUBSET Rows,
           NEW h \in Nat, Levels(s, q, known, rows, h)
    PROVE  /\ Levels(s, q, known, rows, Head(q).hop)
           /\ h <= Head(q).hop /\ Head(q).hop \in Nat
<1> DEFINE g == Head(q).hop
<1>1. 1 \in DOMAIN q /\ Head(q) = q[1] /\ DOMAIN q = 1..Len(q) /\ Len(q) \in Nat
  OBVIOUS
<1>2. g \in Nat /\ (g = h \/ g = h + 1) /\ h <= g
  BY <1>1 DEF Levels, Pairs
<1>3. CASE g = h
  BY <1>2, <1>3
<1>4. CASE g = h + 1
  <2>1. \A i \in DOMAIN q : q[i].hop = h + 1 /\ q[i].hop \in Nat
    <3> TAKE i \in DOMAIN q
    <3>1. 1 <= i /\ q[1].hop <= q[i].hop
      BY <1>1 DEF Levels
    <3>2. q[i].hop = h \/ q[i].hop = h + 1
      BY DEF Levels
    <3> QED BY <1>1, <1>4, <3>1, <3>2
  <2>2. ASSUME h \in Hops, NEW p \in OpenEnds(s, h) PROVE Expanded(s, p, h, known, rows)
    <3>1. \/ \E i \in DOMAIN q : Mark(q[i]) = p /\ q[i].hop <= h
          \/ Expanded(s, p, h, known, rows)
      BY <2>2 DEF Levels
    <3>2. ~ \E i \in DOMAIN q : q[i].hop <= h
      BY <2>1
    <3> QED BY <3>1, <3>2
  <2>3. ASSUME NEW m, Expanded(s, m, h, known, rows) PROVE Expanded(s, m, h + 1, known, rows)
    BY <2>3, ExpandedOn, KeepsItself
  <2>4. ASSUME NEW k \in Hops, k <= g, NEW m \in OpenEnds(s, k)
        PROVE  \/ \E i \in DOMAIN q : Mark(q[i]) = m /\ q[i].hop <= k
               \/ Expanded(s, m, k, known, rows)
    <3>1. CASE k <= h
      BY <2>4, <3>1 DEF Levels
    <3>2. CASE k = h + 1
      <4>1. h \in Hops /\ k - 1 = h /\ k # 0
        BY <3>2, GateN DEF Hops
      <4>2. m \in known
        BY <2>2, <2>4, <4>1, NextIsKnown
      <4>3. \/ \E i \in DOMAIN q : Mark(q[i]) = m
            \/ Expanded(s, m, h, known, rows)
        BY <4>2 DEF Levels
      <4>4. ASSUME NEW i \in DOMAIN q, Mark(q[i]) = m PROVE q[i].hop <= k
        BY <2>1, <3>2
      <4> QED BY <2>3, <3>2, <4>3, <4>4
    <3>3. k \in Nat
      BY DEF Hops
    <3> QED BY <1>4, <2>4, <3>1, <3>2, <3>3
  <2>5. ASSUME NEW m \in known
        PROVE  (\E i \in DOMAIN q : Mark(q[i]) = m) \/ Expanded(s, m, h + 1, known, rows)
    BY <2>3 DEF Levels
  <2>6. \A i, j \in DOMAIN q : i <= j => q[i].hop <= q[j].hop
    BY DEF Levels
  <2> HIDE DEF g
  <2>7. \A i \in DOMAIN q : q[i].hop = g \/ q[i].hop = g + 1
    BY <1>4, <2>1
  <2>8. Levels(s, q, known, rows, g)
    BY <1>4, <2>4, <2>5, <2>6, <2>7 DEF Levels
  <2> QED BY <1>2, <2>8 DEF g
<1> QED BY <1>2, <1>3, <1>4

(* A turn for the head of the queue, pushing the children 1..c of it. *)
LEMMA LevelTurn ==
    ASSUME NEW s \in Tables, NEW q \in Seq(Pairs), q # <<>>, NEW known, NEW rows \in SUBSET Rows,
           NEW p, p = Head(q), Levels(s, q, known, rows, p.hop),
           NEW q2, NEW known2, NEW rows2 \in SUBSET Rows, NEW c \in 0..N,
           Looked(p, Tail(q), known, q2, known2, c), Keeps(rows2, rows),
           Expanded(s, Mark(p), p.hop, known2, rows2)
    PROVE  Levels(s, q2, known2, rows2, p.hop)
<1> DEFINE n == Len(q)
           h == p.hop
           t == Tail(q)
<1>1. /\ n \in Nat /\ n >= 1 /\ DOMAIN q = 1..n /\ p = q[1] /\ p \in Pairs
      /\ t \in Seq(Pairs) /\ Len(t) = n - 1
      /\ \A i \in 1..(n - 1) : t[i] = q[i + 1]
  BY HeadTailProperties
<1>2. h \in Nat
  BY <1>1 DEF Pairs
<1>3. q2 \in Seq(Pairs) /\ Len(t) <= Len(q2) /\ DOMAIN q2 = 1..Len(q2) /\ Len(q2) \in Nat
  BY DEF Looked
<1>4. \A i \in DOMAIN q2 : (i \in 1..(n - 1) /\ q2[i] = q[i + 1]) \/ (i >= n /\ q2[i].hop = h + 1)
  <2> TAKE i \in DOMAIN q2
  <2>1. CASE i \in 1..(n - 1)
    BY <1>1, <2>1 DEF Looked
  <2>2. CASE i \notin 1..(n - 1)
    <3>1. i >= n
      BY <1>1, <1>3, <2>2
    <3>2. PICK x \in 1..c : Pushed(p, x, q2[i])
      BY <1>1, <2>2 DEF Looked
    <3>3. q2[i].hop = h + 1
      BY <3>2 DEF Pushed, After
    <3> QED BY <3>1, <3>3
  <2> QED BY <2>1, <2>2
<1>5. \A i \in DOMAIN q : i = 1 \/ (i - 1 \in DOMAIN q2 /\ q2[i - 1] = q[i])
  <2> TAKE i \in DOMAIN q
  <2>1. i = 1 \/ (i - 1 \in 1..(n - 1) /\ (i - 1) + 1 = i /\ i - 1 \in 1..Len(t))
    BY <1>1
  <2>2. \A j \in 1..Len(t) : j \in DOMAIN q2 /\ q2[j] = t[j]
    BY <1>1, <1>3 DEF Looked
  <2> QED BY <1>1, <2>1, <2>2
<1>6. /\ \A i \in DOMAIN q : q[i].hop = h \/ q[i].hop = h + 1
      /\ \A i, j \in DOMAIN q : i <= j => q[i].hop <= q[j].hop
      /\ \A k \in Hops : k <= h => \A m \in OpenEnds(s, k) :
           \/ \E i \in DOMAIN q : Mark(q[i]) = m /\ q[i].hop <= k
           \/ Expanded(s, m, k, known, rows)
      /\ \A m \in known :
           \/ \E i \in DOMAIN q : Mark(q[i]) = m
           \/ Expanded(s, m, h, known, rows)
  BY DEF Levels
<1>7. known \subseteq known2
  BY DEF Looked
<1>8. ASSUME NEW m, NEW k \in Nat, Expanded(s, m, k, known, rows)
      PROVE  Expanded(s, m, k, known2, rows2)
  <2>1. k <= k
    OBVIOUS
  <2> QED BY <1>7, <1>8, <2>1, ExpandedOn
<1>9. \A m \in known2 \ known : \E i \in DOMAIN q2 : Mark(q2[i]) = m
  BY DEF Looked
<1>10. Expanded(s, Mark(q[1]), h, known2, rows2)
  BY <1>1
<1> HIDE DEF n, h, t
<1>11. \A i \in DOMAIN q2 : q2[i].hop = h \/ q2[i].hop = h + 1
  <2> TAKE i \in DOMAIN q2
  <2>1. CASE i \in 1..(n - 1) /\ q2[i] = q[i + 1]
    <3>1. i + 1 \in DOMAIN q
      BY <1>1, <2>1
    <3> QED BY <1>6, <2>1, <3>1
  <2> QED BY <1>4, <2>1
<1>12. ASSUME NEW i \in DOMAIN q2, NEW j \in DOMAIN q2, i <= j PROVE q2[i].hop <= q2[j].hop
  <2>1. CASE i \in 1..(n - 1) /\ q2[i] = q[i + 1] /\ j \in 1..(n - 1) /\ q2[j] = q[j + 1]
    <3>1. i + 1 \in DOMAIN q /\ j + 1 \in DOMAIN q /\ i + 1 <= j + 1
      BY <1>1, <1>12, <2>1
    <3> QED BY <1>6, <2>1, <3>1
  <2>2. CASE j >= n /\ q2[j].hop = h + 1
    BY <1>2, <1>11, <2>2
  <2>3. CASE i >= n /\ j \in 1..(n - 1)
    <3>1. i \in Nat /\ j \in Nat /\ j < n
      BY <1>1, <1>3, <2>3
    <3> QED BY <1>1, <1>12, <2>3, <3>1
  <2> QED BY <1>4, <2>1, <2>2, <2>3
<1>13. ASSUME NEW k \in Hops, k <= h, NEW m \in OpenEnds(s, k)
       PROVE  \/ \E i \in DOMAIN q2 : Mark(q2[i]) = m /\ q2[i].hop <= k
              \/ Expanded(s, m, k, known2, rows2)
  <2>0. k \in Nat
    BY DEF Hops
  <2>1. CASE Expanded(s, m, k, known, rows)
    BY <1>8, <2>0, <2>1
  <2>2. ASSUME NEW i \in DOMAIN q, Mark(q[i]) = m, q[i].hop <= k
        PROVE  \/ \E j \in DOMAIN q2 : Mark(q2[j]) = m /\ q2[j].hop <= k
               \/ Expanded(s, m, k, known2, rows2)
    <3>1. CASE i = 1
      <4>1. q[1].hop = h
        BY <1>1 DEF h
      <4>2. k = h
        BY <1>2, <1>13, <2>0, <2>2, <3>1, <4>1
      <4> QED BY <1>10, <2>2, <3>1, <4>2
    <3>2. CASE i - 1 \in DOMAIN q2 /\ q2[i - 1] = q[i]
      BY <2>2, <3>2
    <3> QED BY <1>5, <3>1, <3>2
  <2> QED BY <1>6, <1>13, <2>1, <2>2
<1>14. ASSUME NEW m \in known2
       PROVE  \/ \E i \in DOMAIN q2 : Mark(q2[i]) = m
              \/ Expanded(s, m, h, known2, rows2)
  <2>1. CASE m \notin known
    BY <1>9, <2>1
  <2>2. CASE Expanded(s, m, h, known, rows)
    BY <1>2, <1>8, <2>2
  <2>3. ASSUME NEW i \in DOMAIN q, Mark(q[i]) = m
        PROVE  \/ \E j \in DOMAIN q2 : Mark(q2[j]) = m
               \/ Expanded(s, m, h, known2, rows2)
    BY <1>5, <1>10, <2>3
  <2> QED BY <1>6, <2>1, <2>2, <2>3
<1>15. Levels(s, q2, known2, rows2, h)
  BY <1>11, <1>12, <1>13, <1>14 DEF Levels
<1> QED BY <1>15 DEF h

(* All children of a pair, open ones known and gated ones recorded. *)
LEMMA TurnExpands ==
    ASSUME NEW s, NEW p \in Pairs, NEW q0, NEW known0, NEW rows0, NEW q, NEW known, NEW rows,
           Looked(p, q0, known0, q, known, N), RowsOf(s, p, rows0, rows, N)
    PROVE  Expanded(s, Mark(p), p.hop, known, rows)
<1>1. Mark(p)[1] = p.node /\ Mark(p)[2] = p.dm
  BY DEF Mark
<1>2. \A x \in 1..N : <<p.node, x>> \in arcs /\ Open(x) => <<x, p.dm \/ RangeDm(x)>> \in known
  BY DEF Looked
<1>3. \A x \in 1..N : <<p.node, x>> \in arcs /\ (p.dm \/ RangeDm(x)) => HasRow(rows, s, x, p.hop + 1)
  BY DEF RowsOf
<1> QED BY <1>1, <1>2, <1>3 DEF Expanded, Tables

LEMMA LevelsStart ==
    ASSUME NEW s \in Tables, NEW e \in Pairs, e.hop = 0, Mark(e) = <<s, RangeDm(s)>>, NEW rows
    PROVE  Levels(s, <<e>>, {Mark(e)}, rows, 0)
<1>1. DOMAIN <<e>> = {1} /\ <<e>>[1] = e
  OBVIOUS
<1>2. \A k \in Hops : k <= 0 => k = 0
  BY DEF Hops
<1>3. OpenEnds(s, 0) = {Mark(e)}
  BY WalkStart DEF OpenEnds
<1>4. \A k \in Hops : k <= 0 => \A m \in OpenEnds(s, k) :
        \E i \in DOMAIN <<e>> : Mark(<<e>>[i]) = m /\ <<e>>[i].hop <= k
  BY <1>1, <1>2, <1>3
<1>5. \A m \in {Mark(e)} : \E i \in DOMAIN <<e>> : Mark(<<e>>[i]) = m
  BY <1>1
<1>6. \A i \in DOMAIN <<e>> : <<e>>[i].hop = 0
  BY <1>1
<1> QED BY <1>4, <1>5, <1>6 DEF Levels

(* With nothing left in the queue, all that can be reached is expanded. *)
LEMMA LevelsDone ==
    ASSUME NEW s \in Tables, NEW known, NEW rows \in SUBSET Rows,
           NEW h \in Nat, Levels(s, <<>>, known, rows, h),
           NEW k \in Hops, NEW m \in OpenEnds(s, k)
    PROVE  Expanded(s, m, k, known, rows)
<1> DEFINE T == {j \in Hops : \A p \in OpenEnds(s, j) : Expanded(s, p, j, known, rows)}
<1>0. DOMAIN <<>> = {}
  OBVIOUS
<1>1. \A j \in Hops : j <= h => j \in T
  BY <1>0 DEF Levels
<1>2. \A p \in known : Expanded(s, p, h, known, rows)
  BY <1>0 DEF Levels
<1>3. 0 \in T
  BY <1>1, GateN
<1>4. ASSUME NEW j \in Hops, j \in T, j + 1 \in Hops PROVE j + 1 \in T
  <2>1. j \in Nat /\ j + 1 # 0 /\ (j + 1) - 1 = j /\ j + 1 \in Nat
    BY DEF Hops
  <2>2. CASE j + 1 <= h
    BY <1>1, <1>4, <2>2
  <2>3. CASE h <= j + 1
    <3>1. ASSUME NEW p \in OpenEnds(s, j + 1) PROVE Expanded(s, p, j + 1, known, rows)
      <4>1. p \in known
        BY <1>4, <2>1, NextIsKnown
      <4> QED BY <1>2, <2>1, <2>3, <4>1, ExpandedOn, KeepsItself
    <3> QED BY <1>4, <3>1
  <2> QED BY <2>1, <2>2, <2>3
<1>5. k \in T
  <2> HIDE DEF T
  <2> QED BY <1>3, <1>4, GateN, UpTo DEF Hops
<1> QED BY <1>5

Complete(rows, s) ==
    \A k \in Hops \ {0}, c \in Tables : <<c, TRUE>> \in WalkEnds(s)[k] => HasRow(rows, s, c, k)

LEMMA RowsDone ==
    ASSUME NEW s \in Tables, NEW known, NEW rows \in SUBSET Rows,
           NEW h \in Nat, Levels(s, <<>>, known, rows, h)
    PROVE  Complete(rows, s)
<1> SUFFICES ASSUME NEW k \in Hops \ {0}, NEW c \in Tables, <<c, TRUE>> \in WalkEnds(s)[k]
             PROVE  HasRow(rows, s, c, k)
  BY DEF Complete
<1>1. k - 1 \in Hops /\ (k - 1) + 1 = k
  BY GateN DEF Hops
<1>2. PICK p \in OpenEnds(s, k - 1) : <<p[1], c>> \in arcs /\ TRUE = (p[2] \/ RangeDm(c))
  BY OpenBefore
<1>3. Expanded(s, p, k - 1, known, rows)
  BY <1>1, LevelsDone
<1>4. HasRow(rows, s, c, (k - 1) + 1)
  BY <1>2, <1>3 DEF Expanded
<1> QED BY <1>1, <1>4

LEMMA CompleteOn ==
    ASSUME NEW s, NEW rows \in SUBSET Rows, NEW rows2 \in SUBSET Rows,
           Keeps(rows2, rows), Complete(rows, s)
    PROVE  Complete(rows2, s)
<1> SUFFICES ASSUME NEW k \in Hops \ {0}, NEW c \in Tables, <<c, TRUE>> \in WalkEnds(s)[k]
             PROVE  HasRow(rows2, s, c, k)
  BY DEF Complete
<1>1. k \in Nat /\ k <= k
  BY DEF Hops
<1>2. HasRow(rows, s, c, k)
  BY DEF Complete
<1> QED BY <1>1, <1>2, KeepsRow

-----------------------------------------------------------------------------
(* What is in the queue can be reached, in as many hops as it says, and    *)
(* through the DM table it says.                                           *)
WellGiven == kind \in [Tables -> AllKinds] /\ arcs \subseteq Crawled(kind) \X Tables

FirstSound(s, e) ==
    /\ e.dm => e.first # Nobody /\ FirstOnWalk(s, e.first, e.node, e.hop)
    /\ ~e.dm => e.first = Nobody /\ ~RangeDm(s)

Sound(s, e) ==
    /\ e.hop \in Hops
    /\ Mark(e) \in WalkEnds(s)[e.hop]
    /\ e.hop = 0 \/ kind[e.node] \notin {"unknown", "dm"}
    /\ FirstSound(s, e)

SoundRow(r) ==
    /\ r.hop \in Hops \ {0}
    /\ <<r.node, TRUE>> \in WalkEnds(r.seed)[r.hop]
    /\ FirstOnWalk(r.seed, r.first, r.node, r.hop)

LEMMA SoundStart ==
    ASSUME NEW s \in Tables
    PROVE  /\ Start(s, RangeDm(s)) \in Pairs /\ Sound(s, Start(s, RangeDm(s)))
           /\ Start(s, RangeDm(s)).hop = 0
           /\ Mark(Start(s, RangeDm(s))) = <<s, RangeDm(s)>>
<1> DEFINE e == Start(s, RangeDm(s))
<1>1. RangeDm(s) \in BOOLEAN /\ s # Nobody
  BY GateN DEF RangeDm, Tables, Nobody
<1>2. /\ e.node = s /\ e.hop = 0 /\ e.dm = RangeDm(s) /\ e.first = IF RangeDm(s) THEN s ELSE Nobody
      /\ e \in Pairs
  BY <1>1 DEF Start, Pairs
<1>3. Mark(e) = <<s, RangeDm(s)>>
  BY DEF Mark, Start
<1> HIDE DEF e
<1>4. Mark(e) \in WalkEnds(s)[0]
  BY <1>3, WalkStart
<1>5. FirstSound(s, e)
  BY <1>1, <1>2 DEF FirstSound, FirstOnWalk
<1>6. Sound(s, e)
  BY <1>2, <1>4, <1>5, GateN DEF Sound
<1> QED BY <1>2, <1>3, <1>6 DEF e

LEMMA SoundChild ==
    ASSUME WellGiven, NEW s \in Tables, NEW p \in Pairs, Sound(s, p), p.hop + 1 \in Hops,
           NEW x \in Tables, <<p.node, x>> \in arcs, NEW e, e = After(p, x, RangeDm(x))
    PROVE  /\ Mark(e) \in WalkEnds(s)[e.hop]
           /\ FirstSound(s, e)
           /\ e.node = x /\ e.hop = p.hop + 1 /\ e.dm = (p.dm \/ RangeDm(x))
<1> DEFINE k == p.hop
<1>1. /\ p.node \in Tables /\ p.dm \in BOOLEAN /\ k \in Nat /\ k \in Hops
      /\ Mark(p) = <<p.node, p.dm>>
  BY DEF Pairs, Sound, Mark
<1>2. RangeDm(x) \in BOOLEAN /\ x # Nobody /\ RangeDm(s) \in BOOLEAN
  BY GateN DEF RangeDm, Tables, Nobody
<1>3. /\ e.node = x /\ e.hop = k + 1 /\ e.dm = (p.dm \/ RangeDm(x))
      /\ e.first = IF p.first = Nobody /\ RangeDm(x) THEN x ELSE p.first
      /\ Mark(e) = <<x, p.dm \/ RangeDm(x)>>
  BY DEF After, Mark
<1>4. k = 0 \/ Open(p.node)
  <2>1. p.node \in Crawled(kind) /\ kind[p.node] \in AllKinds
    BY <1>1 DEF WellGiven
  <2> QED BY <2>1 DEF Sound, Crawled, AllKinds, Open
<1>5. k + 1 \in Hops \ {0} /\ (k + 1) - 1 = k /\ (k + 1 = 1 <=> k = 0) /\ k + 1 \in 1..(k + 1)
  BY <1>1
<1>6. <<p.node, p.dm>> \in WalkEnds(s)[k]
  BY <1>1 DEF Sound
<1>7. ASSUME NEW d, d = (p.dm \/ RangeDm(x)) PROVE <<x, d>> \in WalkEnds(s)[k + 1]
  <2>1. \E m \in WalkEnds(s)[k] : /\ k + 1 = 1 \/ Open(m[1])
                                  /\ <<m[1], x>> \in arcs
                                  /\ d = (m[2] \/ RangeDm(x))
    BY <1>4, <1>5, <1>6, <1>7
  <2> QED BY <1>5, <2>1, WalkStep
<1>8. Mark(e) \in WalkEnds(s)[e.hop]
  BY <1>3, <1>7
<1>9. FirstSound(s, e)
  <2>1. CASE RangeDm(s)
    <3>1. p.dm /\ p.first # Nobody /\ p.first = s
      BY <2>1 DEF Sound, FirstSound, FirstOnWalk
    <3> QED BY <1>3, <2>1, <3>1 DEF FirstSound, FirstOnWalk
  <2>2. CASE ~RangeDm(s) /\ p.dm
    <3> DEFINE f == p.first
    <3>1. f # Nobody /\ RangeDm(f)
      BY <2>2 DEF Sound, FirstSound, FirstOnWalk
    <3>2. PICK j \in 1..k :
            /\ \E y \in Tables : /\ <<y, FALSE>> \in WalkEnds(s)[j - 1]
                                 /\ <<y, f>> \in arcs /\ (j = 1 \/ Open(y))
            /\ \/ j = k /\ f = p.node
               \/ j < k /\ Open(f) /\ <<p.node, TRUE>> \in WalkEnds(f)[k - j]
      BY <2>2 DEF Sound, FirstSound, FirstOnWalk
    <3>3. e.first = f /\ e.dm = TRUE
      BY <1>1, <1>2, <1>3, <2>2, <3>1
    <3>4. /\ j \in 1..(k + 1) /\ j < k + 1 /\ (k + 1) - j \in Hops \ {0}
          /\ ((k + 1) - j) - 1 = k - j
          /\ k # 0 /\ j \in Nat
      BY <1>1, <1>5, GateN DEF Hops
    <3>5. Open(p.node)
      BY <1>4, <3>4
    <3>6. Open(f)
      BY <3>2, <3>5
    <3>7. <<p.node, TRUE>> \in WalkEnds(f)[k - j]
      <4>1. CASE j = k /\ f = p.node
        <5>1. k - j = 0 /\ RangeDm(f) = TRUE
          BY <1>1, <3>1, <4>1 DEF RangeDm
        <5> QED BY <4>1, <5>1, WalkStart
      <4> QED BY <3>2, <4>1
    <3>8. <<x, TRUE>> \in WalkEnds(f)[(k + 1) - j]
      <4>1. \E m \in WalkEnds(f)[((k + 1) - j) - 1] : /\ (k + 1) - j = 1 \/ Open(m[1])
                                                     /\ <<m[1], x>> \in arcs
                                                     /\ TRUE = (m[2] \/ RangeDm(x))
        <5>1. <<p.node, TRUE>> \in WalkEnds(f)[((k + 1) - j) - 1]
          BY <3>4, <3>7
        <5> QED BY <3>5, <5>1
      <4> QED BY <3>4, <4>1, WalkStep
    <3>9. FirstOnWalk(s, f, x, k + 1)
      BY <2>2, <3>1, <3>2, <3>4, <3>6, <3>8 DEF FirstOnWalk
    <3> QED BY <1>3, <3>1, <3>3, <3>9 DEF FirstSound
  <2>3. CASE ~RangeDm(s) /\ ~p.dm /\ RangeDm(x)
    <3>1. p.first = Nobody
      BY <2>3 DEF Sound, FirstSound
    <3>2. e.first = x
      BY <1>3, <2>3, <3>1
    <3>3. <<p.node, FALSE>> \in WalkEnds(s)[(k + 1) - 1]
      BY <1>1, <1>5, <1>6, <2>3
    <3>4. FirstOnWalk(s, x, x, k + 1)
      BY <1>1, <1>4, <1>5, <2>3, <3>3 DEF FirstOnWalk
    <3> QED BY <1>2, <1>3, <2>3, <3>2, <3>4 DEF FirstSound
  <2>4. CASE ~RangeDm(s) /\ ~p.dm /\ ~RangeDm(x)
    <3>1. p.first = Nobody
      BY <2>4 DEF Sound, FirstSound
    <3> QED BY <1>3, <2>4, <3>1 DEF FirstSound
  <2> QED BY <2>1, <2>2, <2>3, <2>4
<1> QED BY <1>3, <1>8, <1>9

(* There are two pairs for each table. *)
LEMMA PairCount ==
    ASSUME NEW V \in SUBSET (Tables \X BOOLEAN)
    PROVE  IsFiniteSet(V) /\ Cardinality(V) \in Nat /\ Cardinality(V) <= 2 * N
<1> DEFINE T == Tables \X BOOLEAN
           f == [m \in T |-> IF m[2] THEN m[1] ELSE N + m[1]]
<1>1. IsFiniteSet(1..(2 * N)) /\ Cardinality(1..(2 * N)) = 2 * N
  <2>1. 1 \in Int /\ 2 * N \in Int /\ ~(1 > 2 * N) /\ 2 * N - 1 + 1 = 2 * N
    BY GateN
  <2> QED BY <2>1, FS_Interval
<1>2. \A m \in T : m[1] \in 1..N /\ m[2] \in BOOLEAN /\ m = <<m[1], m[2]>>
  BY DEF Tables
<1>3. f \in [T -> 1..(2 * N)]
  <2>1. \A a \in 1..N : a \in 1..(2 * N) /\ N + a \in 1..(2 * N)
    BY GateN
  <2> QED BY <1>2, <2>1
<1>4. ASSUME NEW a \in T, NEW b \in T, f[a] = f[b] PROVE a = b
  <2>1. a[1] = b[1] /\ a[2] = b[2]
    <3>1. \A x \in 1..N, y \in 1..N : x # N + y /\ (N + x = N + y => x = y)
      BY GateN
    <3>2. f[a] = (IF a[2] THEN a[1] ELSE N + a[1]) /\ f[b] = (IF b[2] THEN b[1] ELSE N + b[1])
      OBVIOUS
    <3>3. CASE a[2] /\ b[2]
      BY <1>2, <1>4, <3>2, <3>3
    <3>4. CASE a[2] /\ ~b[2]
      BY <1>2, <1>4, <3>1, <3>2, <3>4
    <3>5. CASE ~a[2] /\ b[2]
      BY <1>2, <1>4, <3>1, <3>2, <3>5
    <3>6. CASE ~a[2] /\ ~b[2]
      BY <1>2, <1>4, <3>1, <3>2, <3>6
    <3> QED BY <3>3, <3>4, <3>5, <3>6
  <2> QED BY <1>2, <2>1
<1>5. f \in Injection(T, 1..(2 * N))
  BY <1>3, <1>4 DEF Injection, IsInjective
<1> HIDE DEF f
<1>6. IsFiniteSet(T) /\ Cardinality(T) <= 2 * N
  BY <1>1, <1>5, FS_Injection
<1>7. IsFiniteSet(V) /\ Cardinality(V) <= Cardinality(T)
  BY <1>6, FS_Subset
<1>8. Cardinality(V) \in Nat /\ Cardinality(T) \in Nat
  BY <1>6, <1>7, FS_CardinalityType
<1> QED BY <1>6, <1>7, <1>8, GateN

LEMMA PairsGrow ==
    ASSUME NEW V \in SUBSET (Tables \X BOOLEAN), NEW W \in SUBSET (Tables \X BOOLEAN), V \subseteq W
    PROVE  /\ Cardinality(V) <= Cardinality(W)
           /\ \A m \in W \ V : Cardinality(V) + 1 <= Cardinality(W)
<1>1. IsFiniteSet(V) /\ IsFiniteSet(W) /\ Cardinality(V) \in Nat /\ Cardinality(W) \in Nat
  BY PairCount
<1>2. Cardinality(V) <= Cardinality(W)
  BY <1>1, FS_Subset
<1>3. ASSUME NEW m \in W \ V PROVE Cardinality(V) + 1 <= Cardinality(W)
  <2>1. Cardinality(V \cup {m}) = Cardinality(V) + 1
    BY <1>1, FS_AddElement
  <2>2. V \cup {m} \in SUBSET W
    OBVIOUS
  <2> QED BY <1>1, <2>1, <2>2, FS_Subset
<1> QED BY <1>2, <1>3

(* All pairs in the queue are sound, and of fewer than n hops. *)
QueueSound(s, q, n) == \A i \in DOMAIN q : Sound(s, q[i]) /\ q[i].hop < n

LEMMA HeadOfQueue ==
    ASSUME NEW q \in Seq(Pairs), q # <<>>
    PROVE  /\ Head(q) = q[1] /\ 1 \in DOMAIN q /\ Head(q) \in Pairs /\ Tail(q) \in Seq(Pairs)
           /\ \A i \in 1..Len(Tail(q)) : i + 1 \in DOMAIN q /\ Tail(q)[i] = q[i + 1]
           /\ Marks(q) = {Mark(Head(q))} \cup Marks(Tail(q))
<1> DEFINE n == Len(q)
           t == Tail(q)
<1>1. /\ n \in Nat /\ n >= 1 /\ DOMAIN q = 1..n /\ Head(q) = q[1] /\ Head(q) \in Pairs
      /\ t \in Seq(Pairs) /\ DOMAIN t = 1..(n - 1) /\ Len(t) = n - 1
      /\ \A i \in 1..(n - 1) : t[i] = q[i + 1]
  BY HeadTailProperties
<1> HIDE DEF n, t
<1>2. \A i \in 1..(n - 1) : i + 1 \in 1..n
  BY <1>1
<1>3. \A i \in 1..n : i = 1 \/ (i - 1 \in 1..(n - 1) /\ (i - 1) + 1 = i)
  BY <1>1
<1>4. 1 \in 1..n
  BY <1>1
<1>5. ASSUME NEW i \in 1..n PROVE q[i] = q[1] \/ \E j \in 1..(n - 1) : t[j] = q[i]
  BY <1>1, <1>3
<1>6. Marks(q) = {Mark(q[1])} \cup Marks(t)
  <2>1. \A m : m \in Marks(q) <=> \E i \in 1..n : m = Mark(q[i])
    BY <1>1 DEF Marks
  <2>2. \A m : m \in Marks(t) <=> \E i \in 1..(n - 1) : m = Mark(t[i])
    BY <1>1 DEF Marks
  <2> QED BY <1>1, <1>2, <1>4, <1>5, <2>1, <2>2
<1> QED BY <1>1, <1>2, <1>4, <1>6 DEF t

LEMMA QueueSoundTurn ==
    ASSUME WellGiven, NEW s \in Tables, NEW q \in Seq(Pairs), q # <<>>, NEW p, p = Head(q),
           NEW n \in Nat, QueueSound(s, q, n), p.hop + 1 \in Hops,
           NEW c \in 0..N, NEW known, NEW q2, NEW known2, Looked(p, Tail(q), known, q2, known2, c),
           NEW n2 \in Nat, n <= n2,
           \A i \in DOMAIN q2 : i \in 1..Len(Tail(q)) \/ p.hop + 1 < n2
    PROVE  QueueSound(s, q2, n2)
<1> SUFFICES ASSUME NEW i \in DOMAIN q2 PROVE Sound(s, q2[i]) /\ q2[i].hop < n2
  BY DEF QueueSound
<1>1. p \in Pairs /\ Sound(s, p)
  BY HeadOfQueue DEF QueueSound
<1>2. CASE i \in 1..Len(Tail(q))
  <2>1. i + 1 \in DOMAIN q /\ q2[i] = q[i + 1]
    BY <1>2, HeadOfQueue DEF Looked
  <2>2. Sound(s, q[i + 1]) /\ q[i + 1].hop < n
    BY <2>1 DEF QueueSound
  <2>3. q[i + 1].hop \in Nat
    BY <2>2 DEF Sound, Hops
  <2>4. q[i + 1].hop < n2
    BY <2>2, <2>3
  <2> QED BY <2>1, <2>2, <2>4
<1>3. CASE i \notin 1..Len(Tail(q))
  <2>1. PICK x \in 1..c : Pushed(p, x, q2[i])
    BY <1>3 DEF Looked
  <2> DEFINE e == q2[i]
  <2>2. x \in Tables /\ <<p.node, x>> \in arcs /\ kind[x] \notin {"unknown", "dm"}
        /\ e = After(p, x, RangeDm(x))
    BY <2>1, GateN DEF Pushed, Tables
  <2> HIDE DEF e
  <2>3. /\ Mark(e) \in WalkEnds(s)[e.hop]
        /\ FirstSound(s, e)
        /\ e.node = x /\ e.hop = p.hop + 1
    BY <1>1, <2>2, SoundChild
  <2>4. Sound(s, e)
    BY <2>2, <2>3 DEF Sound
  <2>5. e.hop < n2
    BY <1>3, <2>3
  <2> QED BY <2>4, <2>5 DEF e
<1> QED BY <1>2, <1>3

LEMMA RowsSoundTurn ==
    ASSUME WellGiven, NEW s \in Tables, NEW p \in Pairs, Sound(s, p), p.hop + 1 \in Hops,
           NEW rows, NEW rows2, RowsOf(s, p, rows, rows2, N), \A r \in rows : SoundRow(r)
    PROVE  \A r \in rows2 : SoundRow(r)
<1> SUFFICES ASSUME NEW r \in rows2, r \notin rows PROVE SoundRow(r)
  OBVIOUS
<1>1. PICK x \in 1..N : /\ <<p.node, x>> \in arcs
                        /\ p.dm \/ RangeDm(x)
                        /\ r = RowAfter(s, p, x)
  BY DEF RowsOf
<1> DEFINE e == After(p, x, RangeDm(x))
<1>2. r.seed = s /\ r.node = x /\ r.hop = p.hop + 1 /\ r.first = e.first
  BY <1>1 DEF RowAfter
<1> HIDE DEF e
<1>3. /\ Mark(e) \in WalkEnds(s)[e.hop]
      /\ FirstSound(s, e)
      /\ e.node = x /\ e.hop = p.hop + 1 /\ e.dm = (p.dm \/ RangeDm(x))
  BY <1>1, SoundChild DEF e, Tables
<1>4. e.dm = TRUE
  BY <1>1, <1>3
<1>5. Mark(e) = <<x, TRUE>>
  BY <1>3, <1>4 DEF Mark
<1>6. p.hop + 1 # 0
  BY DEF Pairs
<1> QED BY <1>2, <1>3, <1>4, <1>5, <1>6 DEF SoundRow, FirstSound

-----------------------------------------------------------------------------
(* The order of the queue.  A trail is a walk with the pair it ends at and *)
(* a number that tells its tables: walks of as many hops are ordered by    *)
(* the guids of their tables, the first that differs counting, and so are  *)
(* their numbers.                                                          *)
Onward(n, x) == n * (N + 1) + x

TrailOn(trails, k) ==
    {w \in Pairs \X Nat : \E t \in trails, x \in Tables :
       /\ <<t[1].node, x>> \in arcs /\ (k = 1 \/ Open(t[1].node))
       /\ w = <<After(t[1], x, RangeDm(x)), Onward(t[2], x)>>}

Trails(s) ==
    LET trails[k \in Hops] ==
          IF k = 0 THEN {<<Start(s, RangeDm(s)), 0>>} ELSE TrailOn(trails[k - 1], k)
    IN  trails

LEMMA TrailsEquation ==
    ASSUME NEW s
    PROVE  Trails(s) =
             [k \in Hops |->
                IF k = 0 THEN {<<Start(s, RangeDm(s)), 0>>} ELSE TrailOn(Trails(s)[k - 1], k)]
<1> DEFINE e0 == {<<Start(s, RangeDm(s)), 0>>}
           Ok == {n \in 0..(2 * N) :
                    \E g : g = [k \in 0..n |-> IF k = 0 THEN e0 ELSE TrailOn(g[k - 1], k)]}
<1>1. 0 \in Ok
  <2> DEFINE g == [k \in 0..0 |-> e0]
  <2>1. g = [k \in 0..0 |-> IF k = 0 THEN e0 ELSE TrailOn(g[k - 1], k)]
    OBVIOUS
  <2>2. 0 \in 0..(2 * N)
    BY GateN
  <2> QED BY <2>1, <2>2
<1>2. ASSUME NEW n \in 0..(2 * N), n \in Ok, n + 1 \in 0..(2 * N) PROVE n + 1 \in Ok
  <2>1. PICK g : g = [k \in 0..n |-> IF k = 0 THEN e0 ELSE TrailOn(g[k - 1], k)]
    BY <1>2
  <2> HIDE DEF e0
  <2> DEFINE h == [k \in 0..(n + 1) |-> IF k = n + 1 THEN TrailOn(g[n], n + 1) ELSE g[k]]
  <2>2. ASSUME NEW k \in 0..(n + 1)
        PROVE  h[k] = IF k = 0 THEN e0 ELSE TrailOn(h[k - 1], k)
    <3>1. CASE k = 0
      BY <2>1, <3>1
    <3>2. CASE k = n + 1
      BY <2>1, <3>2
    <3>3. CASE k \in 1..n
      BY <2>1, <3>3
    <3> QED BY <3>1, <3>2, <3>3
  <2>3. h = [k \in 0..(n + 1) |-> IF k = 0 THEN e0 ELSE TrailOn(h[k - 1], k)]
    BY <2>2
  <2> HIDE DEF h
  <2> QED BY <1>2, <2>3
<1>3. 2 * N \in Ok
  <2> HIDE DEF Ok
  <2>1. 2 * N \in 0..(2 * N)
    BY GateN
  <2> QED BY <1>1, <1>2, <2>1, GateN, UpTo
<1>4. PICK g : g = [k \in Hops |-> IF k = 0 THEN e0 ELSE TrailOn(g[k - 1], k)]
  BY <1>3 DEF Hops
<1>5. Trails(s) =
        CHOOSE f : f = [k \in Hops |-> IF k = 0 THEN {<<Start(s, RangeDm(s)), 0>>} ELSE TrailOn(f[k - 1], k)]
  BY Zenon DEF Trails, TrailOn
<1> QED
  BY <1>4, <1>5

(* The numbers are ordered as the trails are. *)
LEMMA OnwardGrows ==
    ASSUME NEW m \in Nat, NEW n \in Nat, NEW x \in Tables, NEW y \in Tables
    PROVE  /\ Onward(m, x) \in Nat
           /\ m < n => Onward(m, x) < Onward(n, y)
           /\ m < n => Onward(m, x) < Onward(n, 0)
           /\ Onward(n, 0) < Onward(n, x)
           /\ x < y => Onward(m, x) < Onward(m, y)
           /\ m <= n => Onward(m, x) <= Onward(n, x)
           /\ m < n => Onward(m, 0) <= Onward(n, 0)
<1> DEFINE M == N + 1
<1>1. M \in Nat /\ x \in Nat /\ y \in Nat /\ 1 <= x /\ x < M /\ 1 <= y /\ y < M
  BY GateN DEF Tables
<1> HIDE DEF M
<1>2. m * M \in Nat /\ n * M \in Nat
  BY <1>1
<1>3. m < n => m * M + M <= n * M
  <2> SUFFICES ASSUME m < n PROVE m * M + M <= n * M
    OBVIOUS
  <2>1. PICK d \in Nat : n = (m + 1) + d
    <3>1. n - (m + 1) \in Nat /\ n = (m + 1) + (n - (m + 1))
      OBVIOUS
    <3> QED BY <3>1
  <2>2. n * M = m * M + M + d * M /\ d * M \in Nat
    BY <2>1, <1>1
  <2> QED BY <2>2, <1>1, <1>2
<1>4. /\ Onward(m, x) = m * M + x /\ Onward(n, y) = n * M + y /\ Onward(m, y) = m * M + y
      /\ Onward(n, 0) = n * M /\ Onward(n, x) = n * M + x /\ Onward(m, 0) = m * M
  BY <1>1, <1>2 DEF Onward, M
<1>5. m = n \/ m < n \/ n < m
  OBVIOUS
<1> DEFINE a == m * M
           b == n * M
<1>6. a \in Nat /\ b \in Nat /\ (m < n => a + M <= b) /\ (m = n => a = b)
  BY <1>2, <1>3
<1>7. /\ Onward(m, x) = a + x /\ Onward(n, y) = b + y /\ Onward(m, y) = a + y
      /\ Onward(n, 0) = b /\ Onward(n, x) = b + x /\ Onward(m, 0) = a
  BY <1>4
<1> HIDE DEF a, b
<1> QED BY <1>1, <1>5, <1>6, <1>7

LEMMA StartIsPair ==
    ASSUME NEW s \in Tables
    PROVE  /\ Start(s, RangeDm(s)) \in Pairs /\ Start(s, RangeDm(s)).hop = 0
           /\ Mark(Start(s, RangeDm(s))) = <<s, RangeDm(s)>>
  BY SoundStart

LEMMA TrailStart == ASSUME NEW s PROVE Trails(s)[0] = {<<Start(s, RangeDm(s)), 0>>}
  BY GateN, TrailsEquation

LEMMA TrailStep ==
    ASSUME NEW s, NEW k \in Hops, k + 1 \in Hops
    PROVE  /\ Trails(s)[k + 1] = TrailOn(Trails(s)[k], k + 1)
           /\ k + 1 = 1 <=> k = 0
<1>1. k + 1 # 0 /\ (k + 1) - 1 = k /\ (k + 1 = 1 <=> k = 0) /\ k \in Nat
  BY GateN DEF Hops
<1> QED BY <1>1, TrailsEquation

(* A trail ends where a walk does, and is told by its number. *)
LEMMA TrailsAreWalks ==
    ASSUME NEW s \in Tables, NEW k \in Hops, NEW w \in Trails(s)[k]
    PROVE  /\ w[1] \in Pairs /\ w[2] \in Nat /\ w[1].hop = k
           /\ Mark(w[1]) \in WalkEnds(s)[k] /\ w = <<w[1], w[2]>>
<1> DEFINE Ok(j, v) == /\ v[1] \in Pairs /\ v[2] \in Nat /\ v[1].hop = j
                       /\ Mark(v[1]) \in WalkEnds(s)[j] /\ v = <<v[1], v[2]>>
           T == {j \in Hops : \A v \in Trails(s)[j] : Ok(j, v)}
<1>1. 0 \in T
  BY GateN, TrailStart, StartIsPair, WalkStart
<1>2. ASSUME NEW j \in 0..(2 * N), j \in T, j + 1 \in 0..(2 * N) PROVE j + 1 \in T
  <2>1. j \in Hops /\ j + 1 \in Hops /\ j + 1 \in Hops \ {0} /\ (j + 1) - 1 = j
    BY <1>2, GateN DEF Hops
  <2> SUFFICES ASSUME NEW v \in Trails(s)[j + 1] PROVE Ok(j + 1, v)
    BY <2>1
  <2> DEFINE S == Trails(s)[j]
  <2>0. v \in TrailOn(S, j + 1)
    BY <2>1, TrailStep
  <2> HIDE DEF S
  <2>2. v \in Pairs \X Nat
    BY <2>0 DEF TrailOn
  <2>3. PICK t \in S, x \in Tables :
          /\ <<t[1].node, x>> \in arcs /\ (j + 1 = 1 \/ Open(t[1].node))
          /\ v = <<After(t[1], x, RangeDm(x)), Onward(t[2], x)>>
    BY <2>0 DEF TrailOn
  <2>4. t[1] \in Pairs /\ t[1].hop = j /\ Mark(t[1]) \in WalkEnds(s)[j]
    BY <1>2 DEF S
  <2>5. /\ v[1].hop = j + 1 /\ Mark(v[1]) = <<x, t[1].dm \/ RangeDm(x)>>
    <3>1. v[1] = After(t[1], x, RangeDm(x)) /\ RangeDm(x) \in BOOLEAN
      BY <2>3 DEF RangeDm
    <3> QED BY <3>1, <2>4, AfterIsPair
  <2>6. Mark(t[1]) = <<t[1].node, t[1].dm>>
    BY DEF Mark
  <2>7. ASSUME NEW d, d = (t[1].dm \/ RangeDm(x)) PROVE <<x, d>> \in WalkEnds(s)[j + 1]
    <3> DEFINE i == j + 1
    <3>1. i \in Hops \ {0} /\ i - 1 = j /\ (i = 1 <=> j + 1 = 1)
      BY <2>1
    <3> HIDE DEF i
    <3>2. WalkEnds(s)[i - 1] = WalkEnds(s)[j]
      BY <3>1
    <3>3. \E p \in WalkEnds(s)[j] : /\ i = 1 \/ Open(p[1])
                                   /\ <<p[1], x>> \in arcs
                                   /\ d = (p[2] \/ RangeDm(x))
      <4>1. Mark(t[1])[1] = t[1].node /\ Mark(t[1])[2] = t[1].dm
        BY <2>6
      <4> QED BY <2>3, <2>4, <2>7, <3>1, <4>1
    <3>4. <<x, d>> \in WalkEnds(s)[i]
      BY <3>1, <3>2, <3>3, WalkStep
    <3> QED BY <3>4 DEF i
  <2> QED BY <2>2, <2>5, <2>7
<1>3. \A j \in 0..(2 * N) : j \in T
  <2> HIDE DEF T
  <2> QED BY <1>1, <1>2, GateN, UpTo
<1> QED BY <1>3 DEF Hops

LEMMA TrailsDiffer ==
    ASSUME NEW s \in Tables, NEW k \in Hops, NEW v \in Trails(s)[k], NEW w \in Trails(s)[k], v[2] = w[2]
    PROVE  v = w
<1> DEFINE T == {j \in Hops : \A a, b \in Trails(s)[j] : a[2] = b[2] => a = b}
<1>1. 0 \in T
  BY GateN, TrailStart
<1>2. ASSUME NEW j \in 0..(2 * N), j \in T, j + 1 \in 0..(2 * N) PROVE j + 1 \in T
  <2>1. j \in Hops /\ j + 1 \in Hops
    BY <1>2 DEF Hops
  <2> SUFFICES ASSUME NEW a \in Trails(s)[j + 1], NEW b \in Trails(s)[j + 1], a[2] = b[2]
               PROVE  a = b
    BY <2>1
  <2>2. PICK t \in Trails(s)[j], x \in Tables : a = <<After(t[1], x, RangeDm(x)), Onward(t[2], x)>>
    <3> DEFINE S == Trails(s)[j]
    <3>1. a \in TrailOn(S, j + 1)
      BY <2>1, TrailStep
    <3> HIDE DEF S
    <3>2. \E t \in S, x \in Tables : a = <<After(t[1], x, RangeDm(x)), Onward(t[2], x)>>
      BY <3>1 DEF TrailOn
    <3> QED BY <3>2 DEF S
  <2>3. PICK u \in Trails(s)[j], y \in Tables : b = <<After(u[1], y, RangeDm(y)), Onward(u[2], y)>>
    <3> DEFINE S == Trails(s)[j]
    <3>1. b \in TrailOn(S, j + 1)
      BY <2>1, TrailStep
    <3> HIDE DEF S
    <3>2. \E u \in S, y \in Tables : b = <<After(u[1], y, RangeDm(y)), Onward(u[2], y)>>
      BY <3>1 DEF TrailOn
    <3> QED BY <3>2 DEF S
  <2>4. t[2] \in Nat /\ u[2] \in Nat
    BY <2>1, TrailsAreWalks
  <2>5. Onward(t[2], x) = Onward(u[2], y)
    BY <2>2, <2>3
  <2>6. t[2] = u[2]
    <3> DEFINE m == t[2]
               n == u[2]
    <3>1. m \in Nat /\ n \in Nat /\ Onward(m, x) = Onward(n, y)
      BY <2>4, <2>5
    <3> HIDE DEF m, n
    <3>2. Onward(m, x) \in Nat /\ ~(m < n) /\ ~(n < m)
      BY <3>1, OnwardGrows
    <3>3. m = n
      BY <3>1, <3>2
    <3> QED BY <3>3 DEF m, n
  <2>7. x = y
    <3>1. Onward(t[2], x) = Onward(t[2], y) /\ Onward(t[2], x) \in Nat
      BY <2>4, <2>5, <2>6, OnwardGrows
    <3>2. ~(x < y) /\ ~(y < x)
      BY <2>4, <3>1, OnwardGrows
    <3>3. x \in Nat /\ y \in Nat
      BY GateN DEF Tables
    <3> QED BY <3>2, <3>3
  <2>8. t = u
    BY <1>2, <2>6
  <2> QED BY <2>2, <2>3, <2>7, <2>8
<1>3. \A j \in 0..(2 * N) : j \in T
  <2> HIDE DEF T
  <2> QED BY <1>1, <1>2, GateN, UpTo
<1> QED BY <1>3 DEF Hops

(* The queue is in the order of trails, children of earlier pairs before   *)
(* those of later ones; and an entry has the first trail of its pair, or   *)
(* its pair has been seen, or has an earlier entry.                        *)
Least(s, e, n) == \A t \in Trails(s)[e.hop] : Mark(t[1]) = Mark(e) => n <= t[2]

Ordered(s, q, seen, num) ==
    /\ \A i \in DOMAIN q : /\ num[i] \in Nat /\ q[i].hop \in Hops
                           /\ <<q[i], num[i]>> \in Trails(s)[q[i].hop]
    /\ \A i, j \in DOMAIN q : i < j /\ q[i].hop = q[j].hop => num[i] < num[j]
    /\ \A i, j \in DOMAIN q : q[j].hop = q[i].hop + 1 => num[j] < Onward(num[i], 0)
    /\ \A i \in DOMAIN q : q[i].hop = 0 \/ Open(q[i].node) =>
         \/ Least(s, q[i], num[i])
         \/ Mark(q[i]) \in seen
         \/ \E j \in DOMAIN q : j < i /\ Mark(q[j]) = Mark(q[i])

FirstTrail(r) ==
    \E t \in Trails(r.seed)[r.hop] : /\ t[1].node = r.node /\ t[1].dm /\ t[1].first = r.first
                                     /\ Least(r.seed, t[1], t[2])

At(s, q, seen, known, rows, h, num) ==
    /\ Levels(s, q, known, rows, h)
    /\ known \subseteq seen \cup Marks(q)
    /\ \A m \in seen : Expanded(s, m, h, known, rows)
    /\ Ordered(s, q, seen, num)

Progress(s, q, seen, known, rows) ==
    \E h \in Nat : \E num : At(s, q, seen, known, rows, h, num)

(* No trail that could still add something comes before the head's. *)
LEMMA HeadIsFirst ==
    ASSUME NEW s \in Tables, NEW q \in Seq(Pairs), q # <<>>, NEW p, p = Head(q),
           NEW seen, NEW known, NEW rows, NEW num, At(s, q, seen, known, rows, p.hop, num),
           NEW t \in Trails(s)[p.hop], p.hop = 0 \/ Open(t[1].node),
           ~Expanded(s, Mark(t[1]), p.hop, known, rows)
    PROVE  num[1] <= t[2]
<1> DEFINE m == Mark(t[1])
           I == {i \in DOMAIN q : Mark(q[i]) = m /\ q[i].hop <= p.hop}
<1>1. /\ p = q[1] /\ 1 \in DOMAIN q /\ p \in Pairs
      /\ DOMAIN q \in SUBSET Nat /\ \A i \in DOMAIN q : 1 <= i /\ q[i] \in Pairs /\ q[i].hop \in Nat
  <2>1. DOMAIN q \in SUBSET Nat /\ \A i \in DOMAIN q : 1 <= i /\ q[i] \in Pairs
    OBVIOUS
  <2>2. \A e \in Pairs : e.hop \in Nat
    BY DEF Pairs
  <2> QED BY <2>1, <2>2, HeadOfQueue
<1>2. /\ Levels(s, q, known, rows, p.hop) /\ Ordered(s, q, seen, num)
      /\ \A x \in seen : Expanded(s, x, p.hop, known, rows)
  BY DEF At
<1>3. p.hop \in Hops /\ p.hop \in Nat
  BY <1>1, <1>2 DEF Ordered
<1>4. t[1] \in Pairs /\ t[2] \in Nat /\ m \in WalkEnds(s)[p.hop] /\ m[1] = t[1].node
  BY <1>3, TrailsAreWalks DEF Mark
<1>5. m \in OpenEnds(s, p.hop)
  BY <1>4 DEF OpenEnds
<1> HIDE DEF m
<1>6. \E i \in DOMAIN q : Mark(q[i]) = m /\ q[i].hop <= p.hop
  <2>1. p.hop <= p.hop
    BY <1>3
  <2>2. ~Expanded(s, m, p.hop, known, rows)
    BY DEF m
  <2> QED BY <1>2, <1>3, <1>5, <2>1, <2>2 DEF Levels
<1>7. PICK i \in I : \A j \in I : i <= j
  <2>1. I # {} /\ I \in SUBSET Nat
    BY <1>1, <1>6
  <2> HIDE DEF I
  <2> QED BY <2>1, LeastNumber
<1>8. i \in DOMAIN q /\ Mark(q[i]) = m /\ q[i].hop <= p.hop /\ 1 <= i /\ i \in Nat
  BY <1>1
<1>9. q[i].hop = p.hop
  <2>1. q[i].hop = p.hop \/ q[i].hop = p.hop + 1
    BY <1>2, <1>8 DEF Levels
  <2> QED BY <1>3, <1>8, <2>1
<1>10. q[i].node = t[1].node
  BY <1>8 DEF Mark, m
<1>11. Least(s, q[i], num[i])
  <2>1. \/ Least(s, q[i], num[i])
        \/ Mark(q[i]) \in seen
        \/ \E j \in DOMAIN q : j < i /\ Mark(q[j]) = Mark(q[i])
    BY <1>2, <1>8, <1>9, <1>10 DEF Ordered
  <2>2. Mark(q[i]) \notin seen
    BY <1>2, <1>8 DEF m
  <2>3. ASSUME NEW j \in DOMAIN q, j < i, Mark(q[j]) = Mark(q[i]) PROVE FALSE
    <3>1. j \in Nat /\ j <= i
      BY <1>1, <1>8, <2>3
    <3>2. q[j].hop <= q[i].hop
      BY <1>2, <1>8, <3>1 DEF Levels
    <3>3. j \in I
      BY <1>8, <1>9, <2>3, <3>2
    <3>4. i <= j
      BY <1>7, <3>3
    <3> QED BY <1>8, <2>3, <3>1, <3>4
  <2> QED BY <2>1, <2>2, <2>3
<1>12. num[i] <= t[2]
  BY <1>8, <1>9, <1>11 DEF Least, m
<1>13. num[1] <= num[i] /\ num[1] \in Nat /\ num[i] \in Nat
  <2>1. num[1] \in Nat /\ num[i] \in Nat
    BY <1>1, <1>2, <1>8 DEF Ordered
  <2>2. CASE i = 1
    BY <2>1, <2>2
  <2>3. CASE i # 1
    <3>1. 1 < i /\ q[1].hop = q[i].hop
      BY <1>1, <1>8, <1>9, <2>3
    <3>2. num[1] < num[i]
      BY <1>1, <1>2, <1>8, <3>1 DEF Ordered
    <3> QED BY <2>1, <3>2
  <2> QED BY <2>2, <2>3
<1> QED BY <1>4, <1>12, <1>13

(* A child that adds something has the first trail of its pair. *)
LEMMA ChildIsFirst ==
    ASSUME NEW s \in Tables, NEW q \in Seq(Pairs), q # <<>>, NEW p, p = Head(q),
           NEW seen, NEW known, NEW rows, NEW num, At(s, q, seen, known, rows, p.hop, num),
           p.hop + 1 \in Hops, p.hop = 0 \/ Open(p.node),
           NEW x \in Tables, <<p.node, x>> \in arcs, NEW e, e = After(p, x, RangeDm(x))
    PROVE  /\ Onward(num[1], x) \in Nat
           /\ <<e, Onward(num[1], x)>> \in Trails(s)[p.hop + 1]
           /\ \/ Open(x) /\ Mark(e) \notin known
              \/ e.dm /\ ~HasRow(rows, s, x, p.hop + 1)
              => Least(s, e, Onward(num[1], x))
<1>1. p = q[1] /\ 1 \in DOMAIN q /\ p \in Pairs /\ RangeDm(x) \in BOOLEAN
  BY HeadOfQueue DEF RangeDm
<1>2. num[1] \in Nat /\ p.hop \in Hops /\ <<p, num[1]>> \in Trails(s)[p.hop]
  BY <1>1 DEF At, Ordered
<1>3. /\ e \in Pairs /\ e.node = x /\ e.hop = p.hop + 1 /\ e.dm = (p.dm \/ RangeDm(x))
      /\ Mark(e) = <<x, p.dm \/ RangeDm(x)>>
  BY <1>1, AfterIsPair
<1>4. Onward(num[1], x) \in Nat
  BY <1>2, OnwardGrows
<1> DEFINE n == Onward(num[1], x)
           k == p.hop
<1>5. Trails(s)[k + 1] = TrailOn(Trails(s)[k], k + 1) /\ (k + 1 = 1 <=> k = 0)
  BY <1>2, TrailStep
<1>6. <<e, n>> \in Trails(s)[k + 1]
  <2> DEFINE S == Trails(s)[k]
             w == <<p, num[1]>>
  <2>1. w \in S /\ w[1] = p /\ w[2] = num[1]
    BY <1>2
  <2>2. <<w[1].node, x>> \in arcs /\ (k + 1 = 1 \/ Open(w[1].node))
    BY <1>5, <2>1
  <2>3. <<e, n>> = <<After(w[1], x, RangeDm(x)), Onward(w[2], x)>> /\ <<e, n>> \in Pairs \X Nat
    BY <1>3, <1>4, <2>1
  <2> HIDE DEF S, w, n
  <2> QED BY <1>5, <2>1, <2>2, <2>3 DEF TrailOn, S
<1>7. ASSUME (Open(x) /\ Mark(e) \notin known) \/ (e.dm /\ ~HasRow(rows, s, x, k + 1)),
             NEW v \in Trails(s)[k + 1], Mark(v[1]) = Mark(e)
      PROVE  n <= v[2]
  <2> DEFINE S == Trails(s)[k]
  <2>1. v \in TrailOn(S, k + 1)
    BY <1>5, <1>7
  <2> HIDE DEF S
  <2>2. PICK t \in S, y \in Tables :
          /\ <<t[1].node, y>> \in arcs /\ (k + 1 = 1 \/ Open(t[1].node))
          /\ v = <<After(t[1], y, RangeDm(y)), Onward(t[2], y)>>
    BY <2>1 DEF TrailOn
  <2>3. t[1] \in Pairs /\ t[2] \in Nat
    BY <1>2, TrailsAreWalks DEF S
  <2>4. Mark(v[1]) = <<y, t[1].dm \/ RangeDm(y)>>
    <3>1. v[1] = After(t[1], y, RangeDm(y)) /\ RangeDm(y) \in BOOLEAN
      BY <2>2 DEF RangeDm
    <3> QED BY <2>3, <3>1, AfterIsPair
  <2>5. y = x /\ (t[1].dm \/ RangeDm(x)) = (p.dm \/ RangeDm(x))
    BY <1>3, <1>7, <2>4
  <2>6. ~Expanded(s, Mark(t[1]), k, known, rows)
    <3>1. Mark(t[1])[1] = t[1].node /\ Mark(t[1])[2] = t[1].dm
      BY DEF Mark
    <3> QED BY <1>3, <1>7, <2>2, <2>5, <3>1 DEF Expanded
  <2>7. num[1] <= t[2]
    BY <1>5, <2>2, <2>6, HeadIsFirst DEF S
  <2>8. Onward(num[1], x) <= Onward(t[2], x)
    BY <1>2, <2>3, <2>7, OnwardGrows
  <2> QED BY <2>2, <2>5, <2>8
<1>8. ASSUME (Open(x) /\ Mark(e) \notin known) \/ (e.dm /\ ~HasRow(rows, s, x, k + 1))
      PROVE  Least(s, e, n)
  <2>1. \A v \in Trails(s)[k + 1] : Mark(v[1]) = Mark(e) => n <= v[2]
    BY <1>7, <1>8
  <2> QED BY <1>3, <2>1 DEF Least
<1> QED BY <1>4, <1>6, <1>8

(* A pair with an arc to one of 1..c can be expanded. *)
Leads(p, c) ==
    \A x \in 1..c : <<p.node, x>> \in arcs => p.hop + 1 \in Hops /\ (p.hop = 0 \/ Open(p.node))

(* A turn keeps the order: the children come after all there is. *)
LEMMA OrderTurn ==
    ASSUME NEW s \in Tables, NEW q \in Seq(Pairs), q # <<>>, NEW p, p = Head(q),
           NEW seen, NEW known, NEW rows, NEW num, At(s, q, seen, known, rows, p.hop, num),
           NEW q2, NEW known2, NEW c \in 0..N, Leads(p, c), Looked(p, Tail(q), known, q2, known2, c)
    PROVE  \E num2 : Ordered(s, q2, seen \cup {Mark(p)}, num2)
<1> DEFINE n0 == Len(Tail(q))
           q0 == Tail(q)
           k == p.hop
           seen2 == seen \cup {Mark(p)}
           num2 == [i \in DOMAIN q2 |-> IF i \in 1..n0 THEN num[i + 1] ELSE Onward(num[1], q2[i].node)]
<1>1. /\ p = q[1] /\ 1 \in DOMAIN q /\ p \in Pairs /\ q0 \in Seq(Pairs) /\ n0 \in Nat
      /\ \A i \in 1..n0 : i + 1 \in DOMAIN q /\ q0[i] = q[i + 1]
      /\ \A i \in DOMAIN q : i = 1 \/ (i - 1 \in 1..n0 /\ (i - 1) + 1 = i)
  BY HeadOfQueue
<1>2. q2 \in Seq(Pairs) /\ DOMAIN q2 \subseteq Nat
  BY DEF Looked
<1>3. /\ num[1] \in Nat /\ k \in Nat
      /\ \A i \in DOMAIN q : /\ num[i] \in Nat /\ q[i].hop \in Hops
                             /\ <<q[i], num[i]>> \in Trails(s)[q[i].hop]
                             /\ q[i].hop = k \/ q[i].hop = k + 1
      /\ \A i, j \in DOMAIN q : i < j /\ q[i].hop = q[j].hop => num[i] < num[j]
      /\ \A i, j \in DOMAIN q : q[j].hop = q[i].hop + 1 => num[j] < Onward(num[i], 0)
      /\ \A i \in DOMAIN q : q[i].hop = 0 \/ Open(q[i].node) =>
           \/ Least(s, q[i], num[i])
           \/ Mark(q[i]) \in seen
           \/ \E j \in DOMAIN q : j < i /\ Mark(q[j]) = Mark(q[i])
  BY <1>1 DEF At, Ordered, Levels, Pairs
<1> HIDE DEF n0, q0, k
<1>4. ASSUME NEW i \in DOMAIN q2, i \in 1..n0
      PROVE  /\ i + 1 \in DOMAIN q /\ q2[i] = q[i + 1] /\ num2[i] = num[i + 1] /\ i \in Nat
             /\ q2[i] = q0[i] /\ 1 < i + 1
  <2>1. \A j \in 1..n0 : q2[j] = q0[j]
    BY DEF Looked, n0, q0
  <2> QED BY <1>1, <1>2, <1>4, <2>1
<1>5. ASSUME NEW i \in DOMAIN q2, i \notin 1..n0
      PROVE  /\ i \in Nat /\ n0 < i
             /\ num2[i] = Onward(num[1], q2[i].node)
             /\ q2[i].node \in Tables /\ q2[i].hop = k + 1
             /\ p.hop + 1 \in Hops /\ (p.hop = 0 \/ Open(p.node))
             /\ <<p.node, q2[i].node>> \in arcs
             /\ q2[i] = After(p, q2[i].node, RangeDm(q2[i].node))
  <2>1. i \in Nat /\ n0 < i /\ num2[i] = Onward(num[1], q2[i].node)
    <3>1. i \in 1..Len(q2)
      BY <1>2
    <3> QED BY <1>1, <1>5, <3>1
  <2>2. PICK x \in 1..c : Pushed(p, x, q2[i])
    BY <1>5 DEF Looked, n0
  <2>3. /\ x \in Tables /\ RangeDm(x) \in BOOLEAN /\ <<p.node, x>> \in arcs
        /\ q2[i] = After(p, x, RangeDm(x))
    BY <2>2, GateN DEF Tables, RangeDm, Pushed
  <2>4. q2[i].node = x /\ q2[i].hop = k + 1
    BY <1>1, <2>3, AfterIsPair DEF k
  <2>5. p.hop + 1 \in Hops /\ (p.hop = 0 \/ Open(p.node))
    BY <2>2, <2>3 DEF Leads
  <2> QED BY <2>1, <2>3, <2>4, <2>5
<1>12. ASSUME NEW m \in known
       PROVE  m \in seen2 \/ \E j \in 1..n0 : Mark(q0[j]) = m
  <2>1. m \in seen \/ \E i \in DOMAIN q : Mark(q[i]) = m
    BY DEF At, Marks
  <2>2. ASSUME NEW i \in DOMAIN q, Mark(q[i]) = m, i # 1 PROVE \E j \in 1..n0 : Mark(q0[j]) = m
    <3>1. i - 1 \in 1..n0 /\ (i - 1) + 1 = i
      BY <1>1, <2>2
    <3>2. q0[i - 1] = q[i]
      BY <1>1, <3>1
    <3> QED BY <2>2, <3>1, <3>2
  <2> QED BY <1>1, <2>1, <2>2
<1>6. ASSUME NEW i \in DOMAIN q2, i \notin 1..n0
      PROVE  /\ num2[i] \in Nat /\ <<q2[i], num2[i]>> \in Trails(s)[k + 1]
             /\ Open(q2[i].node) /\ Mark(q2[i]) \notin known => Least(s, q2[i], num2[i])
  <2> DEFINE x == q2[i].node
             e == q2[i]
  <2>1. /\ x \in Tables /\ <<p.node, x>> \in arcs
        /\ e = After(p, x, RangeDm(x)) /\ num2[i] = Onward(num[1], x)
        /\ p.hop + 1 \in Hops /\ (p.hop = 0 \/ Open(p.node))
    BY <1>5, <1>6
  <2> HIDE DEF x, e, num2
  <2>2. /\ Onward(num[1], x) \in Nat
        /\ <<e, Onward(num[1], x)>> \in Trails(s)[p.hop + 1]
        /\ Open(x) /\ Mark(e) \notin known => Least(s, e, Onward(num[1], x))
    BY <2>1, ChildIsFirst
  <2> QED BY <2>1, <2>2 DEF x, e, k
<1> HIDE DEF num2
<1>7. \A i \in DOMAIN q2 : /\ num2[i] \in Nat /\ q2[i].hop \in Hops
                           /\ <<q2[i], num2[i]>> \in Trails(s)[q2[i].hop]
  <2> TAKE i \in DOMAIN q2
  <2>1. CASE i \in 1..n0
    BY <2>1, <1>3, <1>4
  <2>2. CASE i \notin 1..n0
    BY <2>2, <1>5, <1>6 DEF k
  <2> QED BY <2>1, <2>2
<1>8. ASSUME NEW i \in DOMAIN q2, NEW j \in DOMAIN q2, i < j, q2[i].hop = q2[j].hop
      PROVE  num2[i] < num2[j]
  <2>1. CASE i \in 1..n0 /\ j \in 1..n0
    <3>1. i + 1 < j + 1
      BY <1>4, <1>8, <2>1
    <3> QED BY <2>1, <1>3, <1>4, <1>8, <3>1
  <2>2. CASE i \in 1..n0 /\ j \notin 1..n0
    <3> DEFINE m == i + 1
    <3>0. m \in DOMAIN q /\ q2[i] = q[m] /\ num2[i] = num[m]
      BY <2>2, <1>4
    <3>5. q2[j].hop = k + 1 /\ num2[j] = Onward(num[1], q2[j].node) /\ q2[j].node \in Tables
      BY <2>2, <1>5
    <3> HIDE DEF m
    <3>6. q[m].hop = q[1].hop + 1
      BY <1>1, <1>8, <3>0, <3>5 DEF k
    <3>1. num[m] < Onward(num[1], 0)
      BY <1>1, <1>3, <3>0, <3>6
    <3>2. Onward(num[1], 0) < Onward(num[1], q2[j].node)
      BY <1>3, <3>5, OnwardGrows
    <3>4. num2[i] \in Nat /\ num2[j] \in Nat
      BY <1>7
    <3>7. Onward(num[1], 0) \in Int
      <4>1. N + 1 \in Int
        BY GateN
      <4> QED BY <1>3, <4>1 DEF Onward
    <3>8. num2[i] < Onward(num[1], 0) /\ Onward(num[1], 0) < num2[j]
      BY <3>0, <3>1, <3>2, <3>5
    <3> HIDE DEF num2
    <3> QED BY <3>4, <3>7, <3>8
  <2>3. CASE i \notin 1..n0 /\ j \notin 1..n0
    <3>1. q2[i].node < q2[j].node
      BY <2>3, <1>5, <1>8 DEF Looked, n0
    <3>2. /\ num2[i] = Onward(num[1], q2[i].node) /\ q2[i].node \in Tables
          /\ num2[j] = Onward(num[1], q2[j].node) /\ q2[j].node \in Tables
      BY <2>3, <1>5
    <3>3. Onward(num[1], q2[i].node) < Onward(num[1], q2[j].node)
      BY <1>3, <3>1, <3>2, OnwardGrows
    <3> QED BY <3>2, <3>3
  <2>4. ASSUME i \notin 1..n0, j \in 1..n0 PROVE FALSE
    <3>1. i \in Nat /\ n0 < i
      BY <2>4, <1>5
    <3>2. j \in Nat /\ j <= n0
      BY <2>4, <1>1
    <3> QED BY <1>1, <1>8, <3>1, <3>2
  <2> QED BY <2>1, <2>2, <2>3, <2>4
<1>9. ASSUME NEW i \in DOMAIN q2, NEW j \in DOMAIN q2, q2[j].hop = q2[i].hop + 1
      PROVE  num2[j] < Onward(num2[i], 0)
  <2>1. CASE i \in 1..n0 /\ j \in 1..n0
    BY <2>1, <1>3, <1>4, <1>9
  <2>2. CASE i \in 1..n0 /\ j \notin 1..n0
    <3>1. i + 1 \in DOMAIN q /\ q2[i] = q[i + 1] /\ num2[i] = num[i + 1] /\ 1 < i + 1
      BY <2>2, <1>4
    <3>2. q2[i].hop = k
      <4>1. q2[j].hop = k + 1
        BY <2>2, <1>5
      <4>2. q2[i].hop = k \/ q2[i].hop = k + 1
        BY <1>3, <3>1
      <4> QED BY <1>3, <1>9, <4>1, <4>2
    <3>3. num[1] < num[i + 1] /\ num[i + 1] \in Nat
      BY <1>1, <1>3, <3>1, <3>2 DEF k
    <3>4. num2[j] = Onward(num[1], q2[j].node) /\ q2[j].node \in Tables
      BY <2>2, <1>5
    <3> QED BY <1>3, <3>1, <3>3, <3>4, OnwardGrows
  <2>3. CASE i \notin 1..n0
    <3>1. q2[i].hop = k + 1
      BY <2>3, <1>5
    <3>2. q2[j].hop = k \/ q2[j].hop = k + 1
      <4>1. CASE j \in 1..n0
        BY <4>1, <1>3, <1>4
      <4>2. CASE j \notin 1..n0
        BY <4>2, <1>5
      <4> QED BY <4>1, <4>2
    <3> QED BY <3>1, <3>2, <1>3, <1>9
  <2> QED BY <2>1, <2>2, <2>3
<1>10. ASSUME NEW i \in DOMAIN q2, q2[i].hop = 0 \/ Open(q2[i].node)
       PROVE  \/ Least(s, q2[i], num2[i])
              \/ Mark(q2[i]) \in seen2
              \/ \E j \in DOMAIN q2 : j < i /\ Mark(q2[j]) = Mark(q2[i])
  <2>0. \A j \in 1..n0 : j \in DOMAIN q2 /\ q2[j] = q0[j]
    <3>1. DOMAIN q2 = 1..Len(q2) /\ Len(q2) \in Nat /\ n0 <= Len(q2)
      BY <1>2 DEF Looked, n0
    <3>2. \A j \in 1..n0 : j \in 1..Len(q2)
      BY <1>1, <3>1
    <3> QED BY <3>1, <3>2 DEF Looked, n0, q0
  <2>1. CASE i \in 1..n0
    <3>1. i + 1 \in DOMAIN q /\ q2[i] = q[i + 1] /\ num2[i] = num[i + 1] /\ i \in Nat
      BY <2>1, <1>4
    <3>2. \/ Least(s, q2[i], num2[i])
          \/ Mark(q2[i]) \in seen
          \/ \E j \in DOMAIN q : j < i + 1 /\ Mark(q[j]) = Mark(q2[i])
      BY <1>3, <1>10, <3>1
    <3>3. ASSUME NEW j \in DOMAIN q, j < i + 1, Mark(q[j]) = Mark(q2[i])
          PROVE  \/ Mark(q2[i]) \in seen2
                 \/ \E m \in DOMAIN q2 : m < i /\ Mark(q2[m]) = Mark(q2[i])
      <4>1. CASE j = 1
        BY <4>1, <1>1, <3>3
      <4>2. CASE j # 1
        <5>1. j - 1 \in 1..n0 /\ (j - 1) + 1 = j /\ j \in Nat
          BY <4>2, <1>1
        <5> DEFINE m == j - 1
        <5>2. m \in 1..n0 /\ m + 1 = j /\ m < i
          BY <5>1, <3>1, <3>3
        <5> HIDE DEF m
        <5>3. m \in DOMAIN q2 /\ q2[m] = q[j]
          BY <2>0, <1>1, <5>2
        <5> QED BY <3>3, <5>2, <5>3
      <4> QED BY <4>1, <4>2
    <3> QED BY <3>2, <3>3
  <2>2. CASE i \notin 1..n0
    <3>1. Open(q2[i].node)
      <4>1. q2[i].hop = k + 1
        BY <2>2, <1>5
      <4>2. q2[i].hop # 0
        BY <4>1, <1>3
      <4> QED BY <4>2, <1>10
    <3>2. CASE Mark(q2[i]) \notin known
      BY <2>2, <3>1, <3>2, <1>6
    <3>3. ASSUME NEW j \in 1..n0, Mark(q0[j]) = Mark(q2[i])
          PROVE  \E m \in DOMAIN q2 : m < i /\ Mark(q2[m]) = Mark(q2[i])
      <4>1. j \in DOMAIN q2 /\ q2[j] = q0[j]
        BY <2>0
      <4>2. i \in Nat /\ n0 < i
        BY <2>2, <1>5
      <4>3. j < i
        BY <4>2, <1>1
      <4> QED BY <3>3, <4>1, <4>3
    <3> QED BY <3>2, <3>3, <1>12
  <2> QED BY <2>1, <2>2
<1>11. Ordered(s, q2, seen2, num2)
  BY <1>7, <1>8, <1>9, <1>10 DEF Ordered
<1> QED BY <1>11

(* What a turn has made known waits in the queue. *)
LEMMA LookedMarks ==
    ASSUME NEW s \in Tables, NEW q \in Seq(Pairs), q # <<>>, NEW p, p = Head(q),
           NEW seen, NEW known, known \subseteq seen \cup Marks(q), NEW c,
           NEW q2, NEW known2, Looked(p, Tail(q), known, q2, known2, c)
    PROVE  known2 \subseteq (seen \cup {Mark(p)}) \cup Marks(q2)
<1> SUFFICES ASSUME NEW m \in known2, m \notin seen, m # Mark(p) PROVE m \in Marks(q2)
  OBVIOUS
<1> DEFINE n0 == Len(Tail(q))
<1>1. CASE m \notin known
  BY <1>1 DEF Looked, Marks
<1>2. CASE m \in known
  <2>1. Marks(q) = {Mark(p)} \cup Marks(Tail(q)) /\ Tail(q) \in Seq(Pairs)
    BY HeadOfQueue
  <2>2. m \in Marks(Tail(q)) /\ DOMAIN Tail(q) = 1..n0 /\ n0 \in Nat
    BY <1>2, <2>1
  <2> HIDE DEF n0
  <2>3. PICK i \in 1..n0 : Mark(Tail(q)[i]) = m
    BY <2>2 DEF Marks
  <2>4. q2 \in Seq(Pairs) /\ n0 <= Len(q2) /\ \A j \in 1..n0 : q2[j] = Tail(q)[j]
    BY DEF Looked, n0
  <2> DEFINE n2 == Len(q2)
  <2>5. n2 \in Nat /\ DOMAIN q2 = 1..n2 /\ n0 <= n2
    BY <2>4
  <2> HIDE DEF n2
  <2>6. i \in DOMAIN q2
    BY <2>2, <2>5
  <2> QED BY <2>3, <2>4, <2>6 DEF Marks
<1> QED BY <1>1, <1>2

(* So does a turn that expands the head, and its rows have first trails. *)
LEMMA ProgressTurn ==
    ASSUME NEW s \in Tables, NEW q \in Seq(Pairs), q # <<>>, NEW p, p = Head(q),
           NEW seen, NEW known, NEW rows \in SUBSET Rows, Progress(s, q, seen, known, rows),
           Leads(p, N), NEW q2, NEW known2, NEW rows2,
           Looked(p, Tail(q), known, q2, known2, N), RowsOf(s, p, rows, rows2, N)
    PROVE  /\ Progress(s, q2, seen \cup {Mark(p)}, known2, rows2)
           /\ \A r \in rows2 : r \in rows \/ FirstTrail(r)
<1>0. PICK h \in Nat : \E num : At(s, q, seen, known, rows, h, num)
  BY DEF Progress
<1>1. PICK num : At(s, q, seen, known, rows, h, num)
  BY <1>0
<1>2. Levels(s, q, known, rows, p.hop) /\ h <= p.hop /\ p.hop \in Nat
  BY <1>1, LevelAdvance DEF At
<1>3. /\ rows2 \in SUBSET Rows /\ Keeps(rows2, rows) /\ known \subseteq known2
      /\ Keeps(rows, rows)
      /\ p \in Pairs /\ N \in 0..N
  BY HeadOfQueue, KeepsItself, GateN DEF RowsOf, Looked
<1>4. At(s, q, seen, known, rows, p.hop, num)
  <2>1. \A m \in seen : Expanded(s, m, p.hop, known, rows)
    BY <1>1, <1>2, <1>3, ExpandedOn DEF At
  <2> QED BY <1>1, <1>2, <2>1 DEF At
<1>5. PICK num2 : Ordered(s, q2, seen \cup {Mark(p)}, num2)
  BY <1>3, <1>4, OrderTurn
<1>6. Expanded(s, Mark(p), p.hop, known2, rows2)
  BY <1>3, TurnExpands
<1>7. Levels(s, q2, known2, rows2, p.hop)
  BY <1>2, <1>3, <1>6, LevelTurn
<1>8. \A m \in seen \cup {Mark(p)} : Expanded(s, m, p.hop, known2, rows2)
  <2>1. \A m \in seen : Expanded(s, m, p.hop, known2, rows2)
    BY <1>2, <1>3, <1>4, ExpandedOn DEF At
  <2> QED BY <1>6, <2>1
<1>9. known2 \subseteq (seen \cup {Mark(p)}) \cup Marks(q2)
  BY <1>1, LookedMarks DEF At
<1>10. Progress(s, q2, seen \cup {Mark(p)}, known2, rows2)
  BY <1>2, <1>5, <1>7, <1>8, <1>9 DEF At, Progress
<1>11. ASSUME NEW r \in rows2, r \notin rows PROVE FirstTrail(r)
  <2>1. PICK x \in 1..N : /\ <<p.node, x>> \in arcs
                          /\ p.dm \/ RangeDm(x)
                          /\ r = RowAfter(s, p, x)
                          /\ ~HasRow(rows, s, x, p.hop + 1)
    BY <1>11 DEF RowsOf
  <2> DEFINE e == After(p, x, RangeDm(x))
             n == Onward(num[1], x)
  <2>2. /\ x \in Tables /\ RangeDm(x) \in BOOLEAN /\ p.hop + 1 \in Hops
        /\ (p.hop = 0 \/ Open(p.node))
    BY <2>1 DEF Tables, RangeDm, Leads
  <2>3. e.node = x /\ e.hop = p.hop + 1 /\ e.dm
    <3>1. e.node = x /\ e.hop = p.hop + 1 /\ e.dm = (p.dm \/ RangeDm(x))
      BY <1>3, <2>2, AfterIsPair
    <3> HIDE DEF e
    <3> QED BY <2>1, <3>1
  <2>4. r.seed = s /\ r.node = x /\ r.hop = p.hop + 1 /\ r.first = e.first
    BY <2>1 DEF RowAfter
  <2> HIDE DEF e, n
  <2>5. <<e, n>> \in Trails(s)[p.hop + 1] /\ Least(s, e, n)
    BY <1>4, <2>1, <2>2, <2>3, ChildIsFirst DEF e, n
  <2> QED BY <2>3, <2>4, <2>5 DEF FirstTrail
<1> QED BY <1>10, <1>11

(* So does a turn that skips a head already seen. *)
LEMMA ProgressSkip ==
    ASSUME NEW s \in Tables, NEW q \in Seq(Pairs), q # <<>>,
           NEW seen, NEW known, NEW rows \in SUBSET Rows, Progress(s, q, seen, known, rows),
           Mark(Head(q)) \in seen
    PROVE  Progress(s, Tail(q), seen, known, rows)
<1> DEFINE p == Head(q)
<1>0. PICK h \in Nat : \E num : At(s, q, seen, known, rows, h, num)
  BY DEF Progress
<1>1. PICK num : At(s, q, seen, known, rows, h, num)
  BY <1>0
<1>2. Levels(s, q, known, rows, p.hop) /\ h <= p.hop /\ p.hop \in Nat
  BY <1>1, LevelAdvance DEF At
<1>3. /\ Keeps(rows, rows) /\ known \subseteq known /\ 0 \in 0..N
      /\ p \in Pairs /\ Tail(q) \in Seq(Pairs) /\ Mark(p) \in seen
  BY HeadOfQueue, KeepsItself, GateN
<1>4. \A m \in seen : Expanded(s, m, p.hop, known, rows)
  BY <1>1, <1>2, <1>3, ExpandedOn DEF At
<1>5. At(s, q, seen, known, rows, p.hop, num)
  BY <1>1, <1>2, <1>4 DEF At
<1>6. Looked(p, Tail(q), known, Tail(q), known, 0) /\ Leads(p, 0)
  <2>1. 1..0 = {}
    OBVIOUS
  <2> QED BY <1>3, <2>1, LookedNone DEF Leads
<1> HIDE DEF p
<1>7. PICK num2 : Ordered(s, Tail(q), seen \cup {Mark(p)}, num2)
  <2>1. p = Head(q)
    BY DEF p
  <2> QED BY <1>3, <1>5, <1>6, <2>1, OrderTurn
<1>8. Levels(s, Tail(q), known, rows, p.hop)
  <2>1. p = Head(q)
    BY DEF p
  <2> QED BY <1>2, <1>3, <1>4, <1>6, <2>1, LevelTurn
<1>9. known \subseteq seen \cup Marks(Tail(q))
  <2>1. Marks(q) = {Mark(p)} \cup Marks(Tail(q))
    BY HeadOfQueue DEF p
  <2> QED BY <1>1, <1>3, <2>1 DEF At
<1>10. seen \cup {Mark(p)} = seen
  BY <1>3
<1> QED BY <1>2, <1>4, <1>7, <1>8, <1>9, <1>10 DEF At, Progress

(* A seed's own pair is in the order. *)
LEMMA ProgressStart ==
    ASSUME NEW s \in Tables, NEW e, e = Start(s, RangeDm(s)), NEW rows
    PROVE  Progress(s, <<e>>, {}, {Mark(e)}, rows)
<1> DEFINE num == <<0>>
<1>1. DOMAIN <<e>> = {1} /\ <<e>>[1] = e /\ num[1] = 0
  OBVIOUS
<1>2. e \in Pairs /\ e.hop = 0 /\ Mark(e) = <<s, RangeDm(s)>> /\ Trails(s)[0] = {<<e, 0>>}
  BY StartIsPair, TrailStart
<1>3. Levels(s, <<e>>, {Mark(e)}, rows, 0)
  BY <1>2, LevelsStart
<1>4. Least(s, e, 0)
  BY <1>2 DEF Least
<1>5. 0 \in Hops /\ 0 \in Nat
  BY GateN
<1> HIDE DEF num
<1>6. Ordered(s, <<e>>, {}, num)
  BY <1>1, <1>2, <1>4, <1>5 DEF Ordered
<1>7. {Mark(e)} \subseteq {} \cup Marks(<<e>>)
  BY <1>1 DEF Marks
<1>8. At(s, <<e>>, {}, {Mark(e)}, rows, 0, num)
  BY <1>3, <1>6, <1>7 DEF At
<1> QED BY <1>5, <1>8 DEF Progress

(* Two rows of one seed, table and hop with first trails are the same. *)
LEMMA FirstTrailsAgree ==
    ASSUME NEW r, NEW t, FirstTrail(r), FirstTrail(t),
           r.seed = t.seed, r.node = t.node, r.hop = t.hop, r.seed \in Tables, r.hop \in Hops
    PROVE  r.first = t.first
<1> DEFINE s == r.seed
           k == r.hop
<1>1. PICK u \in Trails(s)[k] : u[1].node = r.node /\ u[1].dm /\ u[1].first = r.first /\ Least(s, u[1], u[2])
  BY DEF FirstTrail
<1>2. PICK v \in Trails(s)[k] : v[1].node = r.node /\ v[1].dm /\ v[1].first = t.first /\ Least(s, v[1], v[2])
  BY DEF FirstTrail
<1>3. /\ u[1] \in Pairs /\ u[2] \in Nat /\ u[1].hop = k
      /\ v[1] \in Pairs /\ v[2] \in Nat /\ v[1].hop = k
  BY TrailsAreWalks
<1>4. Mark(u[1]) = Mark(v[1])
  BY <1>1, <1>2, <1>3 DEF Mark, Pairs
<1>5. u[2] <= v[2] /\ v[2] <= u[2]
  BY <1>1, <1>2, <1>3, <1>4 DEF Least
<1>6. u[2] = v[2]
  BY <1>3, <1>5
<1>7. u = v
  BY <1>6, TrailsDiffer
<1> QED BY <1>1, <1>2, <1>7

-----------------------------------------------------------------------------
(* No step changes what the crawl has given, so a walk stays a walk. *)
LEMMA SameWalks == UNCHANGED given => \A s : WalkEnds(s)' = WalkEnds(s)
<1> SUFFICES ASSUME UNCHANGED given, NEW s PROVE WalkEnds(s)' = WalkEnds(s)
  OBVIOUS
<1>1. kind' = kind /\ arcs' = arcs
  BY DEF given
<1> QED BY <1>1 DEF WalkEnds, RangeDm, Open

LEMMA SameTables ==
    UNCHANGED given => /\ \A n : RangeDm(n)' = RangeDm(n) /\ Open(n)' = Open(n)
                       /\ kind' = kind /\ arcs' = arcs /\ seeds' = seeds
  BY DEF given, RangeDm, Open

LEMMA SameEnds == UNCHANGED given => \A s, k : OpenEnds(s, k)' = OpenEnds(s, k)
  BY SameWalks, SameTables DEF OpenEnds

LEMMA SameSound ==
    UNCHANGED given => /\ \A s, e : Sound(s, e)' = Sound(s, e)
                       /\ \A r : SoundRow(r)' = SoundRow(r)
<1> SUFFICES ASSUME UNCHANGED given
             PROVE  /\ \A s, e : Sound(s, e)' = Sound(s, e)
                    /\ \A r : SoundRow(r)' = SoundRow(r)
  OBVIOUS
<1>1. ASSUME NEW s, NEW f, NEW c, NEW k
      PROVE  FirstOnWalk(s, f, c, k)' = FirstOnWalk(s, f, c, k)
  <2>1. WalkEnds(s)' = WalkEnds(s) /\ WalkEnds(f)' = WalkEnds(f)
    BY SameWalks
  <2>2. /\ RangeDm(s)' = RangeDm(s) /\ RangeDm(f)' = RangeDm(f) /\ Open(f)' = Open(f)
        /\ (\A n : Open(n)' = Open(n)) /\ arcs' = arcs
    BY SameTables
  <2> QED BY <2>1, <2>2 DEF FirstOnWalk
<1>2. \A s, e : FirstSound(s, e)' = FirstSound(s, e)
  BY <1>1, SameTables DEF FirstSound
<1>3. \A s, e : Sound(s, e)' = Sound(s, e)
  BY <1>2, SameWalks, SameTables DEF Sound, Mark
<1>4. \A r : SoundRow(r)' = SoundRow(r)
  BY <1>1, SameWalks DEF SoundRow
<1> QED BY <1>3, <1>4

LEMMA SameLevels ==
    UNCHANGED given =>
      /\ \A s, q, known, rows, h : Levels(s, q, known, rows, h)' = Levels(s, q, known, rows, h)
      /\ \A s, m, k, known, rows : Expanded(s, m, k, known, rows)' = Expanded(s, m, k, known, rows)
      /\ \A rows, s : Complete(rows, s)' = Complete(rows, s)
      /\ \A s, q, n : QueueSound(s, q, n)' = QueueSound(s, q, n)
<1> SUFFICES ASSUME UNCHANGED given
             PROVE
      /\ \A s, q, known, rows, h : Levels(s, q, known, rows, h)' = Levels(s, q, known, rows, h)
      /\ \A s, m, k, known, rows : Expanded(s, m, k, known, rows)' = Expanded(s, m, k, known, rows)
      /\ \A rows, s : Complete(rows, s)' = Complete(rows, s)
      /\ \A s, q, n : QueueSound(s, q, n)' = QueueSound(s, q, n)
  OBVIOUS
<1>1. \A s, m, k, known, rows : Expanded(s, m, k, known, rows)' = Expanded(s, m, k, known, rows)
  BY SameTables DEF Expanded, HasRow
<1>2. \A s, q, known, rows, h : Levels(s, q, known, rows, h)' = Levels(s, q, known, rows, h)
  BY <1>1, SameEnds DEF Levels, Mark
<1>3. ASSUME NEW rows, NEW s
      PROVE  Complete(rows, s)' = Complete(rows, s)
  <2>1. WalkEnds(s)' = WalkEnds(s)
    BY SameWalks
  <2> QED BY <2>1 DEF Complete
<1>4. \A s, q, n : QueueSound(s, q, n)' = QueueSound(s, q, n)
  BY SameSound DEF QueueSound
<1> QED BY <1>1, <1>2, <1>3, <1>4

LEMMA SameTrails ==
    UNCHANGED given =>
      /\ \A s, q, seen, known, rows : Progress(s, q, seen, known, rows)' = Progress(s, q, seen, known, rows)
      /\ \A r : FirstTrail(r)' = FirstTrail(r)
<1> SUFFICES ASSUME UNCHANGED given
             PROVE
      /\ \A s, q, seen, known, rows : Progress(s, q, seen, known, rows)' = Progress(s, q, seen, known, rows)
      /\ \A r : FirstTrail(r)' = FirstTrail(r)
  OBVIOUS
<1>1. \A s : Trails(s)' = Trails(s)
  <2>1. kind' = kind /\ arcs' = arcs
    BY DEF given
  <2> QED BY <2>1 DEF Trails, TrailOn, RangeDm, Open, After, Onward, Start, Pairs
<1>2. \A s, e, n : Least(s, e, n)' = Least(s, e, n)
  BY <1>1 DEF Least, Mark
<1>3. ASSUME NEW s, NEW q, NEW seen, NEW num
      PROVE  Ordered(s, q, seen, num)' = Ordered(s, q, seen, num)
  <2>1. Trails(s)' = Trails(s) /\ \A n : Open(n)' = Open(n)
    BY <1>1, SameTables
  <2> QED BY <1>2, <2>1 DEF Ordered, Mark, Onward
<1>4. \A s, q, seen, known, rows, h, num :
        At(s, q, seen, known, rows, h, num)' = At(s, q, seen, known, rows, h, num)
  BY <1>3, SameLevels DEF At, Marks, Mark
<1>5. \A s, q, seen, known, rows : Progress(s, q, seen, known, rows)' = Progress(s, q, seen, known, rows)
  BY <1>4 DEF Progress
<1>6. \A r : FirstTrail(r)' = FirstTrail(r)
  BY <1>1, <1>2 DEF FirstTrail
<1> QED BY <1>5, <1>6

(* The crawler's loop. *)
RangeState(l, rest, s, q, known, rows) ==
    /\ OneRowEach(rows)
    /\ \A r \in rows : r.seed \in seeds /\ SoundRow(r) /\ FirstTrail(r)
    /\ l = "range" =>
         /\ \A t \in seeds \ (rest \cup {s}) : Complete(rows, t)
         /\ s # Nobody => /\ QueueSound(s, q, Cardinality(known))
                          /\ \E seen : Progress(s, q, seen, known, rows)
    /\ l # "range" => \A t \in seeds : Complete(rows, t)
RangeInvariant == RangeState(loop, left, seed, queue, visited, range)

LEMMA RangePrimed ==
    UNCHANGED given /\ RangeState(loop', left', seed', queue', visited', range') => RangeInvariant'
<1> SUFFICES ASSUME UNCHANGED given, RangeState(loop', left', seed', queue', visited', range')
             PROVE  RangeInvariant'
  OBVIOUS
<1>1. \A l, rest, s, q, known, rows :
        RangeState(l, rest, s, q, known, rows)' = RangeState(l, rest, s, q, known, rows)
  BY SameLevels, SameSound, SameTables, SameTrails DEF RangeState, OneRowEach
<1> QED BY <1>1 DEF RangeInvariant

-----------------------------------------------------------------------------
(* The states of the two programs. *)
GateType ==
    /\ WellGiven
    /\ seeds \subseteq Crawled(kind)
    /\ loop \in {"range", "edges", "scope", "done"}
    /\ left \subseteq seeds
    /\ seed \in seeds \cup {Nobody} /\ seed \notin left
    /\ queue \in Seq(Pairs) /\ (seed = Nobody => queue = <<>>)
    /\ visited \in SUBSET (Tables \X BOOLEAN)
    /\ range \in SUBSET Rows /\ scope \in SUBSET Rows /\ selected \subseteq arcs
    /\ loop = "done" => queue = <<>> /\ left = {}

LEMMA HeadIsPair ==
    ASSUME GateType, queue # <<>>
    PROVE  /\ seed \in Tables /\ seed \in seeds /\ seed # Nobody /\ loop # "done"
           /\ Head(queue) \in Pairs /\ Tail(queue) \in Seq(Pairs)
<1>1. /\ seed # Nobody /\ seed \in seeds /\ seeds \subseteq Tables /\ loop # "done"
      /\ queue \in Seq(Pairs)
  BY DEF GateType, Crawled
<1>2. Head(queue) \in Pairs /\ Tail(queue) \in Seq(Pairs)
  BY <1>1, HeadOfQueue
<1> QED BY <1>1, <1>2

(* A sound pair with an arc can be expanded. *)
LEMMA SoundLeads ==
    ASSUME WellGiven, NEW s, NEW p \in Pairs, Sound(s, p), p.hop + 1 \in Hops, NEW c
    PROVE  Leads(p, c)
<1> SUFFICES ASSUME NEW x, <<p.node, x>> \in arcs PROVE p.hop = 0 \/ Open(p.node)
  BY DEF Leads
<1>1. p.node \in Crawled(kind) /\ p.node \in Tables /\ kind[p.node] \in AllKinds
  BY DEF WellGiven, Crawled
<1> QED BY <1>1 DEF Sound, Crawled, AllKinds, Open

LEMMA RangeTurnKeeps ==
    ASSUME GateType, RangeInvariant, loop = "range", queue # <<>>, RangeStep,
           UNCHANGED <<given, loop, left, seed>>
    PROVE  /\ queue' \in Seq(Pairs) /\ visited' \in SUBSET (Tables \X BOOLEAN)
           /\ range' \in SUBSET Rows
           /\ RangeState(loop', left', seed', queue', visited', range')
<1> DEFINE p == Head(queue)
           q0 == Tail(queue)
           b == [queue |-> q0, visited |-> visited, rows |-> range]
           done == RangeTurns(seed, p, b)[N]
           n == Cardinality(visited)
           n2 == Cardinality(visited')
<1>1. /\ seed \in Tables /\ seed \in seeds /\ seed # Nobody
      /\ p \in Pairs /\ q0 \in Seq(Pairs) /\ p = queue[1] /\ 1 \in DOMAIN queue
  BY HeadIsPair, HeadOfQueue DEF GateType
<1>2. /\ WellGiven /\ queue \in Seq(Pairs)
      /\ visited \in SUBSET (Tables \X BOOLEAN) /\ range \in SUBSET Rows
  BY DEF GateType
<1>3. RangeLoop(seed, p, q0, visited, range, done, N)
  BY <1>1, <1>2, RangeTurnsWork
<1>4. queue' = done.queue /\ visited' = done.visited /\ range' = done.rows
  BY DEF RangeStep
<1> HIDE DEF done, p, q0
<1>5. /\ Looked(p, q0, visited, queue', visited', N) /\ RowsOf(seed, p, range, range', N)
      /\ visited' \subseteq Tables \X BOOLEAN
      /\ \A i \in DOMAIN queue' : i \in 1..Len(q0) \/ Mark(queue'[i]) \notin visited
  BY <1>3, <1>4 DEF RangeLoop
<1>6. /\ queue' \in Seq(Pairs) /\ visited \subseteq visited'
      /\ \A i \in DOMAIN queue' : i \in 1..Len(q0) \/ Mark(queue'[i]) \in visited'
  BY <1>5 DEF Looked
<1>7. /\ range' \in SUBSET Rows /\ Keeps(range', range)
      /\ (OneRowEach(range) => OneRowEach(range'))
  BY <1>5 DEF RowsOf
<1>8. /\ OneRowEach(range) /\ \A r \in range : r.seed \in seeds /\ SoundRow(r) /\ FirstTrail(r)
      /\ \A t \in seeds \ (left \cup {seed}) : Complete(range, t)
      /\ QueueSound(seed, queue, n)
      /\ \E seen : Progress(seed, queue, seen, visited, range)
  BY <1>1 DEF RangeInvariant, RangeState
<1>9. /\ n \in Nat /\ n2 \in Nat /\ n <= n2 /\ n <= 2 * N
      /\ \A m \in visited' \ visited : n + 1 <= n2
  BY <1>2, <1>5, <1>6, PairCount, PairsGrow
<1> HIDE DEF n, n2
<1>10. Sound(seed, p) /\ p.hop < n /\ p.hop \in Nat
  BY <1>1, <1>8 DEF QueueSound, Pairs
<1>11. p.hop + 1 \in Hops
  BY <1>9, <1>10, GateN DEF Hops
<1>12. /\ \E seen : Progress(seed, queue', seen, visited', range')
       /\ \A r \in range' : FirstTrail(r)
  <2>1. PICK seen : Progress(seed, queue, seen, visited, range)
    BY <1>8
  <2>2. Leads(p, N)
    BY <1>1, <1>2, <1>10, <1>11, SoundLeads
  <2>3. Looked(p, Tail(queue), visited, queue', visited', N) /\ p = Head(queue)
    BY <1>5 DEF q0, p
  <2>4. /\ Progress(seed, queue', seen \cup {Mark(p)}, visited', range')
        /\ \A r \in range' : r \in range \/ FirstTrail(r)
    BY <2>1, <2>2, <2>3, <1>1, <1>2, <1>5, ProgressTurn
  <2> QED BY <2>4, <1>8
<1>13. QueueSound(seed, queue', n2)
  <2>1. \A i \in DOMAIN queue' : i \in 1..Len(Tail(queue)) \/ p.hop + 1 < n2
    BY <1>5, <1>6, <1>9, <1>10 DEF q0
  <2>2. Looked(p, Tail(queue), visited, queue', visited', N) /\ p = Head(queue) /\ N \in 0..N
    BY <1>5, GateN DEF q0, p
  <2> QED BY <2>1, <2>2, <1>1, <1>2, <1>8, <1>9, <1>11, QueueSoundTurn
<1>14. \A r \in range' : SoundRow(r)
  BY <1>1, <1>2, <1>5, <1>8, <1>10, <1>11, RowsSoundTurn
<1>15. \A r \in range' : r.seed \in seeds
  <2> SUFFICES ASSUME NEW r \in range' PROVE r.seed \in seeds
    OBVIOUS
  <2>1. r \in range \/ \E x \in 1..N : r = RowAfter(seed, p, x)
    BY <1>5 DEF RowsOf
  <2>2. ASSUME NEW x \in 1..N, r = RowAfter(seed, p, x) PROVE r.seed = seed
    BY <2>2 DEF RowAfter
  <2> QED BY <1>1, <1>8, <2>1, <2>2
<1>16. \A t \in seeds \ (left \cup {seed}) : Complete(range', t)
  BY <1>2, <1>7, <1>8, CompleteOn
<1>17. loop' = loop /\ left' = left /\ seed' = seed
  OBVIOUS
<1>18. RangeState(loop, left, seed, queue', visited', range')
  BY <1>7, <1>8, <1>12, <1>13, <1>14, <1>15, <1>16 DEF RangeState, n2
<1> QED BY <1>5, <1>6, <1>7, <1>17, <1>18

-----------------------------------------------------------------------------
(* The adapter's loops. *)
WalkState(l, s, q, seen) ==
    l \in {"edges", "scope"} /\ s # Nobody => QueueSound(s, q, Cardinality(seen) + 1)

(* The edges selected are the task's; for a seed that is finished, all are. *)
OwnEdge(a) ==
    \E t \in seeds, k \in Hops, d \in BOOLEAN : <<a[1], d>> \in WalkEnds(t)[k] /\ (k = 0 \/ Open(a[1]))

Owned(s, sel) ==
    \A k \in Hops : \A m \in OpenEnds(s, k) : \A x \in Tables :
      <<m[1], x>> \in arcs => <<m[1], x>> \in sel

Closed(s, q, seen, sel) ==
    /\ <<s, RangeDm(s)>> \in seen \cup Marks(q)
    /\ \A m \in seen : \A x \in Tables : <<m[1], x>> \in arcs =>
         /\ <<m[1], x>> \in sel
         /\ Open(x) => <<x, m[2] \/ RangeDm(x)>> \in seen \cup Marks(q)

EdgesState(l, rest, s, q, seen, sel) ==
    /\ \A a \in sel : OwnEdge(a)
    /\ l = "edges" =>
         /\ \A t \in seeds \ (rest \cup {s}) : Owned(t, sel)
         /\ s # Nobody => Closed(s, q, seen, sel)
    /\ l \in {"scope", "done"} => \A t \in seeds : Owned(t, sel)

(* The records, when the names of DM databases are those of tables. *)
ScopeState(l, rest, s, q, seen, rows) ==
    (\A x \in Tables : kind[x] # "observedDm") =>
      /\ OneRowEach(rows)
      /\ \A r \in rows : r.seed \in seeds /\ SoundRow(r) /\ FirstTrail(r)
      /\ l = "scope" =>
           /\ \A t \in seeds \ (rest \cup {s}) : Complete(rows, t)
           /\ s # Nobody => Progress(s, q, seen, seen \cup Marks(q), rows)
      /\ l = "done" => \A t \in seeds : Complete(rows, t)

AdapterInvariant ==
    /\ WalkState(loop, seed, queue, visited)
    /\ EdgesState(loop, left, seed, queue, visited, selected)
    /\ ScopeState(loop, left, seed, queue, visited, scope)

LEMMA AdapterPrimed ==
    /\ UNCHANGED given
    /\ WalkState(loop', seed', queue', visited')
    /\ EdgesState(loop', left', seed', queue', visited', selected')
    /\ ScopeState(loop', left', seed', queue', visited', scope')
    => AdapterInvariant'
<1> SUFFICES ASSUME UNCHANGED given, WalkState(loop', seed', queue', visited'),
                    EdgesState(loop', left', seed', queue', visited', selected'),
                    ScopeState(loop', left', seed', queue', visited', scope')
             PROVE  AdapterInvariant'
  OBVIOUS
<1>1. \A l, s, q, seen : WalkState(l, s, q, seen)' = WalkState(l, s, q, seen)
  BY SameLevels DEF WalkState
<1>2. ASSUME NEW a PROVE OwnEdge(a)' = OwnEdge(a)
  BY SameWalks, SameTables DEF OwnEdge
<1>3. ASSUME NEW s, NEW sel PROVE Owned(s, sel)' = Owned(s, sel)
  BY SameEnds, SameTables DEF Owned
<1>4. ASSUME NEW s, NEW q, NEW seen, NEW sel
      PROVE  Closed(s, q, seen, sel)' = Closed(s, q, seen, sel)
  BY SameTables DEF Closed
<1>5. ASSUME NEW l, NEW rest, NEW s, NEW q, NEW seen, NEW sel
      PROVE  EdgesState(l, rest, s, q, seen, sel)' = EdgesState(l, rest, s, q, seen, sel)
  BY <1>2, <1>3, <1>4, SameTables DEF EdgesState
<1>6. ASSUME NEW l, NEW rest, NEW s, NEW q, NEW seen, NEW rows
      PROVE  ScopeState(l, rest, s, q, seen, rows)' = ScopeState(l, rest, s, q, seen, rows)
  <2>1. Progress(s, q, seen, seen \cup Marks(q), rows)' = Progress(s, q, seen, seen \cup Marks(q), rows)
    BY SameTrails DEF Marks, Mark
  <2>2. \A r : FirstTrail(r)' = FirstTrail(r)
    BY SameTrails
  <2>3. \A t : Complete(rows, t)' = Complete(rows, t)
    BY SameLevels
  <2>4. \A r : SoundRow(r)' = SoundRow(r)
    BY SameSound
  <2>5. kind' = kind /\ seeds' = seeds
    BY SameTables
  <2> QED BY <2>1, <2>2, <2>3, <2>4, <2>5 DEF ScopeState
<1> QED BY <1>1, <1>5, <1>6 DEF AdapterInvariant

(* Taking a pair from the queue moves its mark into the visited. *)
LEMMA MarkMoves ==
    ASSUME NEW q \in Seq(Pairs), q # <<>>, NEW seen
    PROVE  /\ seen \cup Marks(q) = (seen \cup {Mark(Head(q))}) \cup Marks(Tail(q))
           /\ Mark(Head(q)) \in seen => seen \cup Marks(q) = seen \cup Marks(Tail(q))
<1>1. Marks(q) = {Mark(Head(q))} \cup Marks(Tail(q))
  BY HeadOfQueue
<1> QED BY <1>1

(* What the two loops of the adapter have in common: what a turn leaves. *)
Turned(rows0, q2, rows2, seen2) ==
    /\ q2 \in Seq(Pairs) /\ rows2 \in SUBSET Rows /\ seen2 \in SUBSET (Tables \X BOOLEAN)
    /\ QueueSound(seed, q2, Cardinality(seen2) + 1)
    /\ Skip => q2 = Tail(queue) /\ rows2 = rows0 /\ seen2 = visited
    /\ ~Skip => /\ Head(queue).hop + 1 \in Hops
                /\ Looked(Head(queue), Tail(queue), visited \cup Marks(queue), q2, seen2 \cup Marks(q2), N)
                /\ (\A x \in Tables : kind[x] # "observedDm") => RowsOf(seed, Head(queue), rows0, rows2, N)

LEMMA AdapterTurnKeeps ==
    ASSUME GateType, AdapterInvariant, loop \in {"edges", "scope"}, queue # <<>>,
           NEW from, NEW rows0 \in SUBSET Rows,
           ~Skip => \A x \in Tables : <<Head(queue).node, x>> \in from <=> <<Head(queue).node, x>> \in arcs
    PROVE  Turned(rows0, AdapterTurn(from, rows0).queue, AdapterTurn(from, rows0).rows,
                  visited \cup {Mark(Head(queue))})
<1> DEFINE q2 == AdapterTurn(from, rows0).queue
           rows2 == AdapterTurn(from, rows0).rows
           seen2 == visited \cup {Mark(Head(queue))}
           p == Head(queue)
           n == Cardinality(visited)
           n2 == Cardinality(seen2)
<1>1. /\ seed \in Tables /\ seed \in seeds /\ seed # Nobody
      /\ p \in Pairs /\ Tail(queue) \in Seq(Pairs) /\ p = queue[1] /\ 1 \in DOMAIN queue
      /\ \A i \in 1..Len(Tail(queue)) : i + 1 \in DOMAIN queue /\ Tail(queue)[i] = queue[i + 1]
  BY HeadIsPair, HeadOfQueue DEF GateType
<1>2. /\ WellGiven /\ queue \in Seq(Pairs) /\ kind \in [Tables -> AllKinds]
      /\ visited \in SUBSET (Tables \X BOOLEAN)
  BY DEF GateType, WellGiven
<1>3. Mark(p) \in Tables \X BOOLEAN
  BY <1>1 DEF Mark, Pairs
<1>4. seen2 \in SUBSET (Tables \X BOOLEAN)
  BY <1>2, <1>3
<1>5. QueueSound(seed, queue, n + 1)
  BY <1>1 DEF AdapterInvariant, WalkState
<1>6. /\ n \in Nat /\ n2 \in Nat /\ n <= n2 /\ n2 <= 2 * N
      /\ Mark(p) \notin visited => n + 1 <= n2
  <2>1. visited \subseteq seen2 /\ Mark(p) \in seen2
    OBVIOUS
  <2>2. \A m \in seen2 \ visited : n + 1 <= n2
    BY <1>2, <1>4, <2>1, PairsGrow
  <2>3. n <= n2
    BY <1>2, <1>4, <2>1, PairsGrow
  <2>4. n \in Nat /\ n2 \in Nat /\ n2 <= 2 * N
    BY <1>2, <1>4, PairCount
  <2> QED BY <2>1, <2>2, <2>3, <2>4
<1> HIDE DEF n, n2
<1>7. Sound(seed, p) /\ p.hop < n + 1 /\ p.hop \in Nat
  BY <1>1, <1>5 DEF QueueSound, Pairs
<1>8. ~Skip => p.hop + 1 \in Hops /\ p.hop + 1 < n2 + 1
  BY <1>6, <1>7, GateN DEF Hops, Skip
<1>9. ASSUME Skip
      PROVE  /\ q2 = Tail(queue) /\ rows2 = rows0 /\ seen2 = visited
             /\ QueueSound(seed, q2, n2 + 1)
  <2>1. q2 = Tail(queue) /\ rows2 = rows0
    BY <1>9 DEF AdapterTurn
  <2>2. seen2 = visited
    BY <1>9 DEF Skip
  <2>3. n2 = n
    BY <2>2 DEF n, n2
  <2>4. DOMAIN Tail(queue) = 1..Len(Tail(queue))
    BY <1>1
  <2> QED BY <2>1, <2>2, <2>3, <2>4, <1>1, <1>5 DEF QueueSound
<1>10. ASSUME ~Skip
       PROVE  /\ Looked(p, Tail(queue), visited \cup Marks(queue), q2, seen2 \cup Marks(q2), N)
              /\ rows2 \in SUBSET Rows
              /\ (\A x \in Tables : kind[x] # "observedDm") => RowsOf(seed, p, rows0, rows2, N)
  <2> DEFINE b == AdapterTurns(seed, p, from, [queue |-> Tail(queue), rows |-> rows0])[N]
  <2>1. \A x \in Tables : <<p.node, x>> \in from <=> <<p.node, x>> \in arcs
    BY <1>10
  <2> HIDE DEF p
  <2>2. AdapterLoop(seed, p, Tail(queue), seen2, rows0, b, N)
    BY <1>1, <1>2, <2>1, AdapterTurnsWork
  <2>3. q2 = b.queue /\ rows2 = b.rows
    BY <1>10 DEF AdapterTurn, p
  <2> HIDE DEF b
  <2>4. seen2 \cup Marks(Tail(queue)) = visited \cup Marks(queue)
    BY <1>2, MarkMoves
  <2> QED BY <2>2, <2>3, <2>4 DEF AdapterLoop
<1>11. ASSUME ~Skip PROVE q2 \in Seq(Pairs) /\ QueueSound(seed, q2, n2 + 1)
  <2>1. /\ Looked(p, Tail(queue), visited \cup Marks(queue), q2, seen2 \cup Marks(q2), N)
        /\ N \in 0..N
    BY <1>10, <1>11, GateN
  <2>2. \A i \in DOMAIN q2 : i \in 1..Len(Tail(queue)) \/ p.hop + 1 < n2 + 1
    BY <1>8, <1>11
  <2>3. /\ n + 1 \in Nat /\ n2 + 1 \in Nat /\ n + 1 <= n2 + 1 /\ p.hop + 1 \in Hops
        /\ p = Head(queue)
    BY <1>6, <1>8, <1>11
  <2> HIDE DEF p
  <2>4. QueueSound(seed, q2, n2 + 1)
    BY <2>1, <2>2, <2>3, <1>1, <1>2, <1>5, QueueSoundTurn
  <2> QED BY <2>1, <2>4 DEF Looked
<1>12. q2 \in Seq(Pairs) /\ rows2 \in SUBSET Rows /\ QueueSound(seed, q2, n2 + 1)
  BY <1>1, <1>9, <1>10, <1>11
<1> QED BY <1>4, <1>8, <1>9, <1>10, <1>12 DEF n2, Turned

(* What has arcs is the end of a walk that may go on. *)
LEMMA HeadLeads ==
    ASSUME GateType, AdapterInvariant, loop \in {"edges", "scope"}, queue # <<>>
    PROVE  /\ Sound(seed, Head(queue))
           /\ \A x : <<Head(queue).node, x>> \in arcs =>
                /\ Mark(Head(queue)) \in OpenEnds(seed, Head(queue).hop)
                /\ Head(queue).hop = 0 \/ Open(Head(queue).node)
<1> DEFINE p == Head(queue)
<1>1. /\ seed # Nobody /\ p \in Pairs /\ p = queue[1] /\ 1 \in DOMAIN queue
      /\ WellGiven
  BY HeadIsPair, HeadOfQueue DEF GateType
<1> HIDE DEF p
<1>2. Sound(seed, p)
  BY <1>1 DEF AdapterInvariant, WalkState, QueueSound
<1>3. ASSUME NEW x, <<p.node, x>> \in arcs PROVE p.hop = 0 \/ Open(p.node)
  <2>1. /\ p.node \in Tables /\ kind[p.node] \notin {"observed", "observedDm"}
        /\ kind[p.node] \in AllKinds
    BY <1>1, <1>3 DEF WellGiven, Crawled
  <2>2. p.hop = 0 \/ kind[p.node] \notin {"unknown", "dm"}
    BY <1>2 DEF Sound
  <2> QED BY <2>1, <2>2 DEF Open, AllKinds
<1>4. Mark(p) \in WalkEnds(seed)[p.hop] /\ Mark(p)[1] = p.node
  BY <1>2 DEF Sound, Mark
<1> QED BY <1>2, <1>3, <1>4 DEF OpenEnds, p

LEMMA EdgesTurnKeeps ==
    ASSUME GateType, AdapterInvariant, loop = "edges", queue # <<>>, AdapterStep,
           UNCHANGED <<given, loop, left, seed>>
    PROVE  /\ queue' \in Seq(Pairs) /\ visited' \in SUBSET (Tables \X BOOLEAN)
           /\ selected' \subseteq arcs /\ UNCHANGED <<range, scope>>
           /\ WalkState(loop', seed', queue', visited')
           /\ EdgesState(loop', left', seed', queue', visited', selected')
           /\ ScopeState(loop', left', seed', queue', visited', scope')
<1> DEFINE p == Head(queue)
<1>1. /\ queue' = AdapterTurn(arcs, {}).queue
      /\ selected' = IF Skip THEN selected ELSE selected \cup {a \in arcs : a[1] = p.node}
      /\ visited' = visited \cup {Mark(p)} /\ UNCHANGED <<range, scope>>
  BY DEF AdapterStep, EdgesStep
<1>2. /\ WellGiven /\ selected \subseteq arcs /\ queue \in Seq(Pairs)
      /\ seed \in seeds /\ seed # Nobody /\ seeds \subseteq Tables /\ p \in Pairs
      /\ visited \in SUBSET (Tables \X BOOLEAN)
  BY HeadIsPair DEF GateType, Crawled
<1>3. /\ queue' \in Seq(Pairs) /\ visited' \in SUBSET (Tables \X BOOLEAN)
      /\ QueueSound(seed, queue', Cardinality(visited') + 1)
      /\ Skip => queue' = Tail(queue) /\ visited' = visited
      /\ ~Skip => Looked(p, Tail(queue), visited \cup Marks(queue), queue', visited' \cup Marks(queue'), N)
  <2>1. {} \in SUBSET Rows /\ loop \in {"edges", "scope"}
    OBVIOUS
  <2>2. Turned({}, AdapterTurn(arcs, {}).queue, AdapterTurn(arcs, {}).rows, visited \cup {Mark(Head(queue))})
    BY <2>1, AdapterTurnKeeps
  <2> QED BY <2>2, <1>1 DEF Turned
<1>4. Sound(seed, p) /\ \A x : <<p.node, x>> \in arcs => p.hop = 0 \/ Open(p.node)
  BY HeadLeads
<1> HIDE DEF p
<1>5. /\ \A a \in selected : OwnEdge(a)
      /\ \A t \in seeds \ (left \cup {seed}) : Owned(t, selected)
      /\ Closed(seed, queue, visited, selected)
  BY <1>2 DEF AdapterInvariant, EdgesState
<1>6. selected \subseteq selected' /\ selected' \subseteq arcs
  BY <1>1, <1>2
<1>7. ASSUME NEW a \in selected' PROVE OwnEdge(a)
  <2>1. CASE a \in selected
    BY <2>1, <1>5
  <2>2. CASE a \notin selected
    <3>1. a \in arcs /\ a[1] = p.node
      BY <2>2, <1>1, <1>7
    <3>2. a = <<a[1], a[2]>>
      BY <3>1, <1>2 DEF WellGiven
    <3>3. p.hop = 0 \/ Open(a[1])
      BY <3>1, <3>2, <1>4
    <3>4. p.hop \in Hops /\ <<a[1], p.dm>> \in WalkEnds(seed)[p.hop] /\ p.dm \in BOOLEAN
      BY <3>1, <1>2, <1>4 DEF Sound, Mark, Pairs
    <3> QED BY <3>3, <3>4, <1>2 DEF OwnEdge
  <2> QED BY <2>1, <2>2
<1>8. \A t : Owned(t, selected) => Owned(t, selected')
  BY <1>6 DEF Owned
<1>9. Closed(seed, queue', visited', selected')
  <2>1. CASE Skip
    <3>1. /\ selected' = selected /\ visited' \cup Marks(queue') = visited \cup Marks(queue)
          /\ visited' = visited
      BY <2>1, <1>1, <1>2, <1>3, MarkMoves DEF Skip, p
    <3> QED BY <3>1, <1>5 DEF Closed
  <2>2. CASE ~Skip
    <3> DEFINE known == visited \cup Marks(queue)
               known2 == visited' \cup Marks(queue')
    <3>1. Looked(p, Tail(queue), known, queue', known2, N)
      BY <2>2, <1>3
    <3>2. /\ known \subseteq known2
          /\ \A x \in Tables : <<p.node, x>> \in arcs /\ Open(x) => <<x, p.dm \/ RangeDm(x)>> \in known2
      BY <3>1 DEF Looked, Tables
    <3>3. \A x : <<p.node, x>> \in arcs => <<p.node, x>> \in selected'
      BY <2>2, <1>1
    <3>4. ASSUME NEW m \in visited', NEW x \in Tables, <<m[1], x>> \in arcs
          PROVE  /\ <<m[1], x>> \in selected'
                 /\ Open(x) => <<x, m[2] \/ RangeDm(x)>> \in known2
      <4>1. CASE m \in visited
        BY <4>1, <3>2, <3>4, <1>5, <1>6 DEF Closed
      <4>2. CASE m = Mark(p)
        <5>1. m[1] = p.node /\ m[2] = p.dm
          BY <4>2 DEF Mark
        <5> QED BY <5>1, <3>2, <3>3, <3>4
      <4> QED BY <4>1, <4>2, <3>4, <1>1
    <3>5. <<seed, RangeDm(seed)>> \in known2
      BY <3>2, <1>5 DEF Closed
    <3> QED BY <3>4, <3>5 DEF Closed
  <2> QED BY <2>1, <2>2
<1>10. loop' = loop /\ left' = left /\ seed' = seed /\ scope' = scope
  BY <1>1
<1>11. EdgesState(loop, left, seed, queue', visited', selected')
  BY <1>5, <1>7, <1>8, <1>9 DEF EdgesState
<1>12. WalkState(loop, seed, queue', visited')
  BY <1>3 DEF WalkState
<1>13. ScopeState(loop, left, seed, queue', visited', scope)
  BY DEF AdapterInvariant, ScopeState
<1> QED BY <1>1, <1>3, <1>6, <1>10, <1>11, <1>12, <1>13

LEMMA ScopeTurnKeeps ==
    ASSUME GateType, AdapterInvariant, loop = "scope", queue # <<>>, AdapterStep,
           UNCHANGED <<given, loop, left, seed>>
    PROVE  /\ queue' \in Seq(Pairs) /\ visited' \in SUBSET (Tables \X BOOLEAN)
           /\ scope' \in SUBSET Rows /\ UNCHANGED <<range, selected>>
           /\ WalkState(loop', seed', queue', visited')
           /\ EdgesState(loop', left', seed', queue', visited', selected')
           /\ ScopeState(loop', left', seed', queue', visited', scope')
<1> DEFINE p == Head(queue)
           known == visited \cup Marks(queue)
           known2 == visited' \cup Marks(queue')
<1>1. /\ queue' = AdapterTurn(selected, scope).queue
      /\ scope' = AdapterTurn(selected, scope).rows
      /\ visited' = visited \cup {Mark(p)} /\ UNCHANGED <<range, selected>>
  BY DEF AdapterStep, ScopeStep
<1>2. /\ WellGiven /\ selected \subseteq arcs /\ queue \in Seq(Pairs) /\ scope \in SUBSET Rows
      /\ seed \in seeds /\ seed \in Tables /\ seed # Nobody
      /\ p \in Pairs /\ Tail(queue) \in Seq(Pairs)
  BY HeadIsPair DEF GateType
<1>3. /\ Sound(seed, p)
      /\ \A x : <<p.node, x>> \in arcs => Mark(p) \in OpenEnds(seed, p.hop)
  BY HeadLeads
<1>4. \A x \in Tables : <<p.node, x>> \in selected <=> <<p.node, x>> \in arcs
  <2>1. Owned(seed, selected)
    BY <1>2 DEF AdapterInvariant, EdgesState
  <2>2. p.hop \in Hops /\ Mark(p)[1] = p.node
    BY <1>3 DEF Sound, Mark
  <2> HIDE DEF p
  <2> QED BY <1>2, <1>3, <2>1, <2>2 DEF Owned
<1>5. /\ queue' \in Seq(Pairs) /\ visited' \in SUBSET (Tables \X BOOLEAN)
      /\ scope' \in SUBSET Rows
      /\ QueueSound(seed, queue', Cardinality(visited') + 1)
      /\ ~Skip => p.hop + 1 \in Hops
      /\ Skip => queue' = Tail(queue) /\ scope' = scope /\ visited' = visited
      /\ ~Skip => /\ Looked(p, Tail(queue), known, queue', known2, N)
                  /\ (\A x \in Tables : kind[x] # "observedDm") => RowsOf(seed, p, scope, scope', N)
  <2>1. ~Skip => \A x \in Tables : <<Head(queue).node, x>> \in selected <=> <<Head(queue).node, x>> \in arcs
    BY <1>4
  <2>2. Turned(scope, AdapterTurn(selected, scope).queue, AdapterTurn(selected, scope).rows,
               visited \cup {Mark(Head(queue))})
    BY <2>1, <1>2, AdapterTurnKeeps
  <2> QED BY <2>2, <1>1 DEF Turned
<1>6. loop' = loop /\ left' = left /\ seed' = seed /\ selected' = selected /\ range' = range
  BY <1>1
<1>7. EdgesState(loop, left, seed, queue', visited', selected)
  BY DEF AdapterInvariant, EdgesState
<1>8. WalkState(loop, seed, queue', visited')
  BY <1>5 DEF WalkState
<1>9. ASSUME \A x \in Tables : kind[x] # "observedDm"
      PROVE  /\ OneRowEach(scope')
             /\ \A r \in scope' : r.seed \in seeds /\ SoundRow(r) /\ FirstTrail(r)
             /\ \A t \in seeds \ (left \cup {seed}) : Complete(scope', t)
             /\ Progress(seed, queue', visited', known2, scope')
  <2>1. /\ OneRowEach(scope) /\ \A r \in scope : r.seed \in seeds /\ SoundRow(r) /\ FirstTrail(r)
        /\ \A t \in seeds \ (left \cup {seed}) : Complete(scope, t)
    BY <1>9 DEF AdapterInvariant, ScopeState
  <2>2. Progress(seed, queue, visited, known, scope)
    BY <1>2, <1>9 DEF AdapterInvariant, ScopeState
  <2> HIDE DEF p, known, known2
  <2>4. CASE Skip
    <3>1. queue' = Tail(queue) /\ scope' = scope /\ visited' = visited
      BY <2>4, <1>5
    <3>2. known2 = known
      BY <2>4, <3>1, <1>2, MarkMoves DEF Skip, p, known, known2
    <3>3. Progress(seed, Tail(queue), visited, known, scope)
      BY <2>2, <2>4, <1>2, ProgressSkip DEF Skip
    <3> QED BY <3>1, <3>2, <3>3, <2>1
  <2>5. CASE ~Skip
    <3>1. /\ Looked(p, Tail(queue), known, queue', known2, N)
          /\ RowsOf(seed, p, scope, scope', N) /\ p.hop + 1 \in Hops
      BY <2>5, <1>5, <1>9
    <3>2. Keeps(scope', scope) /\ (OneRowEach(scope) => OneRowEach(scope'))
      BY <3>1 DEF RowsOf
    <3>3. Leads(p, N)
      BY <3>1, <1>2, <1>3, SoundLeads
    <3>4. p = Head(queue)
      BY DEF p
    <3>5. /\ Progress(seed, queue', visited \cup {Mark(p)}, known2, scope')
          /\ \A r \in scope' : r \in scope \/ FirstTrail(r)
      BY <3>1, <3>3, <3>4, <2>2, <1>2, ProgressTurn
    <3>6. Progress(seed, queue', visited', known2, scope')
      BY <3>5, <1>1
    <3>7. \A r \in scope' : SoundRow(r)
      BY <3>1, <2>1, <1>2, <1>3, RowsSoundTurn
    <3>8. ASSUME NEW r \in scope' PROVE r.seed \in seeds
      <4>1. r \in scope \/ \E x \in 1..N : r = RowAfter(seed, p, x)
        BY <3>1 DEF RowsOf
      <4>2. ASSUME NEW x \in 1..N, r = RowAfter(seed, p, x) PROVE r.seed = seed
        BY <4>2 DEF RowAfter
      <4> QED BY <4>1, <4>2, <2>1, <1>2
    <3>9. \A t \in seeds \ (left \cup {seed}) : Complete(scope', t)
      BY <3>2, <2>1, <1>2, <1>5, CompleteOn
    <3> QED BY <3>2, <3>5, <3>6, <3>7, <3>8, <3>9, <2>1
  <2> QED BY <2>4, <2>5 DEF known2
<1>10. ScopeState(loop, left, seed, queue', visited', scope')
  BY <1>9 DEF ScopeState
<1> QED BY <1>1, <1>5, <1>6, <1>7, <1>8, <1>10

(* With an empty queue, all edges of the seed have been selected. *)
LEMMA OwnedDone ==
    ASSUME NEW s \in Tables, NEW seen, NEW sel, Closed(s, <<>>, seen, sel)
    PROVE  Owned(s, sel)
<1> DEFINE T == {k \in Hops : OpenEnds(s, k) \subseteq seen}
<1>1. Marks(<<>>) = {}
  BY DEF Marks
<1>2. /\ <<s, RangeDm(s)>> \in seen
      /\ \A m \in seen : \A x \in Tables : <<m[1], x>> \in arcs =>
           /\ <<m[1], x>> \in sel
           /\ Open(x) => <<x, m[2] \/ RangeDm(x)>> \in seen
  BY <1>1 DEF Closed
<1>3. 0 \in T
  BY <1>2, WalkStart, GateN DEF OpenEnds
<1>4. ASSUME NEW k \in 0..(2 * N), k \in T, k + 1 \in 0..(2 * N) PROVE k + 1 \in T
  <2> SUFFICES ASSUME NEW m \in OpenEnds(s, k + 1) PROVE m \in seen
    BY <1>4 DEF Hops
  <2>1. k + 1 \in Hops /\ k + 1 # 0 /\ k + 1 - 1 = k /\ k \in Nat
    BY <1>4, GateN DEF Hops
  <2>2. m \in WalkEnds(s)[k + 1] /\ Open(m[1])
    BY <2>1 DEF OpenEnds
  <2>3. PICK c \in Tables, d \in BOOLEAN : m = <<c, d>>
    BY <2>1, <2>2, WalksArePairs
  <2>4. PICK p \in OpenEnds(s, k + 1 - 1) : <<p[1], c>> \in arcs /\ d = (p[2] \/ RangeDm(c))
    BY <2>1, <2>2, <2>3, OpenBefore
  <2>5. p \in seen
    BY <2>1, <2>4, <1>4
  <2> QED BY <2>2, <2>3, <2>4, <2>5, <1>2
<1>5. \A k \in 0..(2 * N) : k \in T
  <2>1. 2 * N \in Nat
    BY GateN
  <2> HIDE DEF T
  <2> QED BY <1>3, <1>4, <2>1, UpTo
<1>6. \A k \in Hops : OpenEnds(s, k) \subseteq seen
  BY <1>5 DEF Hops
<1> QED BY <1>2, <1>6 DEF Owned

(* With an empty queue, the loop has done its work for the seed. *)
LEMMA SeedDone ==
    ASSUME GateType, RangeInvariant, AdapterInvariant, queue = <<>>
    PROVE  /\ loop = "range" => \A t \in seeds \ left : Complete(range, t)
           /\ loop = "edges" => \A t \in seeds \ left : Owned(t, selected)
           /\ loop = "scope" /\ (\A x \in Tables : kind[x] # "observedDm") =>
                \A t \in seeds \ left : Complete(scope, t)
<1>1. /\ seeds \subseteq Tables /\ seed \in seeds \cup {Nobody} /\ range \in SUBSET Rows
      /\ scope \in SUBSET Rows
      /\ Nobody \notin Tables
  BY GateN DEF GateType, Crawled, Nobody, Tables
<1>2. \A t \in seeds \ left : t \in seeds \ (left \cup {seed}) \/ (t = seed /\ seed # Nobody /\ seed \in Tables)
  BY <1>1
<1>3. ASSUME loop = "range" PROVE \A t \in seeds \ left : Complete(range, t)
  <2>1. ASSUME seed # Nobody PROVE Complete(range, seed)
    <3>1. PICK h \in Nat : Levels(seed, <<>>, visited, range, h)
      BY <1>3, <2>1 DEF RangeInvariant, RangeState, Progress, At
    <3> QED BY <3>1, <2>1, <1>1, RowsDone
  <2>2. \A t \in seeds \ (left \cup {seed}) : Complete(range, t)
    BY <1>3 DEF RangeInvariant, RangeState
  <2> QED BY <1>2, <2>1, <2>2
<1>4. ASSUME loop = "edges" PROVE \A t \in seeds \ left : Owned(t, selected)
  <2>1. ASSUME seed # Nobody PROVE Owned(seed, selected)
    <3>1. Closed(seed, <<>>, visited, selected)
      BY <1>4, <2>1 DEF AdapterInvariant, EdgesState
    <3> QED BY <3>1, <2>1, <1>1, OwnedDone
  <2>2. \A t \in seeds \ (left \cup {seed}) : Owned(t, selected)
    BY <1>4 DEF AdapterInvariant, EdgesState
  <2> QED BY <1>2, <2>1, <2>2
<1>5. ASSUME loop = "scope", \A x \in Tables : kind[x] # "observedDm"
      PROVE  \A t \in seeds \ left : Complete(scope, t)
  <2>1. ASSUME seed # Nobody PROVE Complete(scope, seed)
    <3>1. PICK h \in Nat : Levels(seed, <<>>, visited \cup Marks(<<>>), scope, h)
      BY <1>5, <2>1 DEF AdapterInvariant, ScopeState, Progress, At
    <3> QED BY <3>1, <2>1, <1>1, RowsDone
  <2>2. \A t \in seeds \ (left \cup {seed}) : Complete(scope, t)
    BY <1>5 DEF AdapterInvariant, ScopeState
  <2> QED BY <1>2, <2>1, <2>2
<1> QED BY <1>3, <1>4, <1>5

LEMMA GateStarts == GateInit => GateType /\ RangeInvariant /\ AdapterInvariant
<1> SUFFICES ASSUME GateInit PROVE GateType /\ RangeInvariant /\ AdapterInvariant
  OBVIOUS
<1>1. kind \in [Tables -> AllKinds]
  BY GateAssumption DEF GateInit
<1>2. Crawled(kind) \subseteq Tables /\ Nobody \notin Tables
  BY GateN DEF Crawled, Nobody, Tables
<1>3. arcs \subseteq Crawled(kind) \X Tables /\ <<>> \in Seq(Pairs)
  BY DEF GateInit
<1>4. GateType
  BY <1>1, <1>2, <1>3 DEF GateInit, GateType, WellGiven
<1>5. RangeInvariant
  BY DEF GateInit, RangeInvariant, RangeState, OneRowEach
<1>6. AdapterInvariant
  BY DEF GateInit, AdapterInvariant, WalkState, EdgesState, ScopeState, OneRowEach
<1> QED BY <1>4, <1>5, <1>6

LEMMA NextSeedKeeps ==
    ASSUME GateType, RangeInvariant, AdapterInvariant, NextSeed
    PROVE  (GateType /\ RangeInvariant /\ AdapterInvariant)'
<1> DEFINE s == Min(left)
           e == Start(s, RangeDm(s))
<1>1. /\ loop # "done" /\ queue = <<>> /\ left # {}
      /\ UNCHANGED <<given, loop, range, selected, scope>>
  BY DEF NextSeed
<1>2. /\ seeds \subseteq Crawled(kind) /\ Crawled(kind) \subseteq Tables
      /\ left \subseteq seeds
      /\ Nobody \notin Tables /\ Tables \subseteq Nat
      /\ WellGiven /\ kind \in [Tables -> AllKinds]
  BY GateN DEF GateType, Crawled, Nobody, Tables, WellGiven
<1>3. s \in left
  <2>1. \E x \in left : \A y \in left : x <= y
    BY <1>1, <1>2, LeastNumber
  <2> QED BY <2>1 DEF Min
<1> HIDE DEF s
<1>4. s \in seeds /\ s \in Tables /\ s # Nobody
  BY <1>2, <1>3
<1>5. ScopeDm(s) = RangeDm(s)
  BY <1>2, <1>4 DEF Crawled, ScopeDm, RangeDm
<1>6. /\ seed' = s /\ left' = left \ {s} /\ queue' = <<e>>
      /\ visited' = IF loop = "range" THEN {Mark(e)} ELSE {}
  BY <1>5 DEF NextSeed, s
<1>7. e \in Pairs /\ Sound(s, e) /\ e.hop = 0 /\ Mark(e) = <<s, RangeDm(s)>>
  BY <1>4, SoundStart
<1> HIDE DEF e
<1>8. /\ <<e>> \in Seq(Pairs) /\ DOMAIN <<e>> = {1} /\ <<e>>[1] = e
  BY <1>7
<1>9. Mark(e) \in Tables \X BOOLEAN
  BY <1>7 DEF Mark, Pairs
<1>10. Cardinality({Mark(e)}) = 1 /\ Cardinality({}) = 0
  BY FS_Singleton, FS_EmptySet
<1>11. QueueSound(s, <<e>>, 1)
  BY <1>7, <1>8 DEF QueueSound
<1>12. Marks(<<e>>) = {Mark(e)}
  BY <1>8 DEF Marks
<1>13. \A rows : Progress(s, <<e>>, {}, {Mark(e)}, rows)
  BY <1>4, ProgressStart DEF e
<1>14. GateType'
  <2>1. visited' \in SUBSET (Tables \X BOOLEAN) /\ queue' \in Seq(Pairs)
    BY <1>6, <1>8, <1>9
  <2>2. /\ seed' \in seeds \cup {Nobody} /\ seed' \notin left' /\ left' \subseteq seeds
        /\ seed' # Nobody
    BY <1>2, <1>4, <1>6
  <2>3. /\ WellGiven' /\ seeds' = seeds /\ Crawled(kind)' = Crawled(kind) /\ loop' = loop
        /\ range' = range /\ scope' = scope /\ selected' = selected /\ arcs' = arcs
    BY <1>1, <1>2 DEF given, WellGiven, Crawled
  <2> QED BY <2>1, <2>2, <2>3, <1>1, <1>2 DEF GateType
<1>15. \A t \in seeds \ (left' \cup {s}) : t \in seeds \ left
  BY <1>6
<1>16. RangeState(loop, left', s, <<e>>, visited', range)
  <2>1. loop = "range" => \A t \in seeds \ (left' \cup {s}) : Complete(range, t)
    BY <1>1, <1>15, SeedDone
  <2>2. loop = "range" => /\ QueueSound(s, <<e>>, Cardinality(visited'))
                          /\ Progress(s, <<e>>, {}, visited', range)
    BY <1>6, <1>10, <1>11, <1>13
  <2> QED BY <2>1, <2>2 DEF RangeInvariant, RangeState
<1>17. WalkState(loop, s, <<e>>, visited')
  <2>1. loop \in {"edges", "scope"} => Cardinality(visited') + 1 = 1
    BY <1>6, <1>10
  <2> QED BY <2>1, <1>11 DEF WalkState
<1>18. EdgesState(loop, left', s, <<e>>, visited', selected)
  <2>1. loop = "edges" => \A t \in seeds \ (left' \cup {s}) : Owned(t, selected)
    BY <1>1, <1>15, SeedDone
  <2>2. loop = "edges" => Closed(s, <<e>>, visited', selected)
    BY <1>6, <1>7, <1>12 DEF Closed
  <2> QED BY <2>1, <2>2 DEF AdapterInvariant, EdgesState
<1>19. ScopeState(loop, left', s, <<e>>, visited', scope)
  <2> SUFFICES ASSUME \A x \in Tables : kind[x] # "observedDm"
               PROVE  ScopeState(loop, left', s, <<e>>, visited', scope)
    BY DEF ScopeState
  <2>1. loop = "scope" => \A t \in seeds \ (left' \cup {s}) : Complete(scope, t)
    BY <1>1, <1>15, SeedDone
  <2>2. loop = "scope" => visited' = {} /\ visited' \cup Marks(<<e>>) = {Mark(e)}
    BY <1>6, <1>12
  <2>3. loop = "scope" => Progress(s, <<e>>, visited', visited' \cup Marks(<<e>>), scope)
    BY <2>2, <1>13
  <2> QED BY <2>1, <2>3 DEF AdapterInvariant, ScopeState
<1>20. /\ UNCHANGED given /\ loop' = loop /\ seed' = s /\ queue' = <<e>>
       /\ range' = range /\ selected' = selected /\ scope' = scope
  BY <1>1, <1>6
<1>21. RangeInvariant'
  BY <1>16, <1>20, RangePrimed
<1>22. AdapterInvariant'
  BY <1>17, <1>18, <1>19, <1>20, AdapterPrimed
<1> QED BY <1>14, <1>21, <1>22

LEMMA NextLoopKeeps ==
    ASSUME GateType, RangeInvariant, AdapterInvariant, NextLoop
    PROVE  (GateType /\ RangeInvariant /\ AdapterInvariant)'
<1>1. /\ loop # "done" /\ queue = <<>> /\ left = {} /\ seed' = Nobody /\ visited' = {}
      /\ UNCHANGED <<given, queue, range, selected, scope>>
      /\ left' = IF loop' = "done" THEN {} ELSE seeds
  BY DEF NextLoop
<1>2. loop \in {"range", "edges", "scope"}
  BY <1>1 DEF GateType
<1>3. \/ loop = "range" /\ loop' = "edges"
      \/ loop = "edges" /\ loop' = "scope"
      \/ loop = "scope" /\ loop' = "done"
  BY <1>2 DEF NextLoop
<1>4. Nobody \notin seeds
  BY GateN DEF GateType, Crawled, Nobody, Tables
<1>5. GateType'
  <2>1. /\ WellGiven' /\ seeds' = seeds /\ Crawled(kind)' = Crawled(kind)
        /\ range' = range /\ scope' = scope /\ selected' = selected /\ arcs' = arcs
        /\ queue' = queue
    BY <1>1 DEF given, WellGiven, Crawled, GateType
  <2>2. left' \subseteq seeds /\ seed' \in seeds \cup {Nobody} /\ seed' \notin left'
    BY <1>1, <1>4
  <2> QED BY <2>1, <2>2, <1>1, <1>3 DEF GateType
<1>6. /\ loop = "range" => \A t \in seeds : Complete(range, t)
      /\ loop = "edges" => \A t \in seeds : Owned(t, selected)
      /\ loop = "scope" /\ (\A x \in Tables : kind[x] # "observedDm") =>
           \A t \in seeds : Complete(scope, t)
  <2>1. seeds \ left = seeds
    BY <1>1
  <2> QED BY <2>1, <1>1, SeedDone
<1>7. RangeState(loop', left', Nobody, <<>>, {}, range)
  BY <1>3, <1>6 DEF RangeInvariant, RangeState
<1>8. WalkState(loop', Nobody, <<>>, {})
  BY DEF WalkState
<1>9. EdgesState(loop', left', Nobody, <<>>, {}, selected)
  <2>1. \A a \in selected : OwnEdge(a)
    BY DEF AdapterInvariant, EdgesState
  <2>2. loop' = "edges" => seeds \ (left' \cup {Nobody}) = {}
    BY <1>1
  <2>3. loop' \in {"scope", "done"} => \A t \in seeds : Owned(t, selected)
    BY <1>3, <1>6 DEF AdapterInvariant, EdgesState
  <2> QED BY <2>1, <2>2, <2>3 DEF EdgesState
<1>10. ScopeState(loop', left', Nobody, <<>>, {}, scope)
  <2> SUFFICES ASSUME \A x \in Tables : kind[x] # "observedDm"
               PROVE  ScopeState(loop', left', Nobody, <<>>, {}, scope)
    BY DEF ScopeState
  <2>1. OneRowEach(scope) /\ \A r \in scope : r.seed \in seeds /\ SoundRow(r) /\ FirstTrail(r)
    BY DEF AdapterInvariant, ScopeState
  <2>2. loop' = "scope" => seeds \ (left' \cup {Nobody}) = {}
    BY <1>1
  <2>3. loop' = "done" => \A t \in seeds : Complete(scope, t)
    BY <1>3, <1>6
  <2> QED BY <2>1, <2>2, <2>3 DEF ScopeState
<1>11. /\ UNCHANGED given /\ seed' = Nobody /\ queue' = <<>> /\ visited' = {}
       /\ range' = range /\ selected' = selected /\ scope' = scope
  BY <1>1
<1>12. RangeInvariant'
  BY <1>7, <1>11, RangePrimed
<1>13. AdapterInvariant'
  BY <1>8, <1>9, <1>10, <1>11, AdapterPrimed
<1> QED BY <1>5, <1>12, <1>13

LEMMA TurnKeeps ==
    ASSUME GateType, RangeInvariant, AdapterInvariant, Turn
    PROVE  (GateType /\ RangeInvariant /\ AdapterInvariant)'
<1>1. /\ queue # <<>> /\ UNCHANGED <<given, loop, left, seed>> /\ UNCHANGED given
      /\ loop' = loop /\ left' = left /\ seed' = seed /\ seeds' = seeds
      /\ kind' = kind /\ arcs' = arcs
  BY DEF Turn, given
<1>2. seed # Nobody /\ loop # "done"
  BY <1>1, HeadIsPair
<1>3. /\ WellGiven' /\ Crawled(kind)' = Crawled(kind)
  BY <1>1 DEF GateType, WellGiven, Crawled
<1>4. SUFFICES /\ queue' \in Seq(Pairs) /\ visited' \in SUBSET (Tables \X BOOLEAN)
               /\ range' \in SUBSET Rows /\ scope' \in SUBSET Rows /\ selected' \subseteq arcs
               /\ RangeState(loop', left', seed', queue', visited', range')
               /\ WalkState(loop', seed', queue', visited')
               /\ EdgesState(loop', left', seed', queue', visited', selected')
               /\ ScopeState(loop', left', seed', queue', visited', scope')
  <2>1. GateType'
    BY <1>1, <1>2, <1>3, <1>4 DEF GateType
  <2>2. RangeInvariant'
    BY <1>1, <1>4, RangePrimed
  <2>3. AdapterInvariant'
    BY <1>1, <1>4, AdapterPrimed
  <2> QED BY <2>1, <2>2, <2>3
<1>5. CASE loop = "range"
  <2>1. RangeStep /\ UNCHANGED <<selected, scope>>
    BY <1>5 DEF Turn, RangeStep
  <2>2. /\ queue' \in Seq(Pairs) /\ visited' \in SUBSET (Tables \X BOOLEAN)
        /\ range' \in SUBSET Rows
        /\ RangeState(loop', left', seed', queue', visited', range')
    BY <2>1, <1>1, <1>5, RangeTurnKeeps
  <2>3. WalkState(loop', seed', queue', visited')
    BY <1>1, <1>5 DEF WalkState
  <2>4. EdgesState(loop', left', seed', queue', visited', selected')
    BY <2>1, <1>1, <1>5 DEF AdapterInvariant, EdgesState
  <2>5. ScopeState(loop', left', seed', queue', visited', scope')
    BY <2>1, <1>1, <1>5 DEF AdapterInvariant, ScopeState
  <2> QED BY <2>1, <2>2, <2>3, <2>4, <2>5 DEF GateType
<1>6. CASE loop \in {"edges", "scope"}
  <2>1. AdapterStep /\ range' = range
    BY <1>6 DEF Turn, AdapterStep
  <2>2. RangeState(loop', left', seed', queue', visited', range')
    BY <2>1, <1>1, <1>6 DEF RangeInvariant, RangeState
  <2>3. CASE loop = "edges"
    BY <2>1, <2>2, <2>3, <1>1, EdgesTurnKeeps DEF GateType
  <2>4. CASE loop = "scope"
    BY <2>1, <2>2, <2>4, <1>1, ScopeTurnKeeps DEF GateType
  <2> QED BY <1>6, <2>3, <2>4
<1> QED BY <1>2, <1>5, <1>6 DEF GateType

(* No step of the two programs leaves the invariant. *)
THEOREM GateInvariantHolds == GateSpec => [](GateType /\ RangeInvariant /\ AdapterInvariant)
<1>1. GateInit => GateType /\ RangeInvariant /\ AdapterInvariant
  BY GateStarts
<1>2. GateType /\ RangeInvariant /\ AdapterInvariant /\ [GateNext]_gateVars
        => (GateType /\ RangeInvariant /\ AdapterInvariant)'
  <2> SUFFICES ASSUME GateType, RangeInvariant, AdapterInvariant, [GateNext]_gateVars
               PROVE  (GateType /\ RangeInvariant /\ AdapterInvariant)'
    OBVIOUS
  <2>1. CASE Turn
    BY <2>1, TurnKeeps
  <2>2. CASE NextSeed
    BY <2>2, NextSeedKeeps
  <2>3. CASE NextLoop
    BY <2>3, NextLoopKeeps
  <2>4. CASE UNCHANGED gateVars
    <3>1. /\ UNCHANGED given /\ loop' = loop /\ left' = left /\ seed' = seed /\ queue' = queue
          /\ visited' = visited /\ range' = range /\ selected' = selected /\ scope' = scope
          /\ kind' = kind /\ arcs' = arcs /\ seeds' = seeds
      BY <2>4 DEF gateVars, given
    <3>2. GateType'
      BY <3>1 DEF GateType, WellGiven, Crawled
    <3>3. RangeInvariant'
      BY <3>1, RangePrimed DEF RangeInvariant
    <3>4. AdapterInvariant'
      BY <3>1, AdapterPrimed DEF AdapterInvariant
    <3> QED BY <3>2, <3>3, <3>4
  <2> QED BY <2>1, <2>2, <2>3, <2>4 DEF GateNext
<1> QED BY <1>1, <1>2, PTL DEF GateSpec

-----------------------------------------------------------------------------
(* Rows that are sound, complete and one for each pair are those of the    *)
(* rule: the same tables, at the hops of a shortest walk.                  *)
FollowsRule(rows) ==
    /\ rows \in SUBSET Rows /\ OneRowEach(rows)
    /\ \A r \in rows : r.seed \in seeds /\ SoundRow(r) /\ FirstTrail(r)
    /\ \A t \in seeds : Complete(rows, t)

LEMMA RowsAreGated ==
    ASSUME NEW rows, FollowsRule(rows), NEW r \in rows
    PROVE  /\ r.node \in Gated(r.seed) /\ r.hop = Nearest(r.seed, r.node)
           /\ FirstOnWalk(r.seed, r.first, r.node, r.hop)
<1> DEFINE K == {k \in Hops \ {0} : <<r.node, TRUE>> \in WalkEnds(r.seed)[k]}
<1>1. /\ r.seed \in seeds /\ r.node \in Tables /\ r.hop \in Nat
      /\ SoundRow(r) /\ Complete(rows, r.seed) /\ OneRowEach(rows)
  BY DEF FollowsRule, Rows
<1>2. r.hop \in K /\ K \subseteq Nat
  BY <1>1, GateN DEF SoundRow, Hops
<1>3. ASSUME NEW k \in K PROVE r.hop <= k
  <2>1. HasRow(rows, r.seed, r.node, k)
    BY <1>1 DEF Complete
  <2>2. PICK t \in rows : t.seed = r.seed /\ t.node = r.node /\ t.hop <= k
    BY <2>1 DEF HasRow
  <2>3. t = r
    BY <2>2, <1>1 DEF OneRowEach
  <2> QED BY <2>2, <2>3
<1>4. Nearest(r.seed, r.node) = Min(K)
  BY DEF Nearest
<1> HIDE DEF K
<1>5. Min(K) = r.hop
  <2>1. Min(K) \in K /\ \A y \in K : Min(K) <= y
    BY <1>2, <1>3 DEF Min
  <2>2. Min(K) <= r.hop /\ r.hop <= Min(K) /\ Min(K) \in Nat /\ r.hop \in Nat
    BY <2>1, <1>2, <1>3
  <2> QED BY <2>2
<1>6. r.node \in Gated(r.seed)
  BY <1>1, <1>2 DEF Gated, K
<1> QED BY <1>1, <1>4, <1>5, <1>6 DEF SoundRow

LEMMA RowsAreAll ==
    ASSUME NEW rows, FollowsRule(rows), NEW s \in seeds, NEW c \in Gated(s)
    PROVE  \E r \in rows : r.seed = s /\ r.node = c
<1>1. PICK k \in Hops \ {0} : <<c, TRUE>> \in WalkEnds(s)[k]
  BY DEF Gated
<1>2. c \in Tables /\ Complete(rows, s)
  BY DEF Gated, FollowsRule
<1> QED BY <1>1, <1>2 DEF Complete, HasRow

(* The range file holds one row for each table behind the gate, with the   *)
(* hops of a shortest walk and a first DM table of one such walk, whatever *)
(* the tables, the arcs and the seeds: the queue of pairs, marked as they  *)
(* enter it, loses none of them.                                           *)
THEOREM RangeIsGatedAlways == GateSpec => []RangeIsGated
<1>1. GateType /\ RangeInvariant => RangeIsGated
  <2> SUFFICES ASSUME GateType, RangeInvariant, loop = "done"
               PROVE  /\ {<<r.seed, r.node>> : r \in range} = UNION {{s} \X Gated(s) : s \in seeds}
                      /\ \A r \in range : /\ r.hop = Nearest(r.seed, r.node)
                                          /\ FirstOnWalk(r.seed, r.first, r.node, r.hop)
                      /\ \A r, q \in range : <<r.seed, r.node>> = <<q.seed, q.node>> => r = q
    BY DEF RangeIsGated
  <2>1. FollowsRule(range)
    BY DEF GateType, RangeInvariant, RangeState, FollowsRule
  <2>2. \A r \in range : /\ r.seed \in seeds /\ r.node \in Gated(r.seed)
                         /\ r.hop = Nearest(r.seed, r.node)
                         /\ FirstOnWalk(r.seed, r.first, r.node, r.hop)
    BY <2>1, RowsAreGated DEF FollowsRule
  <2>3. \A s \in seeds : \A c \in Gated(s) : \E r \in range : r.seed = s /\ r.node = c
    BY <2>1, RowsAreAll
  <2>4. \A r, q \in range : <<r.seed, r.node>> = <<q.seed, q.node>> => r = q
    BY <2>1 DEF FollowsRule, OneRowEach
  <2>5. ASSUME NEW x \in {<<r.seed, r.node>> : r \in range}
        PROVE  x \in UNION {{s} \X Gated(s) : s \in seeds}
    <3>1. PICK r \in range : x = <<r.seed, r.node>>
      OBVIOUS
    <3>2. r.seed \in seeds /\ x \in {r.seed} \X Gated(r.seed)
      BY <3>1, <2>2
    <3> QED BY <3>2
  <2>6. ASSUME NEW x \in UNION {{s} \X Gated(s) : s \in seeds}
        PROVE  x \in {<<r.seed, r.node>> : r \in range}
    <3>1. PICK s \in seeds : x \in {s} \X Gated(s)
      OBVIOUS
    <3>2. PICK c \in Gated(s) : x = <<s, c>>
      BY <3>1
    <3>3. PICK r \in range : r.seed = s /\ r.node = c
      BY <2>3
    <3> QED BY <3>2, <3>3
  <2> QED BY <2>2, <2>4, <2>5, <2>6
<1> QED BY <1>1, GateInvariantHolds, PTL

(* The edges of a task are those its seeds reach: all of them, although    *)
(* the loop that selects them looks at a pair once, and no others.         *)
THEOREM OwnEdgesOnlyAlways == GateSpec => []OwnEdgesOnly
<1>1. GateType /\ AdapterInvariant => OwnEdgesOnly
  <2> SUFFICES ASSUME GateType, AdapterInvariant, loop = "done"
               PROVE  selected = {a \in arcs : \E s \in seeds, k \in Hops, d \in BOOLEAN :
                                    <<a[1], d>> \in WalkEnds(s)[k] /\ (k = 0 \/ Open(a[1]))}
    BY DEF OwnEdgesOnly
  <2>1. selected \subseteq arcs /\ \A a \in selected : OwnEdge(a)
    BY DEF GateType, AdapterInvariant, EdgesState
  <2>2. \A t \in seeds : Owned(t, selected)
    BY DEF AdapterInvariant, EdgesState
  <2>3. ASSUME NEW a \in arcs, NEW s \in seeds, NEW k \in Hops, NEW d \in BOOLEAN,
               <<a[1], d>> \in WalkEnds(s)[k], k = 0 \/ Open(a[1])
        PROVE  a \in selected
    <3>1. a[2] \in Tables /\ a = <<a[1], a[2]>>
      BY DEF GateType, WellGiven
    <3>2. <<a[1], d>> \in OpenEnds(s, k) /\ <<a[1], d>>[1] = a[1]
      BY <2>3 DEF OpenEnds
    <3> QED BY <3>1, <3>2, <2>2 DEF Owned
  <2> QED BY <2>1, <2>3 DEF OwnEdge
<1> QED BY <1>1, GateInvariantHolds, PTL

(* The records of the task's facts and the rows of the range file are the  *)
(* same, to the hop and the first DM table, whichever program answers: one *)
(* walks all edges, the other those selected, and they mark a pair at      *)
(* different moments.  Where several first DM tables are possible, both    *)
(* queues bring the one on the first trail in the order of the guids.      *)
THEOREM ScopeAgreesAlways == GateSpec => []ScopeAgreesWithRange
<1>1. ASSUME NEW a, NEW b, FollowsRule(a), FollowsRule(b), seeds \subseteq Tables
      PROVE  a \subseteq b
  <2> SUFFICES ASSUME NEW r \in a PROVE r \in b
    OBVIOUS
  <2>1. r.seed \in seeds /\ r.node \in Gated(r.seed) /\ r.hop = Nearest(r.seed, r.node)
    BY <1>1, RowsAreGated DEF FollowsRule
  <2>2. PICK t \in b : t.seed = r.seed /\ t.node = r.node
    BY <1>1, <2>1, RowsAreAll
  <2>3. t.hop = Nearest(t.seed, t.node)
    BY <1>1, RowsAreGated
  <2>4. t.hop = r.hop
    BY <2>1, <2>2, <2>3
  <2>5. FirstTrail(r) /\ FirstTrail(t) /\ r.hop \in Hops /\ r.seed \in Tables
    BY <1>1, <2>1 DEF FollowsRule, SoundRow
  <2>6. r.first = t.first
    BY <2>2, <2>4, <2>5, FirstTrailsAgree
  <2>7. r \in Rows /\ t \in Rows
    BY <1>1 DEF FollowsRule
  <2>8. r = t
    BY <2>2, <2>4, <2>6, <2>7 DEF Rows
  <2> QED BY <2>8
<1>2. GateType /\ RangeInvariant /\ AdapterInvariant => ScopeAgreesWithRange
  <2> SUFFICES ASSUME GateType, RangeInvariant, AdapterInvariant, loop = "done",
                      \A n \in Tables : kind[n] # "observedDm"
               PROVE  scope = range
    BY DEF ScopeAgreesWithRange
  <2>1. FollowsRule(range)
    BY DEF GateType, RangeInvariant, RangeState, FollowsRule
  <2>2. FollowsRule(scope)
    BY DEF GateType, AdapterInvariant, ScopeState, FollowsRule
  <2>3. seeds \subseteq Tables
    BY DEF GateType, Crawled
  <2> QED BY <2>1, <2>2, <2>3, <1>1
<1> QED BY <1>2, GateInvariantHolds, PTL
=============================================================================
