------------------------ MODULE EditorSessionProofs ------------------------
(***************************************************************************)
(* What holds of the catalog, and of an editor's session over it, for      *)
(* every set of statements, names, tables and documents, every fold, cache *)
(* size and number of edits.                                               *)
(*                                                                         *)
(* The catalog's inductive invariant is the conjunction of the facts the   *)
(* runs check one by one: that no stale answer is left behind needs the    *)
(* account of what the host may warm, and that needs the guard of          *)
(* recordMiss() to agree with the list.                                    *)
(*                                                                         *)
(* The session invariant links the documents' memos to the catalog's       *)
(* promise: whatever a current memo shows as unknown was told to it since  *)
(* the version last moved.  With the catalog's own invariant -- what was   *)
(* told and has become stale is queued -- it gives ShownUnknownIsQueued.   *)
(* Which cells an edit reuses does not matter to it: an edit only keeps or *)
(* clears memos, so nothing has to be known of buildCell().                *)
(*                                                                         *)
(* The session's documents take the steps of SqlDocument, so what          *)
(* SqlDocumentProofs shows of them holds here; the last section carries it *)
(* over.                                                                   *)
(***************************************************************************)
EXTENDS EditorSession, TLAPS, FiniteSetTheorems

-----------------------------------------------------------------------------
(* The catalog. *)

CatalogInvariant ==
    /\ CatalogTypeOK
    /\ GuardMatchesList
    /\ PassCoversWarming
    /\ StaleAnswersAreQueued

(* The names of a pass's states are distinct: the pass is in one of them. *)
LEMMA PassStatesDiffer ==
    /\ Idle # Fetching
    /\ Fetching \notin Settled
    /\ Idle \notin Settled
  BY DEF Idle, Fetching, Settled, Found, Nothing, Rejected

(* Folding sends names to catalog keys: what columnsFor() looks up is a    *)
(* set of tables.                                                          *)
LEMMA FoldedAreTables ==
    ASSUME NEW ns \in SUBSET Names
    PROVE  Folded(ns) \subseteq Tables
  BY FoldAssumption DEF Folded

(* A fresh catalog has recorded nothing and told nobody anything. *)
LEMMA CatalogInvariantInit == CatalogInit => CatalogInvariant
  BY PassStatesDiffer
  DEF CatalogInit, CatalogInvariant, CatalogTypeOK, GuardMatchesList,
      PassCoversWarming, StaleAnswersAreQueued

(* Every step of the catalog and its host keeps the invariant.  Stated for *)
(* the actions on their own, so that a module that composes the catalog    *)
(* with its callers can cite it.                                           *)
LEMMA CatalogInvariantStep ==
    ASSUME CatalogInvariant, [CatalogNext]_catalogVars
    PROVE  CatalogInvariant'
<1> USE DEF CatalogInvariant, GuardMatchesList, PassCoversWarming,
            StaleAnswersAreQueued
<1>1. ASSUME NEW ns \in SUBSET Names, ColumnsFor(ns)
      PROVE  CatalogInvariant'
  <2>1. Folded(ns) \subseteq Tables
    BY FoldedAreTables
  <2>2. CatalogTypeOK'
    BY <1>1, <2>1 DEF ColumnsFor, CatalogTypeOK, Unknown
  <2>3. misses' = misses \cup (Folded(ns) \ warm) /\ missSeen' = misses'
    BY <1>1 DEF ColumnsFor, Unknown
  <2>4. PassCoversWarming'
    BY <1>1, <2>3 DEF ColumnsFor
  <2>5. StaleAnswersAreQueued'
    BY <1>1, <2>3 DEF ColumnsFor, Unknown
  <2> QED BY <2>2, <2>3, <2>4, <2>5
<1>2. ASSUME Prime
      PROVE  CatalogInvariant'
  BY <1>2 DEF Prime, CatalogTypeOK, Idle, Fetching
<1>3. ASSUME NEW t \in Tables, HostWarms(t)
      PROVE  CatalogInvariant'
  <2>1. CatalogTypeOK'
    BY <1>3 DEF HostWarms, CatalogTypeOK
  <2>2. t \in pending /\ pending \subseteq misses /\ warm' = warm \cup {t}
    BY <1>3 DEF HostWarms
  <2>3. PassCoversWarming' /\ StaleAnswersAreQueued' /\ GuardMatchesList'
    BY <1>3, <2>2 DEF HostWarms
  <2> QED BY <2>1, <2>3
<1>4. ASSUME Drain
      PROVE  CatalogInvariant'
  <2>1. CatalogTypeOK'
    BY <1>4 DEF Drain, CatalogTypeOK, StillMissing, NowFound, SeenAfter,
                BumpOnNews, Settled, Found, Nothing
  <2>2. GuardMatchesList'
    BY <1>4 DEF Drain, SeenAfter
  <2>3. PassCoversWarming'
    BY <1>4 DEF Drain, Found, Nothing, Fetching
  <2>4. StaleAnswersAreQueued'
    <3>1. CASE NowFound # {}
      <4>1. version' # version
        BY <1>4, <3>1 DEF Drain, BumpOnNews, CatalogTypeOK
      <4> QED BY <1>4, <4>1 DEF Drain
    <3>2. CASE NowFound = {}
      (* No pending table is warm, so by PassCoversWarming no miss is:     *)
      (* what told \cap warm holds was empty before the truncation.        *)
      <4>1. told' = told /\ warm' = warm
        BY <1>4, <3>2 DEF Drain, BumpOnNews
      <4>2. misses \cap warm = {}
        BY <1>4, <3>2 DEF Drain, NowFound
      <4> QED BY <4>1, <4>2
    <3> QED BY <3>1, <3>2
  <2> QED BY <2>1, <2>2, <2>3, <2>4
<1>5. ASSUME FetchRejects
      PROVE  CatalogInvariant'
  BY <1>5 DEF FetchRejects, CatalogTypeOK, Fetching, Settled, Rejected
<1>6. ASSUME Forget
      PROVE  CatalogInvariant'
  BY <1>6 DEF Forget, CatalogTypeOK, Fetching, Idle
<1>7. ASSUME UNCHANGED catalogVars
      PROVE  CatalogInvariant'
  BY <1>7 DEF catalogVars, CatalogTypeOK, StillMissing
<1> QED
  BY <1>1, <1>2, <1>3, <1>4, <1>5, <1>6, <1>7 DEF CatalogNext

(* The inductive invariant holds in every reachable state. *)
THEOREM CatalogInvariantHolds == CatalogSpec => []CatalogInvariant
<1>1. CatalogInvariant /\ [CatalogNext]_catalogVars => CatalogInvariant'
  BY CatalogInvariantStep
<1> QED BY CatalogInvariantInit, <1>1, PTL DEF CatalogSpec

(* The catalog's state keeps its types. *)
THEOREM CatalogTypeCorrect == CatalogSpec => []CatalogTypeOK
<1>1. CatalogInvariant => CatalogTypeOK
  BY DEF CatalogInvariant
<1> QED BY CatalogInvariantHolds, <1>1, PTL

(* No answer goes stale behind a version that will never move: whatever    *)
(* a caller was told is unknown and the host's cache now resolves is still *)
(* on the miss list.                                                       *)
THEOREM NoStaleAnswerIsForgotten == CatalogSpec => []StaleAnswersAreQueued
<1>1. CatalogInvariant => StaleAnswersAreQueued
  BY DEF CatalogInvariant
<1> QED BY CatalogInvariantHolds, <1>1, PTL

(* recordMiss()'s guard and the list it guards always agree. *)
THEOREM RecordGuardIsExact == CatalogSpec => []GuardMatchesList
<1>1. CatalogInvariant => GuardMatchesList
  BY DEF CatalogInvariant
<1> QED BY CatalogInvariantHolds, <1>1, PTL

(* The version moves by one and only when a pass finds a table that had    *)
(* been missing.                                                           *)
THEOREM NoSpuriousInvalidation == CatalogSpec => VersionMovesOnlyOnNews
<1>1. ASSUME CatalogInvariant, [CatalogNext]_catalogVars
      PROVE  [version' # version =>
                /\ version' = version + 1
                /\ pass = Fetching /\ pass' = Found
                /\ \E t \in misses : t \in warm /\ t \notin misses']_catalogVars
  <2>1. ASSUME Drain, version' # version
        PROVE  /\ version' = version + 1
               /\ pass = Fetching /\ pass' = Found
               /\ \E t \in misses : t \in warm /\ t \notin misses'
    <3>1. NowFound # {} /\ version' = version + 1
      BY <2>1 DEF Drain, BumpOnNews
    <3>2. PICK t \in pending : t \in warm
      BY <3>1 DEF NowFound
    <3>3. t \in misses
      BY <1>1, <2>1, <3>2 DEF Drain, CatalogInvariant, PassCoversWarming
    <3>4. t \notin misses'
      BY <2>1, <3>2 DEF Drain, StillMissing
    <3> QED BY <2>1, <3>1, <3>2, <3>3, <3>4 DEF Drain
  <2>2. ASSUME version' # version
        PROVE  Drain
    BY <1>1, <2>2
    DEF CatalogNext, ColumnsFor, Prime, HostWarms, FetchRejects, Forget, catalogVars
  <2> QED BY <2>1, <2>2
<1> QED BY CatalogInvariantHolds, <1>1, PTL DEF CatalogSpec, VersionMovesOnlyOnNews

(* A step that moves the version takes a warm table off the list, and no   *)
(* step puts one on it.                                                    *)
LEMMA FindsAreCounted ==
    ASSUME CatalogInvariant, InvalidationsAreFinds, [CatalogNext]_catalogVars
    PROVE  InvalidationsAreFinds'
<1>1. version \in Nat /\ IsFiniteSet(warm) /\ pending \subseteq Tables
  BY TablesAssumption, FS_Subset DEF CatalogInvariant, CatalogTypeOK
<1>2. IsFiniteSet(warm \ misses) /\ Cardinality(warm \ misses) \in Nat
  BY <1>1, FS_Subset, FS_CardinalityType
<1>3. ASSUME version' = version, warm' \ misses' = warm \ misses
      PROVE  InvalidationsAreFinds'
  BY <1>3 DEF InvalidationsAreFinds
<1>4. ASSUME NEW ns \in SUBSET Names, ColumnsFor(ns)
      PROVE  InvalidationsAreFinds'
  <2>1. misses \subseteq misses' /\ misses' \cap warm \subseteq misses
    BY <1>4 DEF ColumnsFor, Unknown
  <2> QED BY <1>3, <1>4, <2>1 DEF ColumnsFor
<1>5. ASSUME NEW t \in Tables, HostWarms(t)
      PROVE  InvalidationsAreFinds'
  <2>1. t \in misses
    BY <1>5 DEF HostWarms, CatalogInvariant, PassCoversWarming
  <2> QED BY <1>3, <1>5, <2>1 DEF HostWarms
<1>6. ASSUME Drain
      PROVE  InvalidationsAreFinds'
  <2>1. misses' = pending \ warm /\ warm' = warm
    BY <1>6 DEF Drain, StillMissing
  <2>2. pending \subseteq misses
    BY <1>6 DEF Drain, CatalogInvariant, PassCoversWarming
  <2>3. warm' \ misses' = warm
    BY <2>1
  <2>4. Cardinality(warm \ misses) <= Cardinality(warm) /\ Cardinality(warm) \in Nat
    BY <1>1, FS_Subset, FS_CardinalityType
  <2>5. CASE NowFound = {}
    BY <1>1, <1>2, <1>6, <2>3, <2>4, <2>5 DEF Drain, BumpOnNews, InvalidationsAreFinds
  <2>6. CASE NowFound # {}
    <3>1. PICK t \in pending : t \in warm
      BY <2>6 DEF NowFound
    <3>2. t \notin warm \ misses /\ (warm \ misses) \cup {t} \subseteq warm
      BY <2>2, <3>1
    <3>3. Cardinality((warm \ misses) \cup {t}) = Cardinality(warm \ misses) + 1
      BY <1>2, <3>2, FS_AddElement
    <3>4. Cardinality((warm \ misses) \cup {t}) <= Cardinality(warm)
      BY <1>1, <3>2, FS_Subset
    <3>5. version' = version + 1
      BY <1>6, <2>6 DEF Drain, BumpOnNews
    <3> QED BY <1>1, <1>2, <2>3, <2>4, <3>3, <3>4, <3>5 DEF InvalidationsAreFinds
  <2> QED BY <2>5, <2>6
<1>7. CASE Prime \/ FetchRejects \/ Forget \/ UNCHANGED catalogVars
  BY <1>3, <1>7 DEF Prime, FetchRejects, Forget, catalogVars
<1> QED BY <1>4, <1>5, <1>6, <1>7 DEF CatalogNext

-----------------------------------------------------------------------------
(* The session. *)

(* Every turn of the session is, for the catalog, one of its own.          *)
LEMMA SessionMovesCatalog ==
    ASSUME [Next]_vars
    PROVE  [CatalogNext]_catalogVars
<1>1. ASSUME NEW d \in DOMAIN docs, Analyze(d)
      PROVE  CatalogNext
  BY <1>1 DEF Analyze, CatalogNext, Doc!LookedUp
<1>2. ASSUME NEW n \in Names, LookUp(n)
      PROVE  CatalogNext
  BY <1>2 DEF LookUp, CatalogNext
<1> QED
  BY <1>1, <1>2
  DEF Next, vars, Edit, AnalyzeOpen, PrimeCatalog, HostWarmsTable,
      FetchReturns, FetchThrows, ForgetPass, CatalogNext

(* A memo shows nothing unknown, under the current version, that the       *)
(* catalog did not tell; and no stamp is ahead of the version, so a bump   *)
(* puts every memo out of date at once.                                    *)
MemoIsTold(memo) ==
    Catalog \in DOMAIN memo =>
        /\ memo[Catalog].version \in Nat
        /\ memo[Catalog].version <= version
        /\ memo[Catalog].version = version =>
             \A n \in Names : n \in memo[Catalog].unknown => Fold[n] \in told

SessionInvariant ==
    /\ CatalogInvariant
    /\ \A c \in Doc!Cells : MemoIsTold(cellMemo[c])
    /\ \A d \in DOMAIN docs :
         /\ MemoIsTold(docs[d].memo)
         /\ docs[d] = [texts |-> docs[d].texts, cells |-> docs[d].cells,
                       memo |-> docs[d].memo]

(* A hit for the catalog is the answer stored under it, stamped with its   *)
(* version.                                                                *)
LEMMA CatalogHit ==
    ASSUME NEW memo
    PROVE  Doc!MemoHit(memo, Catalog) =
             IF Catalog \in DOMAIN memo /\ memo[Catalog].version = version
             THEN {memo[Catalog]} ELSE {}
  BY SessionAssumption DEF Doc!MemoHit, Schemas

(* What is stored under OpenProvider leaves the catalog's entry as it was. *)
LEMMA PutElsewhere ==
    ASSUME NEW memo, NEW answer
    PROVE  /\ Catalog \in DOMAIN Doc!Put(memo, OpenProvider, answer)
                <=> Catalog \in DOMAIN memo
           /\ Catalog \in DOMAIN memo =>
                Doc!Put(memo, OpenProvider, answer)[Catalog] = memo[Catalog]
  BY SessionAssumption DEF Doc!Put

(* A step that moves the catalog alone and does not shrink what was told   *)
(* under the same version keeps every memo told.                           *)
LEMMA MemosSurviveCatalog ==
    ASSUME NEW memo, version \in Nat, MemoIsTold(memo),
           \/ version' = version /\ told \subseteq told'
           \/ version' = version + 1
    PROVE  /\ Catalog \in DOMAIN memo =>
                /\ memo[Catalog].version \in Nat
                /\ memo[Catalog].version <= version'
                /\ memo[Catalog].version = version' =>
                     \A n \in Names : n \in memo[Catalog].unknown => Fold[n] \in told'
  BY DEF MemoIsTold

(* What analyze() puts on a cell: an answer of the current version whose   *)
(* unknown names are told by the end of the same turn.                     *)
LEMMA AnalysisIsTold ==
    ASSUME SessionInvariant, NEW d \in DOMAIN docs, Analyze(d),
           NEW c \in Doc!Cells, c \in Doc!ToSet(docs[d].cells)
    PROVE  /\ Doc!CellAnalysis(c, Catalog).version = version
           /\ \A n \in Names : n \in Doc!CellAnalysis(c, Catalog).unknown
                                 => Fold[n] \in told'
<1>1. told' = told \cup (Folded(Doc!LookedUp(d, Catalog)) \ warm)
  BY DEF Analyze, ColumnsFor, Unknown
<1>2. CASE Doc!MemoHit(cellMemo[c], Catalog) # {}
  <2>1. /\ Catalog \in DOMAIN cellMemo[c]
        /\ cellMemo[c][Catalog].version = version
        /\ Doc!CellAnalysis(c, Catalog) = cellMemo[c][Catalog]
    BY <1>2, CatalogHit DEF Doc!CellAnalysis
  <2> QED BY <1>1, <2>1 DEF SessionInvariant, MemoIsTold
<1>3. CASE Doc!MemoHit(cellMemo[c], Catalog) = {}
  <2>1. Doc!CellAnalysis(c, Catalog) = Doc!Qualified(c, Catalog)
    BY <1>3 DEF Doc!CellAnalysis
  <2>2. /\ Doc!Qualified(c, Catalog).version = version
        /\ Doc!Qualified(c, Catalog).unknown = Reads[parsed[c]] \ KnownNow(warm)
    BY SessionAssumption DEF Doc!Qualified, Schemas
  <2>3. ASSUME NEW n \in Names, n \in Reads[parsed[c]], n \notin KnownNow(warm)
        PROVE  Fold[n] \in told'
    <3>1. n \in Doc!LookedUp(d, Catalog)
      BY <1>3, <2>3 DEF Doc!LookedUp
    <3>2. Fold[n] \notin warm
      BY <2>3 DEF KnownNow
    <3> QED BY <1>1, <3>1, <3>2 DEF Folded
  <2> QED BY <2>1, <2>2, <2>3
<1> QED BY <1>2, <1>3

(* The session starts with no memo at all. *)
LEMMA SessionInvariantInit == Init => SessionInvariant
<1> SUFFICES ASSUME Init PROVE SessionInvariant
  OBVIOUS
<1>1. CatalogInvariant
  BY CatalogInvariantInit DEF Init
<1>2. PICK d \in Docs, ts \in Doc!Scripts : Doc!Create(d, ts)
  BY DEF Init
<1>3. \A c \in Doc!Cells : MemoIsTold(cellMemo[c])
  BY <1>2 DEF Doc!Create, Doc!NoMemo, MemoIsTold
<1>4. \A e \in DOMAIN docs :
        /\ MemoIsTold(docs[e].memo)
        /\ docs[e] = [texts |-> docs[e].texts, cells |-> docs[e].cells,
                      memo |-> docs[e].memo]
  BY <1>2 DEF Doc!Create, Doc!NoMemo, MemoIsTold
<1> QED BY <1>1, <1>3, <1>4 DEF SessionInvariant

(* Every turn of the editor and of the host keeps the session invariant.   *)
LEMMA SessionInvariantStep ==
    ASSUME SessionInvariant, [Next]_vars
    PROVE  SessionInvariant'
<1>0. version \in Nat
  BY DEF SessionInvariant, CatalogInvariant, CatalogTypeOK
<1>a. CatalogInvariant'
  BY SessionMovesCatalog, CatalogInvariantStep DEF SessionInvariant
<1>b. ASSUME UNCHANGED docState,
             \/ version' = version /\ told \subseteq told'
             \/ version' = version + 1
      PROVE  SessionInvariant'
  (* The catalog moves and the documents do not. *)
  <2>1. \A c \in Doc!Cells : MemoIsTold(cellMemo[c])'
    BY <1>0, <1>b, MemosSurviveCatalog DEF SessionInvariant, MemoIsTold, docState
  <2>2. \A d \in DOMAIN docs' :
          /\ MemoIsTold(docs[d].memo)'
          /\ docs'[d] = [texts |-> docs'[d].texts, cells |-> docs'[d].cells,
                         memo |-> docs'[d].memo]
    BY <1>0, <1>b, MemosSurviveCatalog DEF SessionInvariant, MemoIsTold, docState
  <2> QED BY <1>a, <2>1, <2>2 DEF SessionInvariant
<1>1. ASSUME NEW e \in Docs, NEW ts \in Doc!Scripts, Edit(e, ts)
      PROVE  SessionInvariant'
  <2>1. version' = version /\ told' = told
    BY <1>1 DEF Edit, catalogVars
  <2>2. \A c \in Doc!Cells : cellMemo'[c] = cellMemo[c] \/ cellMemo'[c] = Doc!NoMemo
    BY <1>1 DEF Edit, Doc!WithText
  <2>3. \A c \in Doc!Cells : MemoIsTold(cellMemo[c])'
    BY <2>1, <2>2 DEF SessionInvariant, MemoIsTold, Doc!NoMemo
  <2>4. PICK cells : docs' = Doc!Put(docs, e, [texts |-> ts, cells |-> cells,
                                               memo |-> Doc!NoMemo])
    BY <1>1 DEF Edit, Doc!WithText
  <2>5. ASSUME NEW d \in DOMAIN docs'
        PROVE  /\ MemoIsTold(docs[d].memo)'
               /\ docs'[d] = [texts |-> docs'[d].texts, cells |-> docs'[d].cells,
                              memo |-> docs'[d].memo]
    <3>1. CASE d = e
      BY <2>1, <2>4, <3>1 DEF MemoIsTold, Doc!NoMemo, Doc!Put
    <3>2. CASE d # e
      <4>1. d \in DOMAIN docs /\ docs'[d] = docs[d]
        BY <2>4, <2>5, <3>2 DEF Doc!Put
      <4> QED BY <2>1, <4>1 DEF SessionInvariant, MemoIsTold
    <3> QED BY <3>1, <3>2
  <2> QED BY <1>a, <2>3, <2>5 DEF SessionInvariant
<1>2. ASSUME NEW d \in DOMAIN docs, Analyze(d)
      PROVE  SessionInvariant'
  <2>1. version' = version /\ told \subseteq told'
    BY <1>2 DEF Analyze, ColumnsFor
  <2>2. ASSUME NEW c \in Doc!Cells
        PROVE  MemoIsTold(cellMemo[c])'
    <3>1. CASE c \in Doc!ToSet(docs[d].cells)
      <4>1. cellMemo'[c] = Doc!Put(cellMemo[c], Catalog, Doc!CellAnalysis(c, Catalog))
        BY <1>2, <3>1 DEF Analyze, Doc!Analyze
      <4> QED BY <1>0, <1>2, <2>1, <3>1, <4>1, AnalysisIsTold DEF MemoIsTold, Doc!Put
    <3>2. CASE c \notin Doc!ToSet(docs[d].cells)
      <4>1. cellMemo'[c] = cellMemo[c]
        BY <1>2, <3>2 DEF Analyze, Doc!Analyze
      <4> QED BY <2>1, <4>1 DEF SessionInvariant, MemoIsTold
    <3> QED BY <3>1, <3>2
  <2>3. docs' = [docs EXCEPT ![d].memo = Doc!Put(@, Catalog, Doc!DocAnalysis(d, Catalog))]
    BY <1>2 DEF Analyze, Doc!Analyze
  <2>4. DOMAIN docs' = DOMAIN docs
    BY <2>3
  <2>5. docs'[d] = [texts |-> docs[d].texts, cells |-> docs[d].cells,
                    memo |-> Doc!Put(docs[d].memo, Catalog, Doc!DocAnalysis(d, Catalog))]
    BY <2>3 DEF SessionInvariant
  <2>6. /\ Doc!DocAnalysis(d, Catalog).version = version
        /\ \A n \in Names : n \in Doc!DocAnalysis(d, Catalog).unknown => Fold[n] \in told'
    <3>1. Doc!DocAnalysis(d, Catalog).version = version
      BY SessionAssumption DEF Doc!DocAnalysis, Schemas
    <3>2. ASSUME NEW n \in Names, n \in Doc!DocAnalysis(d, Catalog).unknown
          PROVE  Fold[n] \in told'
      <4>1. PICK c \in Doc!Cells : /\ c \in Doc!ToSet(docs[d].cells)
                                  /\ n \in Doc!CellAnalysis(c, Catalog).unknown
        BY <3>2 DEF Doc!DocAnalysis
      <4> QED BY <1>2, <4>1, AnalysisIsTold
    <3> QED BY <3>1, <3>2
  <2>7. ASSUME NEW e \in DOMAIN docs'
        PROVE  /\ MemoIsTold(docs[e].memo)'
               /\ docs'[e] = [texts |-> docs'[e].texts, cells |-> docs'[e].cells,
                              memo |-> docs'[e].memo]
    <3>1. CASE e = d
      BY <1>0, <2>1, <2>5, <2>6, <3>1 DEF MemoIsTold, Doc!Put
    <3>2. CASE e # d
      <4>1. e \in DOMAIN docs /\ docs'[e] = docs[e]
        BY <2>3, <2>4, <2>7, <3>2
      <4> QED BY <2>1, <4>1 DEF SessionInvariant, MemoIsTold
    <3> QED BY <3>1, <3>2
  <2> QED BY <1>a, <2>2, <2>7 DEF SessionInvariant
<1>3. ASSUME NEW d \in DOMAIN docs, AnalyzeOpen(d)
      PROVE  SessionInvariant'
  (* What is stored under OpenProvider leaves the catalog's answers alone. *)
  <2>1. version' = version /\ told' = told
    BY <1>3 DEF AnalyzeOpen, catalogVars
  <2>2. ASSUME NEW c \in Doc!Cells
        PROVE  MemoIsTold(cellMemo[c])'
    <3>1. CASE c \in Doc!ToSet(docs[d].cells)
      <4>1. cellMemo'[c] = Doc!Put(cellMemo[c], OpenProvider, Doc!CellAnalysis(c, OpenProvider))
        BY <1>3, <3>1 DEF AnalyzeOpen, Doc!Analyze
      <4> QED BY <2>1, <4>1, PutElsewhere DEF SessionInvariant, MemoIsTold
    <3>2. CASE c \notin Doc!ToSet(docs[d].cells)
      <4>1. cellMemo'[c] = cellMemo[c]
        BY <1>3, <3>2 DEF AnalyzeOpen, Doc!Analyze
      <4> QED BY <2>1, <4>1 DEF SessionInvariant, MemoIsTold
    <3> QED BY <3>1, <3>2
  <2>3. docs' = [docs EXCEPT ![d].memo =
                   Doc!Put(@, OpenProvider, Doc!DocAnalysis(d, OpenProvider))]
    BY <1>3 DEF AnalyzeOpen, Doc!Analyze
  <2>4. DOMAIN docs' = DOMAIN docs
    BY <2>3
  <2>5. docs'[d] = [texts |-> docs[d].texts, cells |-> docs[d].cells,
                    memo |-> Doc!Put(docs[d].memo, OpenProvider,
                                     Doc!DocAnalysis(d, OpenProvider))]
    BY <2>3 DEF SessionInvariant
  <2>6. ASSUME NEW e \in DOMAIN docs'
        PROVE  /\ MemoIsTold(docs[e].memo)'
               /\ docs'[e] = [texts |-> docs'[e].texts, cells |-> docs'[e].cells,
                              memo |-> docs'[e].memo]
    <3>1. CASE e = d
      <4>1. /\ docs'[e].memo = Doc!Put(docs[d].memo, OpenProvider,
                                        Doc!DocAnalysis(d, OpenProvider))
            /\ docs'[e] = [texts |-> docs'[e].texts, cells |-> docs'[e].cells,
                           memo |-> docs'[e].memo]
        BY <2>5, <3>1
      <4> QED BY <2>1, <4>1, PutElsewhere DEF SessionInvariant, MemoIsTold
    <3>2. CASE e # d
      <4>1. e \in DOMAIN docs /\ docs'[e] = docs[e]
        BY <2>3, <2>4, <2>6, <3>2
      <4> QED BY <2>1, <4>1 DEF SessionInvariant, MemoIsTold
    <3> QED BY <3>1, <3>2
  <2> QED BY <1>a, <2>2, <2>6 DEF SessionInvariant
<1>4. ASSUME NEW n \in Names, LookUp(n)
      PROVE  SessionInvariant'
  BY <1>b, <1>4 DEF LookUp, ColumnsFor
<1>5. ASSUME PrimeCatalog
      PROVE  SessionInvariant'
  BY <1>b, <1>5 DEF PrimeCatalog, Prime
<1>6. ASSUME NEW t \in Tables, HostWarmsTable(t)
      PROVE  SessionInvariant'
  BY <1>b, <1>6 DEF HostWarmsTable, HostWarms
<1>7. ASSUME FetchReturns
      PROVE  SessionInvariant'
  BY <1>b, <1>7 DEF FetchReturns, Drain, BumpOnNews
<1>8. ASSUME FetchThrows
      PROVE  SessionInvariant'
  BY <1>b, <1>8 DEF FetchThrows, FetchRejects
<1>9. ASSUME ForgetPass
      PROVE  SessionInvariant'
  BY <1>b, <1>9 DEF ForgetPass, Forget
<1>10. ASSUME UNCHANGED vars
       PROVE  SessionInvariant'
  BY <1>b, <1>10 DEF vars, docState, catalogVars
<1> QED
  BY <1>1, <1>2, <1>3, <1>4, <1>5, <1>6, <1>7, <1>8, <1>9, <1>10 DEF Next

(* The session invariant holds in every reachable state. *)
THEOREM SessionInvariantHolds == Spec => []SessionInvariant
<1>1. SessionInvariant /\ [Next]_vars => SessionInvariant'
  BY SessionInvariantStep
<1> QED BY SessionInvariantInit, <1>1, PTL DEF Spec

(* No unknown-table diagnostic that a document shows, or that a carried    *)
(* cell would bring back, outlives the table's arrival without a pass      *)
(* being due that corrects it.                                             *)
THEOREM NoWrongDiagnosticIsFinal ==
    Spec => [](ShownUnknownIsQueued /\ CarriedUnknownIsQueued)
<1>1. ASSUME SessionInvariant
      PROVE  ShownUnknownIsQueued /\ CarriedUnknownIsQueued
  <2>1. ASSUME NEW memo, MemoIsTold(memo),
               NEW answer \in Doc!MemoHit(memo, Catalog), NEW n \in Names,
               n \in answer.unknown, Fold[n] \in warm
        PROVE  Fold[n] \in misses
    <3>1. /\ Catalog \in DOMAIN memo
          /\ answer = memo[Catalog] /\ answer.version = version
      BY <2>1, CatalogHit
    <3>2. Fold[n] \in told
      BY <2>1, <3>1 DEF MemoIsTold
    <3> QED
      BY <1>1, <2>1, <3>2
      DEF SessionInvariant, CatalogInvariant, StaleAnswersAreQueued
  <2> QED
    BY <1>1, <2>1
    DEF SessionInvariant, ShownUnknownIsQueued, CarriedUnknownIsQueued
<1> QED BY SessionInvariantHolds, <1>1, PTL

(* The version moves at most once for each table the host has warmed and a *)
(* pass has found, however often the editor analyzes and primes.           *)
THEOREM InvalidationsAreBounded == Spec => []InvalidationsAreFinds
<1>1. Init => InvalidationsAreFinds
  <2> SUFFICES ASSUME Init PROVE InvalidationsAreFinds
    OBVIOUS
  <2>1. version = 0 /\ warm \subseteq Tables
    BY DEF Init, CatalogInit
  <2>2. Cardinality(warm \ misses) \in Nat
    BY <2>1, TablesAssumption, FS_Subset, FS_CardinalityType
  <2> QED BY <2>1, <2>2 DEF InvalidationsAreFinds
<1>2. SessionInvariant /\ InvalidationsAreFinds /\ [Next]_vars => InvalidationsAreFinds'
  BY SessionMovesCatalog, FindsAreCounted DEF SessionInvariant
<1> QED BY SessionInvariantHolds, <1>1, <1>2, PTL DEF Spec

(* The documents of the session take steps of SqlDocument over a provider  *)
(* that learns tables at any time: the session uses that module's actions, *)
(* and what the catalog does is a move of the provider or nothing.  It is  *)
(* what lets a theorem about SqlDocument be cited here.                    *)
LEMMA SessionIsOfDocuments == Spec => Doc!DocSpec
<1> DEFINE V == [s \in Schemas |-> IF s = Catalog THEN version ELSE 0]
           K == [s \in Schemas |-> IF s = Catalog THEN KnownNow(warm) ELSE {}]
           A == [s \in Schemas |-> IF s = Catalog THEN KnownNow(atBump) ELSE {}]
<1>1. Init => Doc!DocInit
  BY DEF Init, CatalogInit, Doc!DocInit, KnownNow, Schemas
<1>2. ASSUME SessionInvariant, [Next]_vars
      PROVE  [Doc!DocNext]_<<docState, <<V, K, A>>>>
  <2>0. version \in Nat
    BY <1>2 DEF SessionInvariant, CatalogInvariant, CatalogTypeOK
  <2>1. ASSUME NEW e \in Docs, NEW ts \in Doc!Scripts, Edit(e, ts)
        PROVE  Doc!DocNext
    BY <2>1 DEF Edit, Doc!DocNext, Doc!provVars, catalogVars, KnownNow
  <2>2. ASSUME NEW d \in DOMAIN docs, Analyze(d)
        PROVE  Doc!DocNext
    BY <2>2 DEF Analyze, ColumnsFor, Doc!DocNext, Doc!provVars, KnownNow, Schemas
  <2>3. ASSUME NEW d \in DOMAIN docs, AnalyzeOpen(d)
        PROVE  Doc!DocNext
    BY <2>3 DEF AnalyzeOpen, Doc!DocNext, Doc!provVars, catalogVars, KnownNow, Schemas
  <2>4. ASSUME UNCHANGED <<docState, version, warm, atBump>>
        PROVE  UNCHANGED <<docState, <<V, K, A>>>>
    BY <2>4 DEF KnownNow
  <2>5. ASSUME NEW t \in Tables, HostWarmsTable(t)
        PROVE  Doc!DocNext
    <3>1. /\ warm' = warm \cup {t} /\ version' = version
          /\ UNCHANGED <<docState, atBump>>
      BY <2>5 DEF HostWarmsTable, HostWarms
    <3>2. Doc!ProviderMoves(Catalog, KnownNow(warm'), FALSE)
      BY <3>1, SessionAssumption DEF Doc!ProviderMoves, KnownNow, Schemas
    <3>3. Catalog \in Schemas /\ KnownNow(warm') \in SUBSET Names
      BY DEF Schemas, KnownNow
    <3> QED BY <3>1, <3>2, <3>3 DEF Doc!DocNext, Doc!docVars, docState
  <2>6. ASSUME FetchReturns, version' # version
        PROVE  Doc!DocNext
    <3>1. /\ warm' = warm /\ version' = version + 1 /\ atBump' = warm
          /\ UNCHANGED docState
      BY <2>0, <2>6 DEF FetchReturns, Drain, BumpOnNews
    <3>2. Doc!ProviderMoves(Catalog, KnownNow(warm), TRUE)
      BY <2>0, <3>1, SessionAssumption DEF Doc!ProviderMoves, KnownNow, Schemas
    <3>3. Catalog \in Schemas /\ KnownNow(warm) \in SUBSET Names
      BY DEF Schemas, KnownNow
    <3> QED BY <3>1, <3>2, <3>3 DEF Doc!DocNext, Doc!docVars, docState
  <2>7. CASE FetchReturns /\ version' = version
    BY <2>4, <2>7 DEF FetchReturns, Drain
  <2>8. ASSUME \/ \E n \in Names : LookUp(n)
               \/ PrimeCatalog \/ FetchThrows \/ ForgetPass
               \/ UNCHANGED vars
        PROVE  UNCHANGED <<docState, <<V, K, A>>>>
    BY <2>4, <2>8 DEF LookUp, ColumnsFor, PrimeCatalog, Prime, FetchThrows, FetchRejects,
                      ForgetPass, Forget, vars, catalogVars
  <2> QED
    BY <1>2, <2>1, <2>2, <2>3, <2>5, <2>6, <2>7, <2>8 DEF Next
<1> QED
  BY <1>1, <1>2, SessionInvariantHolds, PTL
  DEF Spec, Doc!DocSpec, Doc!docVars, Doc!provVars, docState

-----------------------------------------------------------------------------
(* What is proved of the documents, of the session's. *)

Proved == INSTANCE SqlDocumentProofs
          WITH Lazy <- {Catalog},
               provVersion <- [s \in Schemas |-> IF s = Catalog THEN version ELSE 0],
               provKnown <- [s \in Schemas |-> IF s = Catalog THEN KnownNow(warm) ELSE {}],
               announced <- [s \in Schemas |-> IF s = Catalog THEN KnownNow(atBump) ELSE {}]

(* Doc and Proved are instances of one module with one substitution: their *)
(* definitions are the same, operator by operator.                         *)

LEMMA SameFiniteSets ==
    \A S : Proved!IsFiniteSet(S) = IsFiniteSet(S) /\ Proved!Cardinality(S) = Cardinality(S)
<1>1. \A S : Proved!IsFiniteSet(S) = IsFiniteSet(S)
  BY DEF IsFiniteSet, Proved!IsFiniteSet
<1>2. \A S : Proved!Cardinality(S) = Cardinality(S)
  BY DEF Cardinality, Proved!Cardinality
<1> QED BY <1>1, <1>2

LEMMA SameBuilds ==
    \A ts, lru, heap, live : Doc!Built(ts, lru, heap, live) = Proved!Built(ts, lru, heap, live)
<1>1. \A b, t : Doc!BuildCell(b, t) = Proved!BuildCell(b, t)
  BY
  DEF Doc!BuildCell, Proved!BuildCell, Doc!Hits, Proved!Hits, Doc!Touch,
      Proved!Touch, Doc!RemoveAt, Proved!RemoveAt, Doc!Insert,
      Proved!Insert, Doc!InsertFirst, Proved!InsertFirst, Doc!Reusable,
      Proved!Reusable, Doc!FreshCell, Proved!FreshCell, Doc!ToSet,
      Proved!ToSet, Doc!Cells, Proved!Cells
<1>2. \A ts, lru, heap, live : Doc!Builds(ts, lru, heap, live) = Proved!Builds(ts, lru, heap, live)
  BY <1>1 DEF Doc!Builds, Proved!Builds
<1> QED BY <1>2 DEF Doc!Built, Proved!Built

LEMMA SameScripts == Doc!Scripts = Proved!Scripts
  BY
  DEF Doc!Scripts, Proved!Scripts, Doc!BoundedSeq, Proved!BoundedSeq,
      Doc!SeqOf, Proved!SeqOf

LEMMA SameEdits == \A e, ts : Doc!WithText(e, ts) = Proved!WithText(e, ts)
<1> SUFFICES ASSUME NEW e, NEW ts PROVE Doc!WithText(e, ts) = Proved!WithText(e, ts)
  OBVIOUS
<1>1. Doc!Live = Proved!Live
  BY DEF Doc!Live, Proved!Live, Doc!ToSet, Proved!ToSet
<1>2. Doc!Built(ts, cache, parsed, Doc!Live) = Proved!Built(ts, cache, parsed, Proved!Live)
  BY <1>1, SameBuilds
<1> QED
  BY <1>2
  DEF Doc!WithText, Proved!WithText, Doc!ToSet, Proved!ToSet, Doc!Cells,
      Proved!Cells, Doc!Blank, Proved!Blank, Doc!NoMemo, Proved!NoMemo,
      Doc!Put, Proved!Put

LEMMA SameDocuments == Doc!DocSpec => Proved!DocSpec
<1>1. Doc!DocInit <=> Proved!DocInit
  <2>1. \A d, ts : Doc!Create(d, ts) = Proved!Create(d, ts)
    BY SameBuilds
    DEF Doc!Create, Proved!Create, Doc!Cells, Proved!Cells, Doc!Blank,
        Proved!Blank, Doc!NoMemo, Proved!NoMemo
  <2> QED BY <2>1, SameScripts DEF Doc!DocInit, Proved!DocInit
<1>2. Doc!DocNext <=> Proved!DocNext
  <2>1. \A d, s : Doc!Analyze(d, s) = Proved!Analyze(d, s)
    BY
    DEF Doc!Analyze, Proved!Analyze, Doc!MemoHit, Proved!MemoHit, Doc!Cells,
        Proved!Cells, Doc!ToSet, Proved!ToSet, Doc!Put, Proved!Put,
        Doc!CellAnalysis, Proved!CellAnalysis, Doc!DocAnalysis,
        Proved!DocAnalysis, Doc!Qualified, Proved!Qualified
  <2>2. \A s, known, bump :
          Doc!ProviderMoves(s, known, bump) = Proved!ProviderMoves(s, known, bump)
    BY DEF Doc!ProviderMoves, Proved!ProviderMoves
  <2> QED
    BY <2>1, <2>2, SameScripts, SameEdits
    DEF Doc!DocNext, Proved!DocNext, Doc!docVars, Proved!docVars,
        Doc!provVars, Proved!provVars
<1> QED
  BY <1>1, <1>2, PTL
  DEF Doc!DocSpec, Proved!DocSpec, Doc!docVars, Proved!docVars,
      Doc!provVars, Proved!provVars

(* What analyze() answers through both memos is what the catalog resolved  *)
(* at some moment since its last bump.                                     *)
THEOREM AnswersAreRecentAlways == Spec => []AnswersAreRecent
<1>1. Proved!DocSpec => []Proved!AnswersSinceLastBump
  <2>1. Catalog \in Schemas
    BY DEF Schemas
  <2> QED BY <2>1, DocumentsAssumption, SameFiniteSets, Proved!AnswersStayRecent
<1>2. Proved!AnswersSinceLastBump <=> AnswersAreRecent
  BY
  DEF AnswersAreRecent, Doc!AnswersSinceLastBump, Proved!AnswersSinceLastBump, Doc!MemoHit,
      Proved!MemoHit, Doc!DocAnalysis, Proved!DocAnalysis, Doc!CellAnalysis,
      Proved!CellAnalysis, Doc!Qualified, Proved!Qualified, Doc!ToSet,
      Proved!ToSet, Doc!Cells, Proved!Cells
<1>3. Spec => Proved!DocSpec
  BY SessionIsOfDocuments, SameDocuments
<1> QED BY <1>1, <1>2, <1>3, PTL
=============================================================================
