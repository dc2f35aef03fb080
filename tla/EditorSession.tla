--------------------------- MODULE EditorSession ---------------------------
(***************************************************************************)
(* An editor's session over one family of documents and one resolve-on-    *)
(* demand catalog: SqlDocument and CallbackSchema composed, the way        *)
(* schema-provider.ts says an editor drives them -- edit, analyze, and     *)
(* prime() on each publish.  The two meet in analyze(): it asks the        *)
(* catalog only where a memo misses, so the catalog hears of a table only  *)
(* while the memos' version is behind it.                                  *)
(*                                                                         *)
(* The host is external: it holds documents, analyzes, primes, and runs    *)
(* the fetch.  Its order of doing so is left open.                         *)
(***************************************************************************)
EXTENDS CallbackSchema, Sequences

CONSTANTS
    Texts, Reads, Docs,         \* as in SqlDocument
    CellCacheMax, MaxStatements, MaxCells,
    Catalog,        \* the CallbackSchema's identity
    OpenProvider,   \* OPEN_PROVIDER's: analyze() without a schema
    Declared        \* the tables that exist: what the host's fetch can warm

ASSUME SessionAssumption == Catalog # OpenProvider
ASSUME DocumentsAssumption ==       \* as in SqlDocument
    /\ Reads \in [Texts -> SUBSET Names]
    /\ CellCacheMax \in Nat \ {0}
    /\ IsFiniteSet(Docs) /\ MaxStatements \in Nat /\ MaxCells \in Nat
    /\ MaxCells >= CellCacheMax + (Cardinality(Docs) + 1) * MaxStatements

Schemas == {Catalog, OpenProvider}

VARIABLES
    parsed, cellMemo, cache, docs, latest,  \* SqlDocument's
    atBump          \* history: the host's cache when the version last moved

KnownNow(tables) == {n \in Names : Fold[n] \in tables}

Doc == INSTANCE SqlDocument
       WITH Lazy <- {Catalog},
            provVersion <- [s \in Schemas |-> IF s = Catalog THEN version ELSE 0],
            provKnown <- [s \in Schemas |-> IF s = Catalog THEN KnownNow(warm) ELSE {}],
            announced <- [s \in Schemas |-> IF s = Catalog THEN KnownNow(atBump) ELSE {}]

docState == <<parsed, cellMemo, cache, docs, latest>>
vars == <<catalogVars, docState, atBump>>

Init ==
    /\ CatalogInit
    /\ warm \subseteq Declared
    /\ atBump = warm
    /\ \E d \in Docs, ts \in Doc!Scripts : Doc!Create(d, ts)

-----------------------------------------------------------------------------
(* The editor's turns. *)

Edit(e, ts) ==
    /\ Doc!WithText(e, ts)
    /\ UNCHANGED <<catalogVars, atBump>>

(* analyze(catalog): the memos and, in the same turn, the lookups behind   *)
(* them.                                                                   *)
Analyze(d) ==
    /\ Doc!Analyze(d, Catalog)
    /\ ColumnsFor(Doc!LookedUp(d, Catalog))
    /\ UNCHANGED atBump

AnalyzeOpen(d) ==
    /\ Doc!Analyze(d, OpenProvider)
    /\ UNCHANGED <<catalogVars, atBump>>

(* Completion, references and lineage at a caret look names up without a   *)
(* memo.                                                                   *)
LookUp(n) ==
    /\ ColumnsFor({n})
    /\ UNCHANGED <<docState, atBump>>

PrimeCatalog == Prime /\ UNCHANGED <<docState, atBump>>

(* The host's turns.  fetch() warms only tables that exist, and returns    *)
(* normally when it has warmed all of those it was asked for.              *)

HostWarmsTable(t) ==
    /\ t \in Declared
    /\ HostWarms(t)
    /\ UNCHANGED <<docState, atBump>>

FetchReturns ==
    /\ pending \cap Declared \subseteq warm
    /\ Drain
    /\ atBump' = IF version' # version THEN warm ELSE atBump
    /\ UNCHANGED docState

FetchThrows == FetchRejects /\ UNCHANGED <<docState, atBump>>

ForgetPass == Forget /\ UNCHANGED <<docState, atBump>>

Next ==
    \/ \E e \in Docs, ts \in Doc!Scripts : Edit(e, ts)
    \/ \E d \in DOMAIN docs : Analyze(d)
    \/ \E d \in DOMAIN docs : AnalyzeOpen(d)
    \/ \E n \in Names : LookUp(n)
    \/ PrimeCatalog
    \/ \E t \in Tables : HostWarmsTable(t)
    \/ FetchReturns
    \/ FetchThrows
    \/ ForgetPass

Spec == Init /\ [][Next]_vars

(* A live editor analyzes what it shows and primes when there is something *)
(* recorded; a live host's fetch does not fail for ever.  Nobody is        *)
(* obliged to edit, or to look a name up.                                  *)
EditorFairness ==
    /\ \A d \in Docs : WF_vars(d \in DOMAIN docs /\ Analyze(d))
    /\ WF_vars(PrimeCatalog)
    /\ WF_vars(ForgetPass)
HostFairness ==
    /\ \A t \in Tables : SF_vars(HostWarmsTable(t))
    /\ SF_vars(FetchReturns)

LiveSpec == Spec /\ EditorFairness /\ HostFairness

-----------------------------------------------------------------------------
(* What the editor shows as an unknown table and the host's cache resolves *)
(* is on its way to being corrected: the table is on the miss list, so a   *)
(* pass will find it and bump the version, whatever edits, second          *)
(* documents, evictions and failing fetches came between the answer and    *)
(* now.  No diagnostic is wrong for good behind two levels of memo.        *)
ShownUnknownIsQueued ==
    \A d \in DOMAIN docs :
        \A answer \in Doc!MemoHit(docs[d].memo, Catalog), n \in Names :
            n \in answer.unknown /\ Fold[n] \in warm => Fold[n] \in misses

(* The same of the answers carried on cells, also those no document shows  *)
(* now: an edit may bring them back.                                       *)
CarriedUnknownIsQueued ==
    \A c \in Doc!Cells :
        \A answer \in Doc!MemoHit(cellMemo[c], Catalog), n \in Names :
            n \in answer.unknown /\ Fold[n] \in warm => Fold[n] \in misses

(* What analyze() answers through both memos is what the catalog resolved  *)
(* at some moment since its last bump.                                     *)
AnswersAreRecent == Doc!AnswersSinceLastBump

ReadBy(d) == UNION {Reads[docs[d].texts[i]] : i \in DOMAIN docs[d].texts}

(* Once the host's cache holds a table, every document that reads it comes *)
(* to show it as known, unless it is edited not to read it.                *)
WarmTablesGetShown ==
    \A d \in Docs, n \in Names :
        (d \in DOMAIN docs /\ n \in ReadBy(d) /\ Fold[n] \in warm)
          ~> \/ d \notin DOMAIN docs
             \/ n \notin ReadBy(d)
             \/ /\ Doc!MemoHit(docs[d].memo, Catalog) # {}
                /\ \A answer \in Doc!MemoHit(docs[d].memo, Catalog) : n \notin answer.unknown

(* A miss that is on the list while no pass is in flight is served: the    *)
(* table, if it exists, gets into the host's cache.                        *)
ListedMissesAreServed ==
    \A t \in Declared : (pass = Idle /\ t \in misses) ~> t \in warm

(* What the note on the truncation in drain() says of a miss recorded      *)
(* while a fetch was running: the next analyze() records it again and the  *)
(* next prime() warms it.  So, editing having stopped, an existing table   *)
(* that a document reads gets into the host's cache.                       *)
EditingStops == <>[][\A d \in DOMAIN docs : docs'[d].cells = docs[d].cells]_docs

DroppedMissesComeBack ==
    EditingStops =>
      \A d \in Docs, n \in Names :
        (d \in DOMAIN docs /\ n \in ReadBy(d) /\ Fold[n] \in Declared)
          ~> \/ Fold[n] \in warm
             \/ d \notin DOMAIN docs
             \/ n \notin ReadBy(d)
=============================================================================
