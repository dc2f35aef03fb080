---------------------------- MODULE SqlDocument ----------------------------
(***************************************************************************)
(* The immutable document of sql-static-lineage (src/document/document.ts):*)
(* a text split into statement cells, each parsed on its own; a            *)
(* content-addressed LRU cache of parsed cells carried from a document to  *)
(* the documents edited from it; and analyses memoized per schema identity *)
(* and version, on each parsed cell and on the document.                   *)
(*                                                                         *)
(* Every operation runs in one synchronous turn.  What makes the document  *)
(* hard is that CachedCell objects are shared by identity -- between a     *)
(* document and its edits, and by two live documents of a family -- while  *)
(* the semantic passes walk them by identity and memos are written on      *)
(* them.  So a CachedCell is a name here, and the heap is a variable.      *)
(*                                                                         *)
(* The schema provider is a parameter: any provider may learn tables and   *)
(* may bump its version (EditorSession substitutes CallbackSchema).  Texts *)
(* stand for exact source slices, and Reads for the names a statement      *)
(* looks up; coordinate shifts and T-SQL variable linking are left out.    *)
(***************************************************************************)
EXTENDS Naturals, Sequences, FiniteSets, SequencesExt

CONSTANTS
    Texts,          \* exact source slices of statements
    Names,          \* table names as written
    Reads,          \* the names the analysis of a statement looks up
    Schemas,        \* SchemaProvider identities
    Lazy,           \* those whose answers change
    Docs,           \* slots for the SqlDocument values a host holds on to
    CellCacheMax,   \* CELL_CACHE_MAX
    MaxStatements,  \* bound: statements of one document
    MaxCells        \* bound: CachedCell objects alive or in the cache

ASSUME DocumentAssumptions ==
    /\ Reads \in [Texts -> SUBSET Names]
    /\ Lazy \subseteq Schemas
    /\ CellCacheMax \in Nat \ {0}
    /\ IsFiniteSet(Docs) /\ MaxStatements \in Nat /\ MaxCells \in Nat
    /\ MaxCells >= CellCacheMax + (Cardinality(Docs) + 1) * MaxStatements

Cells == 1..MaxCells
Blank == CHOOSE t \in Texts : TRUE     \* what an unused name carries

VARIABLES
    parsed,         \* CachedCell -> its text
    cellMemo,       \* CachedCell.analysis: a WeakMap from schema to answer
    cache,          \* CellCache.map, least recently used first
    docs,           \* the live documents
    latest,         \* history: the slot of the document built last
    provVersion,    \* SchemaProvider.version
    provKnown,      \* the names columnsFor() answers now
    announced       \* history: those it answered when its version last moved

docVars == <<parsed, cellMemo, cache, docs, latest>>
provVars == <<provVersion, provKnown, announced>>

NoMemo == [s \in {} |-> 0]
Put(memo, s, answer) ==
    [r \in DOMAIN memo \cup {s} |-> IF r = s THEN answer ELSE memo[r]]

-----------------------------------------------------------------------------
(* CellCache: Map keeps insertion order, and get() reinserts what it finds.*)

Hits(lru, heap, t) == {i \in DOMAIN lru : heap[lru[i]] = t}    \* places in lru

TouchNot(lru, i) == lru                         \* mutant: get() does not touch
Touch(lru, i) == Append(RemoveAt(lru, i), lru[i])

Insert(lru, c) ==
    IF Len(lru) < CellCacheMax THEN Append(lru, c) ELSE Tail(Append(lru, c))

ReuseAny(found, handedOut) == found             \* mutant: no intra-document dedupe
Reusable(found, handedOut) == found \ handedOut

InsertFirst(lru, hits, c) == IF hits = {} THEN Insert(lru, c) ELSE lru

(* buildCell() for the next statement, in the constructor's loop. *)
FreshCell(used) == CHOOSE c \in Cells \ used : \A o \in Cells \ used : c <= o

BuildCell(b, t) ==
    LET hits == Hits(b.cache, b.parsed, t)
        lru == IF hits = {} THEN b.cache ELSE Touch(b.cache, CHOOSE i \in hits : TRUE)
        reusable == Reusable({b.cache[i] : i \in hits}, ToSet(b.cells))
    IN  IF reusable # {}
        THEN [b EXCEPT !.cache = lru,
                       !.cells = Append(@, CHOOSE c \in reusable : TRUE)]
        ELSE LET c == FreshCell(b.live \cup ToSet(b.cells) \cup ToSet(lru))
             IN  [b EXCEPT !.cache = InsertFirst(lru, hits, c),
                           !.parsed = [@ EXCEPT ![c] = t],
                           !.cells = Append(@, c),
                           !.fresh = @ \cup {c}]

Live == UNION {ToSet(docs[d].cells) : d \in DOMAIN docs}

(* The constructor's loop over the statements, against the cache lru and   *)
(* the heap; live are the cells that documents hold.                       *)
Builds(ts, lru, heap, live) ==
    LET after[i \in 0..Len(ts)] ==
          IF i = 0
          THEN [cache |-> lru, parsed |-> heap, cells |-> <<>>, fresh |-> {}, live |-> live]
          ELSE BuildCell(after[i - 1], ts[i])
    IN  after

Built(ts, lru, heap, live) == Builds(ts, lru, heap, live)[Len(ts)]

(* withText(): the document built from ts over the carried cache replaces  *)
(* whatever slot e held; its parent is untouched.  A CachedCell that no    *)
(* document and no cache entry holds any more is garbage: its name is      *)
(* blank until buildCell() takes it again.                                 *)
WithText(e, ts) ==
    LET built == Built(ts, cache, parsed, Live)
        held == ToSet(built.cache) \cup ToSet(built.cells)
                  \cup UNION {ToSet(docs[d].cells) : d \in DOMAIN docs \ {e}}
    IN  /\ parsed' = [c \in Cells |-> IF c \in held THEN built.parsed[c] ELSE Blank]
        /\ cache' = built.cache
        /\ cellMemo' = [c \in Cells |-> IF c \in held \ built.fresh THEN cellMemo[c] ELSE NoMemo]
        /\ docs' = Put(docs, e, [texts |-> ts, cells |-> built.cells, memo |-> NoMemo])
        /\ latest' = e

-----------------------------------------------------------------------------
(* memoByVersion(): the answer held for this schema's identity, provided   *)
(* it is stamped with the version the schema has now.                      *)

MemoHitAnyVersion(memo, s) ==       \* mutant: identity alone
    {memo[r] : r \in DOMAIN memo \cap {s}}
MemoHit(memo, s) ==
    {memo[r] : r \in {q \in DOMAIN memo \cap {s} : memo[q].version = provVersion[s]}}

(* cellAnalysis(): the names that resolved, and those diagnosed as unknown *)
(* tables.                                                                 *)
QualifiedUnstamped(c, s) ==     \* mutant: the answer is kept without its version
    [known |-> Reads[parsed[c]] \cap provKnown[s],
     unknown |-> Reads[parsed[c]] \ provKnown[s]]
Qualified(c, s) ==
    [version |-> provVersion[s],
     known |-> Reads[parsed[c]] \cap provKnown[s],
     unknown |-> Reads[parsed[c]] \ provKnown[s]]

CellAnalysis(c, s) ==
    IF MemoHit(cellMemo[c], s) # {}
    THEN CHOOSE hit \in MemoHit(cellMemo[c], s) : TRUE
    ELSE Qualified(c, s)

(* buildAnalysis(): the cells' answers, in statement order, and all their  *)
(* diagnostics.                                                            *)
DocAnalysis(d, s) ==
    [version |-> provVersion[s],
     known |-> [i \in DOMAIN docs[d].cells |-> CellAnalysis(docs[d].cells[i], s).known],
     unknown |-> {n \in Names : \E c \in Cells : c \in ToSet(docs[d].cells)
                                                /\ n \in CellAnalysis(c, s).unknown}]

(* The names columnsFor() is asked for while document d is analysed.  *)
LookedUp(d, s) ==
    {n \in Names : \E c \in ToSet(docs[d].cells) :
        MemoHit(cellMemo[c], s) = {} /\ n \in Reads[parsed[c]]}

AnalyzeDocOnly(d, s) ==     \* mutant: an answer is kept on the document alone
    /\ MemoHit(docs[d].memo, s) = {}
    /\ docs' = [docs EXCEPT ![d].memo = Put(@, s, DocAnalysis(d, s))]
    /\ UNCHANGED <<cellMemo, parsed, cache, latest>>

(* analyze() when the document's own memo misses; when it hits, nothing    *)
(* changes.                                                                *)
Analyze(d, s) ==
    /\ MemoHit(docs[d].memo, s) = {}
    /\ cellMemo' = [c \in Cells |->
                      IF c \in ToSet(docs[d].cells)
                      THEN Put(cellMemo[c], s, CellAnalysis(c, s))
                      ELSE cellMemo[c]]
    /\ docs' = [docs EXCEPT ![d].memo = Put(@, s, DocAnalysis(d, s))]
    /\ UNCHANGED <<parsed, cache, latest>>

(* The provider, seen from here: a lazy one learns names, and its version  *)
(* moves now or later.                                                     *)
ProviderMoves(s, known, bump) ==
    /\ s \in Lazy
    /\ provKnown[s] \subseteq known
    /\ provKnown' = [provKnown EXCEPT ![s] = known]
    /\ IF bump
       THEN /\ provVersion' = [provVersion EXCEPT ![s] = @ + 1]
            /\ announced' = [announced EXCEPT ![s] = known]
       ELSE UNCHANGED <<provVersion, announced>>

-----------------------------------------------------------------------------
(* splitStatements() answers one statement at least, whatever the text. *)
Scripts == BoundedSeq(Texts, MaxStatements) \ {<<>>}

(* create(): a document over a fresh cache. *)
Create(d, ts) ==
    LET built == Built(ts, <<>>, [c \in Cells |-> Blank], {})
    IN  /\ parsed = built.parsed
        /\ cache = built.cache
        /\ cellMemo = [c \in Cells |-> NoMemo]
        /\ docs = [e \in {d} |-> [texts |-> ts, cells |-> built.cells, memo |-> NoMemo]]
        /\ latest = d

DocInit ==
    /\ \E d \in Docs, ts \in Scripts : Create(d, ts)
    /\ provVersion = [s \in Schemas |-> 0]
    /\ provKnown \in [Schemas -> SUBSET Names]
    /\ announced = provKnown

DocNext ==
    \/ \E e \in Docs, ts \in Scripts : WithText(e, ts) /\ UNCHANGED provVars
    \/ \E d \in DOMAIN docs, s \in Schemas : Analyze(d, s) /\ UNCHANGED provVars
    \/ \E s \in Schemas, known \in SUBSET Names, bump \in BOOLEAN :
         ProviderMoves(s, known, bump) /\ UNCHANGED docVars

DocSpec == DocInit /\ [][DocNext]_<<docVars, provVars>>

-----------------------------------------------------------------------------
(* The type invariant of the documents, their cache and their memos. *)
DocTypeOK ==
    /\ parsed \in [Cells -> Texts]
    /\ ToSet(cache) \subseteq Cells
    /\ DOMAIN docs \subseteq Docs /\ latest \in DOMAIN docs
    /\ \A d \in DOMAIN docs :
         /\ docs[d].texts \in Scripts
         /\ ToSet(docs[d].cells) \subseteq Cells
         /\ DOMAIN docs[d].memo \subseteq Schemas
    /\ \A c \in Cells : /\ DOMAIN cellMemo[c] \subseteq Schemas
                        /\ \A s \in DOMAIN cellMemo[c] :
                             cellMemo[c][s] \in
                               [version : Nat, known : SUBSET Names, unknown : SUBSET Names]
    /\ provVersion \in [Schemas -> Nat]
    /\ provKnown \in [Schemas -> SUBSET Names]

(* The statements of a live document are parses of their own source        *)
(* slices, no two of them the same object: duplicates, evictions in the    *)
(* middle of a build and later edits of any relative notwithstanding.  The *)
(* passes that find occurrences by object identity depend on it.           *)
CellsOwnTheirSpan ==
    \A d \in DOMAIN docs :
        /\ Len(docs[d].cells) = Len(docs[d].texts)
        /\ \A i \in DOMAIN docs[d].cells :
             /\ parsed[docs[d].cells[i]] = docs[d].texts[i]
             /\ \A j \in DOMAIN docs[d].cells : docs[d].cells[i] = docs[d].cells[j] => i = j

TextsOf(doc) == ToSet(doc.texts)
FirstCell(doc, t) == doc.cells[CHOOSE i \in DOMAIN doc.texts :
                                 /\ doc.texts[i] = t
                                 /\ \A j \in 1..(i - 1) : doc.texts[j] # t]

(* While the statements before and after an edit fit in the cache          *)
(* together, the edit re-parses no statement it did not touch: the first   *)
(* occurrence of a text is the same object before and after, its memos     *)
(* with it -- wherever it moved to, and whatever was analysed in between.  *)
EditKeepsUntouchedCells ==
    [][LET old == docs[latest]
           new == docs'[latest']
       IN  Cardinality(TextsOf(old) \cup TextsOf(new)) <= CellCacheMax
             => \A t \in TextsOf(old) \cap TextsOf(new) :
                  FirstCell(old, t) = FirstCell(new, t)]_docVars

(* What analyze() answers now is what the schema it was asked for knew at  *)
(* some moment since that schema's version last moved: nothing announced   *)
(* is missing from it, and nothing of another schema's is in it -- however *)
(* many edits, evictions and schemas the memos have been through.          *)
AnswersSinceLastBump ==
    \A d \in DOMAIN docs, s \in Schemas :
        LET hit == MemoHit(docs[d].memo, s)
            answer == IF hit # {} THEN CHOOSE h \in hit : TRUE ELSE DocAnalysis(d, s)
        IN  \A i \in DOMAIN docs[d].texts :
              /\ Reads[docs[d].texts[i]] \cap announced[s] \subseteq answer.known[i]
              /\ answer.known[i] \subseteq Reads[docs[d].texts[i]] \cap provKnown[s]

(* The two levels of memo agree: where a document's answer is current, so  *)
(* are the answers on its cells, and they say the same.  An edit that      *)
(* reuses the cells then shows what the document showed.                   *)
DocumentAgreesWithCells ==
    \A d \in DOMAIN docs, s \in Schemas :
        \A answer \in MemoHit(docs[d].memo, s) :
            \A i \in DOMAIN docs[d].cells :
                \E own \in MemoHit(cellMemo[docs[d].cells[i]], s) :
                    own.known = answer.known[i]
=============================================================================
