# TLA+ models of TITANS Cognition and sql-static-lineage

This directory models the parts of the repository whose correctness depends on
the *order* of events: caches filled while somebody reads them, memos keyed by
a version that moves later than the answers do, and directories renamed by a
process that may die between two renames. The rest of the repository is mostly
pure functions over large data and is listed below as not modelled.

Run everything from this directory: `tlc -config X.cfg MCModule` for a run of
the table in section 4, `tlapm XProofs.tla` for a proof module.

## 1. The system and its parts

Two programs share the repository. `src/titans_cognition` (Python) extracts
database metadata once and derives candidates from it; `scripts/*.py` collect
lineage evidence from a command line. `sql-static-lineage` (TypeScript) parses
SQL, resolves it against a catalog for an editor, and (under
`scripts/machine-facts`) publishes the analysis of each task as a bundle of
files.

| Component | State it keeps | Operations | Interacts with | What makes it correct |
|---|---|---|---|---|
| `CallbackSchema` (`qualify/schema-provider.ts`) | miss list and its guard set, revealed tables, version, the pass in flight | `columnsFor`, `prime`, `drain` | host's `resolve` (sync) and `fetch` (async); every memo reads `version` | no answer that has become wrong is forgotten; the version moves on news and only then |
| `SqlDocument` (`document/document.ts`) | immutable cells, the shared LRU cell cache, a memo per document and one per cell | `create`, `withText`, `analyze` | a `SchemaProvider` by identity and version | no shared cell within a document; an edit keeps what it does not touch; no answer older than the last bump |
| `DefaultTemplateProvider` (`qualify/template-provider.ts`) | two miss lists with guards, version, pass | `expansion`, `columnsFor`, `prime`, `drain` | two async hooks under one `Promise.all` | as `CallbackSchema` |
| Machine facts (`machine-facts.ts`, `machine-facts-runtime.ts`) | per task: status file and backup, `bundle/`, `.recovery/`, `.staging-*`; the index | `runTask`, `rebuildIndex` over write, recover, publish | the file system; the next run of the same task | SUCCESS names a whole bundle in place; the index lists only that; a published bundle survives |
| Downstream machine facts (`downstream-machine-facts-by-task.ts`, `downstream-lineage-adapter.ts`) | the same directories; per task a selection of edges and a scope | one loop over tasks, no `try` | the same runtime; the crawler's output | the scope of a task is the gated range of its seeds |
| Fact store (`titans_cognition/io.py`) | seven JSON files, a temporary directory per run | `write_json_fact_batches`, `read_json_facts` | the CLI's other commands read between runs | all files of one extraction or none |
| Task resolver (`resolve_downstream_task_ids.py`) | a mapping file, written after every answer | `run`, again and again | a rate-limited command; the crawl's growing part files | nothing resolved is asked again, nothing unresolved is lost, 0 means all resolved |
| Lineage crawler (`crawl_szdata_downstream.py`) | part files of results, edges and details; frontier and caches in memory | crawl, resume, range | the same command, from a thread pool | the boundary holds; SUCCESS means closed; a resume asks what is missing and no more |
| Batch merge (`merge_machine_facts_batch.py`) | canonical registry, snapshots, index, backups | preflight and merge | registries that machine facts produced | the index names what can be had |
| Schema evidence refresh (`schema-evidence-refresh.ts`) | an evidence file and its backup | refresh with retries | the same command | no evidence is lost |
| Collection scripts (`scripts/*.py`), metadata batch | output files | one pass each | the same command | data rules |
| Review imports (`llm_field_review.py`, `classification.py`) | packs and responses keyed by fingerprints | prepare, import | files | a response is applied to the pack it answers |
| Semantics, evidence, catalogs, derivation, evaluation, harness, CLI | none between runs | batch functions | files | data rules |
| SQL front end, scope, qualify, infer, lineage, references, Jinja front end | none | pure functions | a provider | data rules |

Hard behaviours: lookups interleaved with an `await`, a rejected promise after
part of its effect, coalesced calls, two memo levels with one version, a cache
at its limit, object identity as a key; a crash between any two file
operations, an operation that fails half way, an undo handler that cannot tell
what it undoes, an interrupt that passes by the exception handler, restarts
with another input, answers that arrive in any order, calls that fail and are
retried, an input that grows while it is read, and one rule implemented twice.

## 2. Modules

| Module | Models | State and actions |
|---|---|---|
| `CallbackSchema` | the class of that name and its resolver | one variable per field (`misses`, `missSeen`, `revealed`, `version`, `pass` = `inFlight`, `pending` = `drain`'s copy), `warm` for the host's cache. `ColumnsFor(ns)` is one synchronous turn of lookups; `Prime`; `HostWarms(t)`, `Drain`, `FetchRejects` are the ways the await can go; `Forget` is `.finally` |
| `SqlDocument` | cells, cache and memos | `parsed`, `cellMemo` are the `CachedCell` heap, `cache` the `Map` in insertion order, `docs` the documents a host holds. `WithText` is the whole constructor over the carried cache, `Analyze` both memo levels; the provider is abstract (`ProviderMoves`) |
| `EditorSession` | documents over a catalog | EXTENDS `CallbackSchema`, INSTANCEs `SqlDocument` with the catalog's version and answers in place of the abstract provider. An `Analyze` of a document and the lookups behind it are one step, as in the code |
| `TemplateProvider` | the template catalog | as `CallbackSchema`, with `hooks` (what `Promise.all` still waits for) and `detached` (a hook that outlived its pass) |
| `TaskFacts` | publish and recover, of SQL facts and (`family`) of downstream facts | the six things on disk, each a set of at most one value so that a rename moves a set; `pc` names the next file-system operation; `Crash` at every one; `Faults` the operations that may fail |
| `FactStore` | `write_json_fact_batches` | per file, what is in `target`, `staged`, `backup`, and in directories of earlier runs (`stray`); `Stage`, `SetAside`, `Put`; `Unlink`, `Restore`, `RestorePending` are the `except` block, `Finally` the `finally` block one removal at a time; `Interrupt` skips the `except` block, `Kill` both |
| `PublishedFacts` | what a task's directory promises its readers | the abstract specification `TaskFacts` implements: facts are replaced only while no success is claimed, a success is claimed only of the facts in place, the index lists what is claimed |
| `AtomicFacts` | what the fact store promises | the abstract specification `FactStore` implements: the files change together, or the store is known to be hurt |
| `TaskResolver` | `run()` of the resolver | `file` is the mapping file, `results` the dictionary, `todo`, `current`, `retried` the two loops; `Start(ps)` for the parts `--input` names, `Ask(g)` with every kind of response, `Abort` for a run that raises or dies, `Save` with what follows it, `Close`; `WritePart` is the crawl |
| `LineageCrawler` | the crawler's `main()` | five variables for what is on disk, the rest for its locals; `Resume` and the rounds of details (`Reconsider`, `FetchDetails`), `Round`, `NextBatch`, `Answer(n)`, `AnswerFails(n)`, `AnswerOdd(n)` (a payload that is no list) in any order, `SaveQueries` then `SaveEdges`, `Finish`; `Crash` tears the part or the manifest being written |
| `DmGate` | the crawler's last loop, and the adapter's two | breadth-first loops, one turn a step, over the same queue of pairs; `range`, `selected`, `scope` are their results |
| `BatchMerge` | the merge | `dirs`, `index`, `snapshots`, `saved` on disk; `Start` is the whole preflight, then `Save`, `Copy`, `Clear`, `Install`, `PutIndex` |
| `SqlDocumentProofs`, `EditorSessionProofs` (with `CallbackSchema`), `TemplateProviderProofs`, `TaskFactsProofs`, `FactStoreProofs`, `TaskResolverProofs`, `LineageCrawlerProofs` (with `DmGate`), `BatchMergeProofs` | theorems | section 5 |
| `MC*` | TLC instances | constants only |

`CallbackSchema` has no instance of its own: `EditorSession` extends it and
fires every action of it.

History variables (`told`, `atBump`, `announced`, `abandoned`, `latest`,
`faulted`, `made`; `before`, `disturbed`, `erased` of `FactStore`; `gap` of
`LineageCrawler`) are written and decide nothing: no guard and no other variable
depends on them.

Definitions named *mutant* in a comment are the plausible errors each property
was tried against; nothing refers to them.

## 3. What is abstracted

* Columns, types, coordinates and diagnostics' wording: a table is known or
  unknown, a statement is the set of names its analysis looks up (`Reads`).
  Coordinate shifts and T-SQL variable linking are left out of `SqlDocument`,
  as are the union views and variants and the templated cell.
* A cell object is a name that `FreshCell` takes from those not in use; a name
  no document and no cache entry holds is given back. `MaxCells` is assumed to
  suffice, so the bound is never felt.
* `TemplateProvider` takes overrides to behave as the repository's test doubles
  do: a granular answer comes from the host's cache and records its miss. The
  two lists are one set, told apart by their keys.
* A manifest is the context it records and the output it hashes. The context
  compared by `manifestContext` also holds the parser version, which the
  request in the status file does not; runs of one build are modelled.
* File writes that are never read back (`.tmp`, snapshots) are left out. Faults
  strike the operations in `Faults`; a second fault inside the catch block of
  `publishArtifactBundle`, and damage done by other programs, are not modelled.
  One writer at a time, as the design document declares.
* `FactStore` leaves out file handles and rows; a file is an extraction or
  absent. `write_json_derived` is left out: it rewrites one of the seven files
  (`derived/extraction_failures.json`) in place, outside the commit
  (`io.py:164-182`).
* `TaskResolver` leaves out waits, times, attempt counts and the order of rows;
  a row is its status and whether it has task ids. Its input is the directory,
  the first parts of it (`--max-input-files`), or one part file.
* `LineageCrawler` reads a directory of parts as a function of the tables (the
  last row counts, as in the code). A call stands for all its retries. The hop
  limit and the allowed database are at their defaults, none. The platform and
  the seeds do not change between runs; which tables have a database hint is a
  constant of the world, which may be expanded once known another, and for which
  the platform may answer with JSON that is no list a third (`world.odd`; for
  these a proper answer and a failure are possible as well). A row torn
  by a crash is there or not; half a line is not modelled.
* `DmGate` keeps of a table its kind: plain, `dm_otc_n`, another DM database,
  unknown database, or no table at all (with or without a DM name). Both
  programs are given the same kinds: how each finds the database of a table is
  not modelled. Edges from terminal or unknown tables are allowed, since a
  directory may hold those of runs with other options.
* In `BatchMerge` a bundle is a name, a snapshot is known by its hash, and the
  loops take their tasks in any order. The incoming root is one that a producer
  stopped at any step can leave (an index behind its status, a status behind
  its directory unless it says SUCCESS).
* In `EditorSession` the host's fetch returns normally only when it has warmed
  every table it was asked for that exists; partial answers end in a rejection.

## 4. Runs

| Run | Question | Bounds |
|---|---|---|
| `SqlDocument` | Are cells shared, lost or rebuilt needlessly when the cache is no larger than a script, or does a document disagree with its cells? | three statement texts, scripts of two, a cache of two, one provider that learns, one bump (`VersionBound` is a state constraint) |
| `EditorSession` | Is every wrong diagnostic queued for correction? Are documents invalidated only for tables found? | two documents, an existing table under two spellings and one that does not exist, a cache of two |
| `EditorSessionLive` | Is a remembered answer ever older than the last bump? Do warm tables get shown, and listed misses get fetched? | one document, scripts of two statements, a cache of one: every edit evicts |
| `EditorSessionDropped` (violated) | Does a truncated miss come back with the next `analyze()`? | as above |
| `TemplateProvider` | What loses a miss, and is everything listed fetched? | a ref whose shape is known by name, a macro and a table; a `VIEW` keeps of the version its last bit only, for no action reads it and it grows with every pass over a cold shaped call |
| `TaskFacts` | Does SUCCESS ever name something that is not there, at any crash point, with any operation failing? Are facts ever replaced under a claim, or listed without one? | SQL and downstream facts, two contexts, two outputs, all four fault kinds, unbounded runs and crashes; contexts and outputs are symmetric, which is sound here: every property is an invariant or, in the refinement, a condition on single steps |
| `TaskFactsLost` (violated) | Is a bundle recovered whichever step fails? | only the retiring rename fails |
| `FactStore` | What does a reader find after a failure, an interrupt or a kill at any step, and after any number of later runs? | three files (a first, a middle and a last one), two extractions, four fault kinds |
| `TaskResolver` | Is what was resolved safe, what was not asked again, and does every run end? | three tables, two parts, read together or one alone, one retry, every way a table may appear in the parts, any response |
| `LineageCrawler` | Is what a manifest says true over crashes, resumes, failing calls and a cap? | three tables in a ring or a fork with a cycle, some without a hint, some terminal, none or one that may be answered for by no list; batches of two, a cap of two or none |
| `BatchMerge` | Does the index ever promise what cannot be had? | two tasks, three bundles of two SQL texts, every incoming root, with and without replacement |
| `DmGate` | Is the range the gated range, and do both programs say so? | every lineage of three tables of six kinds, self-loops and cycles included, one or two seeds |

Why the bounds are enough: the hazards need at most one table that arrives and
one that does not, a statement that keeps its cell and one that loses it, a
bundle and a successor; a loop over files or tables has a first, a middle and a
last turn with three; a table met before the gate and again behind it needs a
cycle of two and a DM table. Deadlock checking is on in every run but `DmGate`,
whose loops end.

Fairness. `LiveSpec` assumes weak fairness of `Analyze` for the documents the
editor shows, of `prime` and of promise callbacks (an event loop runs them),
and strong fairness of the host's warming and of a fetch returning (a fetch
that is retried succeeds in the end). Editing and lookups are not fair.
`LiveProviderSpec` assumes that the host primes, and that each hook settles one
way or the other; it does not assume that hooks succeed. `ResolverSpec` and
`CrawlSpec` assume that a started run takes its steps, since every call has a
timeout, and nothing of what the platform answers: `RunsEnd` and `CrawlEnds`
hold against a platform that always refuses. The others are about safety only.

### What the violated runs show

1. **A dropped miss need not come back** (`EditorSessionDropped`). `drain()`
   truncates a miss recorded during its await; the comment there says the next
   `analyze()` records it again. If that pass found nothing, the version did not
   move, both memos hit, and the table is not looked up again.
2. **The undo handler removes the only bundle** (`TaskFactsLost`) when the
   rename that should have set it aside is what failed.

### What the models say the code does not promise

These are visible in the models as the escapes the properties name, or were
settled while writing them.

* `DefaultTemplateProvider`: a rejected hook loses misses, for the lists are
  spliced before the await where `CallbackSchema` copies them
  (`NothingElseIsLost` names this as the only way); a key consulted during its
  own fetch is announced twice, a bump without news; a call with an explicit
  shape is never undefined when it is probed again, so every pass over it bumps
  the version, warm or not (`template-provider.ts:254`). The corrections still
  arrive, which the run shows with such a call.
* Machine facts: a crash in a status write leaves status and backup, and the
  report of that is itself a status write, which refuses; the task stays so
  until somebody removes the backup (`machine-facts.ts:649`, `1568`).
* Downstream facts: nothing around a task is caught, so a task interrupted
  under ANALYZING is refused by `recoverArtifactState` in every later run, and
  each of those ends there, before the tasks after it and before the index is
  written (`downstream-machine-facts-by-task.ts:503`). No manifest context is
  passed, so a drift of the output replaces the bundle (`DriftNeverReplaces` is
  about SQL facts). What is SUCCESS on disk is backed all the same.
* Fact store: after a kill, an interrupt or a failed restore inside the commit
  loop a reader may find some files of each extraction, or one missing, until
  the next run (`disturbed`); after an interrupt or a failed restore the backups
  are removed as well (`erased`). No other failure shows.
* Task resolver: a later run with fewer input files leaves a mapping file
  without the rows of the others; a table whose first row has no name stays
  invalid although a later part names it (`Named`). Nor is a resolved row safe
  from such a row: a run over a later part alone may resolve the table, and a
  run over the directory then writes it over as INPUT_INVALID, task ids and all
  (`resolve_downstream_task_ids.py:340-351`), which no later run asks again.
  `ResolvedIsSettled` names this as the only way.
* Crawler: a crash between `query-results` and `direct-edges` leaves a table
  marked as answered whose children no resume will see, and a later manifest
  says SUCCESS (`gap`); `docs/downstream-dm-gated-operation.md` describes the
  crawl as resumable without this exception. The same may happen without any
  crash: `fetch_lineage` takes JSON that is no list for a SUCCESS without tables
  (`crawl_szdata_downstream.py:99`), where `fetch_table_detail` reports an
  INVALID_PAYLOAD (127-130), so the table is not asked again by a resumed run
  and the manifest may say SUCCESS over it. `SuccessIsTraced` and
  `ClosedUnlessGap` speak of the tables outside `world.odd`, in worlds that
  have such tables too. Details fetched inline are kept in
  memory only, so a resume asks for them once more.
* The range counts a node as DM only if it is a table, the adapter by its
  database name alone: a node that is no table but carries a DM name opens the
  gate in the adapter only (`ScopeAgreesWithRange` names this exception).
* Merge: a merge that dies after a new directory was installed is refused by
  its own preflight from then on, and one that dies while it copies a snapshot
  leaves a torn one that every rerun calls a collision. `BackedOrSaved` says
  that nothing the index promises is lost in either case.

## 5. Proofs

Each theorem holds for every value of the constants its module declares, under
the named assumptions there (`FoldAssumption`, `TablesAssumption`, `DocumentAssumptions`,
`SessionAssumption`, `DocumentsAssumption`, `KeysAssumption`, `FilesAssumption`,
`ResolverAssumption`, `CrawlAssumption`, `WorldsAssumption`, `MergeAssumption`,
`GateAssumption`; `TaskFacts` needs none).

* `SqlDocumentProofs`. The invariant is `HeapInvariant` (every document's cells
  are of its texts and distinct; the cache holds distinct cells of distinct
  texts, at most `CellCacheMax`), `RecentlyBuilt` (the first cells of the texts
  of the latest document are the last entries of the cache, as far as they fit)
  and `MemoInvariant` (what is remembered under the current version was answered
  since the last bump). A whole build is one step, so each part is carried
  through the constructor's loop: `Builds[i]` is the state after `i` statements,
  and a property that holds at 0 and from `i` to `i + 1` holds at the end,
  because there is no least `i` where it fails. `EditsKeepUntouchedCells` is the
  argument about the least recently used entry: a text that is used by a build
  moves to the end, so an eviction strikes only what the build and the document
  before it have not used, while the two fit together.
* `EditorSessionProofs`, first the catalog. The invariant adds to the properties
  what a pass in flight knows: its copy of the list is still on the list, and
  only what it carries can have become warm. From it: `CatalogTypeCorrect`,
  `RecordGuardIsExact`, `NoStaleAnswerIsForgotten`, and the action property
  `NoSpuriousInvalidation`.
* `EditorSessionProofs`, then the session. `NoWrongDiagnosticIsFinal` needs to know of *every*
  memo, not only of those shown: an unknown stamped with the current version
  was looked up since the last bump (is in `told`), at both levels, whichever
  cells an edit carries over or a cache evicts. With the catalog's invariant
  (`told` and warm means listed) the property follows.
  `AnswersAreRecentAlways` is the theorem `AnswersStayRecent` of `SqlDocument`
  carried over to the session; the lemma it needs, that a step of the session is
  one of `SqlDocument` or a stutter (`SessionIsOfDocuments`), holds by the way
  the session is put together and says nothing more of the code.
  `InvalidationsAreBounded` counts: a pass that bumps has taken a warm table off
  the list, and no lookup puts a warm one on it, so the version is at most the
  number of tables that are warm and not listed (`FindsAreCounted`). Hence no
  cycle of priming and analysis can go on over tables that do not exist.
* `TemplateProviderProofs`. `ProviderTypeCorrect`, `OnlyRejectionLosesMisses`
  and `GuardsStayExact`; the invariant says which phases may hold pending keys
  and hooks.
* `TaskFactsProofs`. The five checked invariants are proved together, because
  they lean on each other. `Phases` is what `runTask` has established at each
  point (recovery has left no `.recovery`, the analysis runs under ANALYZING
  with no backup, what is staged is for the context asked for); `WriteCarries`
  says that a status write under way is one of three kinds, SUCCESS only for a
  bundle in place; `Ends` what a finished write left. Every step is a case with
  one leaf per conjunct. `TaskFactsRefinePublishedFacts` follows from it step by
  step: a claim (the status, or the backup a restart would put back) is always
  of the whole bundle in place, so a status write can only withdraw or announce;
  the renames and removals of a bundle happen in phases where nothing is
  claimed; and a run that failed leaves neither a status nor a backup that
  claims something for `rebuildIndex` to list.

* `FactStoreProofs`. `Phases` says of each file, at each step of the commit
  loop and of the rollback, whether it is committed, untouched or set apart, by
  its place before or after the loop's index; that is what makes one failing
  rename harmless in all files, for any number of them. `StoreRefinesAtomicFacts`
  proves the refinement (`StoreTyped`, the type invariant, is proved here and not
  repeated in the run): only the last `Put` replaces the facts, and what cuts
  a run short is a `Disturb`, file by file old, new or absent.
* `TaskResolverProofs`. `Faithful` relates a run's memory to the file: what is
  resolved on disk is so in memory, unless the first row the run reads of the
  table has no name, when it is invalid in memory. `Waiting` says what is still
  to be asked: tables with a name and without a resolved row.
  A checkpoint then changes a resolved row only where the run has found no name
  (`CheckpointSettles`), whichever parts this run and those before it have read.
* `LineageCrawlerProofs`. `Saved` and `Heeded` say that the edges of what was
  answered are in memory, and on disk once their part is written, unless a
  crash has fallen into the gap; `Heeded` is about the tables outside
  `world.odd` only, for an answer that is no list leaves no edges. `Opened` says that nothing beyond the boundary is ever
  on its way to be asked; `Once` that a resumed run knows what is on disk.
  `CrawlCloses` follows at `finish` from `Eligible = {}`.
* `LineageCrawlerProofs`, of `DmGate`. The reference definition, walks of
  at most `2 * N` hops, is a recursive function; `WalkStep` is its equation. The
  invariant reads the queue as two levels of a breadth-first search (`Levels`):
  the pairs of hop `h` still in front, those of `h + 1` behind, everything of
  fewer hops `Expanded`, that is, its arcs' ends are marked and have their row.
  With it go the soundness of what is in the queue and in the rows (a walk of
  that many hops, through a first DM table that is really the first: `Sound`),
  and that distinct marked pairs lie at each level until the queue is empty, so
  that no hop passes `2 * N` (`PairCount`). A turn's inner loop over the children
  is again a recursive function, carried by `UpTo`. For the adapter the selected
  edges are `Owned` by a seed and `Closed` under expansion, so a walk over them
  is a walk over all (`ScopeTurnKeeps`). From it `RangeIsGatedAlways` and
  `OwnEdgesOnlyAlways`.
  `ScopeAgreesAlways` needs the order of the queue as well, for several tables
  may be the first DM table of a walk of the least hops, and a row holds the one
  whose walk came first. A trail is a walk with a number that orders walks of as
  many hops by the guids of their tables (`Onward`, `TrailsDiffer`). `Ordered`
  says that the queue is in the order of trails, and that an entry has the first
  trail of its pair, or comes after one that has, or its pair has been expanded.
  Then every row has the first trail of its pair (`FirstTrail`), in whichever
  loop it was recorded, and there is only one.
* `BatchMergeProofs`. `Prepared` says what the preflight and each finished loop
  have made true of each task under way (its row names its bundle, it is saved
  before it is cleared, its snapshot is whole before it is installed).

TLC checked each inductive invariant before it was proved.

Proved and not run on their own, because the composition's runs check what
rests on them: `CatalogTypeOK`, `GuardMatchesList`, `PassCoversWarming`,
`StaleAnswersAreQueued`, `VersionMovesOnlyOnNews` of `CallbackSchema`,
`CarriedUnknownIsQueued` of `EditorSession`, `GuardsMatchLists` of
`TemplateProvider`.

Only model-checked: the liveness properties (`WarmTablesGetShown`,
`ListedMissesAreServed`, `ListedKeysAreFetched`, `StaleAnswersGetCorrected`,
`RunsEnd`, `CrawlEnds`), which the proof system does not reach. Every invariant,
action property and refinement that a passing run checks is proved.

## 6. Not modelled, and the plan

Not modelled for good: grammars, generated parsers and lowering, inference and
lineage rules, the semantic and evaluation rules of the Python core, rendering
and the CLI. They are functions of large inputs; tests and golden files suit
them better.

Left for later, in this order:

1. The evidence file's replacement, beside the status write of `TaskFacts`.
2. The composition of `LineageCrawler` and `DmGate`: the adapter's scope,
   computed from what a finished crawl left on disk, equals the crawler's range.
   The two resolve a table's database differently (the crawler's resume takes
   the first edge row, the adapter the last), so the kinds must become part of
   the state first.
3. The templated cell over `TemplateProvider` in an `EditorSession` of its own.
4. The review imports, keyed by fingerprints.

The part of the repository these models stand for is small by lines. Most of it
is tables of functions and signatures, generated parsers, lowering and text
rules, where a model would repeat the program; what keeps state across steps,
awaits or restarts is modelled above or named in this list.
