--------------------------- MODULE CallbackSchema ---------------------------
(***************************************************************************)
(* The resolve-on-demand catalog of sql-static-lineage                     *)
(* (src/qualify/schema-provider.ts, class CallbackSchema): synchronous     *)
(* lookups over a cache the host owns, a record of the lookups that        *)
(* missed, and one asynchronous pass, prime(), that drains the record.     *)
(*                                                                         *)
(* JavaScript runs one turn at a time, so a lookup is one step.  A pass    *)
(* is several: the call of prime(), the host's work while its fetch is     *)
(* awaited, the resumption of drain(), and the .finally() callback that    *)
(* forgets the pass, which runs in a later microtask.  Lookups and calls   *)
(* of prime() fall between any two of them.                                *)
(*                                                                         *)
(* The order of the miss list is abstracted: it is a set here, for nothing *)
(* but the listing depends on the order.  A resolver without fetch() is    *)
(* the special case of a pass in which nothing falls between its start     *)
(* and its resumption.                                                     *)
(***************************************************************************)
EXTENDS Naturals, FiniteSets

CONSTANTS
    Names,      \* raw name parts as a statement writes them
    Tables,     \* folded name parts: the catalog's identity keys
    Fold        \* the dialect's table-identifier fold

ASSUME FoldAssumption == Fold \in [Names -> Tables]
ASSUME TablesAssumption == IsFiniteSet(Tables)

VARIABLES
    warm,       \* tables the host's cache resolves (external to the class)
    misses,     \* _misses
    missSeen,   \* missSeen, the guard of recordMiss()
    revealed,   \* revealed
    version,    \* _version
    pass,       \* inFlight: null, pending, or settled and not yet forgotten
    pending,    \* drain()'s copy of the misses it handed to fetch()
    told        \* history: tables some caller was told are unknown since
                \* the version last moved -- what a memo keyed on the version
                \* may still be showing

catalogVars == <<warm, misses, missSeen, revealed, version, pass, pending, told>>

Idle == "idle"              \* inFlight === null
Fetching == "fetching"      \* awaiting resolver.fetch(pending)
Found == "found"            \* settled with true
Nothing == "nothing"        \* settled with false
Rejected == "rejected"      \* fetch() threw, so drain() and prime() did
Settled == {Found, Nothing, Rejected}

CatalogInit ==
    /\ warm \in SUBSET Tables
    /\ misses = {} /\ missSeen = {} /\ revealed = {}
    /\ version = 0
    /\ pass = Idle /\ pending = {}
    /\ told = {}

-----------------------------------------------------------------------------
(* columnsFor() for every name of ns within one synchronous turn: a known  *)
(* table is revealed, an unknown one recorded unless missSeen holds it.    *)

Folded(ns) == {Fold[n] : n \in ns}

Unknown(keys) == keys \ warm                    \* resolve() answers undefined

ColumnsFor(ns) ==
    LET keys == Folded(ns)
        cold == Unknown(keys)
    IN  /\ misses' = misses \cup (cold \ missSeen)
        /\ missSeen' = missSeen \cup cold
        /\ revealed' = revealed \cup (keys \ cold)
        /\ told' = told \cup cold
        /\ UNCHANGED <<warm, version, pass, pending>>

(* prime() when no pass is in flight and something is recorded.  In the    *)
(* other two cases it changes nothing: it returns the promise in flight,   *)
(* or an already resolved false.                                           *)

Prime ==
    /\ pass = Idle
    /\ misses # {}
    /\ pass' = Fetching
    /\ pending' = misses
    /\ UNCHANGED <<warm, misses, missSeen, revealed, version, told>>

(* The host's fetch() fills the cache that resolve() reads, table by table *)
(* and before the promise settles: lookups in between see part of it.      *)

HostWarms(t) ==
    /\ pass = Fetching
    /\ t \in pending \ warm
    /\ warm' = warm \cup {t}
    /\ UNCHANGED <<misses, missSeen, revealed, version, pass, pending, told>>

(* drain() resumes after its await: re-probe what was fetched, keep what   *)
(* is still missing, and truncate the list to it -- a miss recorded while  *)
(* the fetch was running goes with the truncation.                         *)

StillMissing == pending \ warm
NowFound == pending \cap warm

SeenAfter == StillMissing

BumpNever == version                            \* mutant: the bump is missing
BumpAlways == version + 1                       \* mutant: a pass that found nothing bumps too
BumpOnNews == IF NowFound # {} THEN version + 1 ELSE version

Drain ==
    /\ pass = Fetching
    /\ misses' = StillMissing
    /\ missSeen' = SeenAfter
    /\ revealed' = revealed \cup NowFound
    /\ version' = BumpOnNews
    /\ told' = IF version' # version THEN {} ELSE told
    /\ pass' = IF NowFound # {} THEN Found ELSE Nothing
    /\ UNCHANGED <<warm, pending>>

(* fetch() rejects, perhaps after warming some tables: drain() throws      *)
(* before it touches the record, so every miss is kept for the next pass.  *)

FetchRejectsLossy ==    \* mutant: the misses were spliced out before the await
    /\ pass = Fetching
    /\ pass' = Rejected
    /\ misses' = misses \ pending
    /\ missSeen' = missSeen \ pending
    /\ UNCHANGED <<warm, revealed, version, pending, told>>

FetchRejects ==
    /\ pass = Fetching
    /\ pass' = Rejected
    /\ UNCHANGED <<warm, misses, missSeen, revealed, version, pending, told>>

(* The .finally() callback.                                                *)

Forget ==
    /\ pass \in Settled
    /\ pass' = Idle
    /\ pending' = {}
    /\ UNCHANGED <<warm, misses, missSeen, revealed, version, told>>

CatalogNext ==
    \/ \E ns \in SUBSET Names : ColumnsFor(ns)
    \/ Prime
    \/ \E t \in Tables : HostWarms(t)
    \/ Drain
    \/ FetchRejects
    \/ Forget

CatalogSpec == CatalogInit /\ [][CatalogNext]_catalogVars

-----------------------------------------------------------------------------
(* The type invariant of the catalog's state. *)
CatalogTypeOK ==
    /\ warm \subseteq Tables
    /\ misses \subseteq Tables
    /\ missSeen \subseteq Tables
    /\ revealed \subseteq Tables
    /\ version \in Nat
    /\ pass \in {Idle, Fetching} \cup Settled
    /\ pending \subseteq Tables
    /\ told \subseteq Tables

(* recordMiss()'s guard agrees with the list it guards at every turn, also *)
(* across a pass that truncates the list and one that throws: no table is  *)
(* listed twice, and none is barred from being recorded again after it     *)
(* left the list.                                                          *)
GuardMatchesList == missSeen = misses

(* What a pass in flight has handed to fetch() is still recorded, and what *)
(* was recorded after the hand-over is not in the host's cache: the pass   *)
(* can account for every table the host warms under it.                    *)
PassCoversWarming ==
    pass = Fetching => /\ pending \subseteq misses
                       /\ (misses \ pending) \cap warm = {}

(* The protocol's promise to memo holders.  A table that a caller was told *)
(* is unknown, and which the host's cache now resolves while the version   *)
(* has not moved, is still on the miss list: the pass in flight or the     *)
(* next one re-probes it, finds it and bumps the version.  No answer goes  *)
(* stale behind a version that will never move.                            *)
StaleAnswersAreQueued == told \cap warm \subseteq misses

(* The version counts finds: it has not moved more often than there are    *)
(* tables that the host warmed and a pass has taken off the list.  So an   *)
(* editor that primes on every publish does not invalidate every memo for  *)
(* ever over a table that exists nowhere and is recorded anew each time.   *)
InvalidationsAreFinds == version <= Cardinality(warm \ misses)

(* The version moves by one, when a pass resumes and finds a table that    *)
(* had been missing, and at no other step: no spurious invalidation.       *)
VersionMovesOnlyOnNews ==
    [][version' # version =>
         /\ version' = version + 1
         /\ pass = Fetching /\ pass' = Found
         /\ \E t \in misses : t \in warm /\ t \notin misses']_catalogVars
=============================================================================
