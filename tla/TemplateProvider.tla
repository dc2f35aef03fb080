-------------------------- MODULE TemplateProvider --------------------------
(***************************************************************************)
(* The lazy machinery of DefaultTemplateProvider in sql-static-lineage     *)
(* (src/qualify/template-provider.ts): the catalog a templated document    *)
(* consults, "the CallbackSchema pattern" for two kinds of keys.  Template *)
(* calls are answered by expansion(), tables by columnsFor(); each kind    *)
(* has a miss list, and one prime() drains both through a fetch hook each. *)
(*                                                                         *)
(* Where it departs from CallbackSchema: drain() splices both lists before *)
(* it awaits, it awaits two hooks under one Promise.all, and the re-probe  *)
(* goes through the overridden methods, which record their own misses.     *)
(*                                                                         *)
(* A host's overrides are external, modelled as the repository's test      *)
(* doubles have them: a granular answer comes from the host's cache and is *)
(* recorded as a miss when cold; shapeOf() is a classifier by name that    *)
(* needs no cache.  The two lists are one set, told apart by their keys.   *)
(***************************************************************************)
EXTENDS Naturals

CONSTANTS
    Calls,      \* keys of template calls (callKey)
    TableKeys,  \* folded table names
    Shaped      \* calls whose shape the host knows without a fetch

ASSUME KeysAssumption == Calls \cap TableKeys = {} /\ Shaped \subseteq Calls

Keys == Calls \cup TableKeys

VARIABLES
    cached,     \* keys the host's caches answer (external to the class)
    missed,     \* _misses and _tableMisses
    seen,       \* missSeen and tableMissSeen, the guards of the lists
    version,    \* _version
    pass,       \* inFlight: null, pending, or settled and not yet forgotten
    pending,    \* pendingCalls and pendingTables of the pass in flight
    hooks,      \* the fetch hooks Promise.all is still waiting for
    detached,   \* keys of a hook that outlived the pass it belonged to
    told,       \* history: keys some caller got no full answer for since
                \* the version last moved
    abandoned   \* history: keys handed to a pass that rejected

providerVars == <<cached, missed, seen, version, pass, pending, hooks,
                  detached, told, abandoned>>

FetchExpansions == "fetchExpansions"
FetchTables == "fetchTables"
Hooks == {FetchExpansions, FetchTables}
KeysOf(h) == IF h = FetchExpansions THEN Calls ELSE TableKeys

Idle == "idle"
Fetching == "fetching"
Found == "found"
Nothing == "nothing"
Rejected == "rejected"
Settled == {Found, Nothing, Rejected}

ProviderInit ==
    /\ cached \in SUBSET Keys
    /\ missed = {} /\ seen = {}
    /\ version = 0
    /\ pass = Idle /\ pending = {} /\ hooks = {} /\ detached = {}
    /\ told = {} /\ abandoned = {}

-----------------------------------------------------------------------------
(* expansion() of a call, or columnsFor() a table: a cold key is recorded  *)
(* unless its guard set holds it.                                          *)

Recorded(list, ks) == list \cup ((ks \ cached) \ seen)

Consult(k) ==
    /\ missed' = Recorded(missed, {k})
    /\ seen' = seen \cup ({k} \ cached)
    /\ told' = told \cup ({k} \ cached)
    /\ UNCHANGED <<cached, version, pass, pending, hooks, detached, abandoned>>

(* prime() with no pass in flight and something recorded.  The synchronous *)
(* part of drain() runs in the same turn: the lists and their guards are   *)
(* emptied, and a hook is called for each kind that had a miss.            *)

SpliceGuards == {}

Prime ==
    /\ pass = Idle
    /\ missed # {}
    /\ pass' = Fetching
    /\ pending' = missed
    /\ missed' = {}
    /\ seen' = SpliceGuards
    /\ hooks' = {h \in Hooks : missed \cap KeysOf(h) # {}}
    /\ UNCHANGED <<cached, version, detached, told, abandoned>>

(* A hook fills the host's cache key by key, also after its pass is gone.  *)

HostWarms(k) ==
    /\ k \notin cached
    /\ k \in detached \/ \E h \in hooks : k \in pending \cap KeysOf(h)
    /\ cached' = cached \cup {k}
    /\ UNCHANGED <<missed, seen, version, pass, pending, hooks, detached, told, abandoned>>

HookResolves(h) ==
    /\ h \in hooks
    /\ hooks' = hooks \ {h}
    /\ UNCHANGED <<cached, missed, seen, version, pass, pending, detached, told, abandoned>>

(* The first hook that rejects rejects Promise.all, and with it drain().   *)
(* What was spliced out of the lists is not put back; the other hook, if   *)
(* it is still running, keeps filling the cache for nobody.                *)

HookRejects(h) ==
    /\ h \in hooks
    /\ pass' = Rejected
    /\ hooks' = {}
    /\ detached' = detached \cup UNION {pending \cap KeysOf(g) : g \in hooks \ {h}}
    /\ abandoned' = abandoned \cup pending
    /\ pending' = {}
    /\ UNCHANGED <<cached, missed, seen, version, told>>

(* drain() resumes when every hook has resolved.  The re-probe records a   *)
(* key that is still cold again; expansion() of a call with a shape is     *)
(* never undefined, whatever its other answers are.                        *)

Answered(ks) == (ks \cap cached) \cup (ks \cap Shaped)

DrainTruncates == pending \ cached      \* mutant: the list of CallbackSchema
DrainedList == Recorded(missed, pending)

BumpNever == version                    \* mutant: the bump is missing
BumpOnAnswer == IF Answered(pending) # {} THEN version + 1 ELSE version

Drain ==
    /\ pass = Fetching
    /\ hooks = {}
    /\ missed' = DrainedList
    /\ seen' = seen \cup (pending \ cached)
    /\ version' = BumpOnAnswer
    /\ told' = IF version' # version THEN {} ELSE told
    /\ pass' = IF Answered(pending) # {} THEN Found ELSE Nothing
    /\ pending' = {}
    /\ UNCHANGED <<cached, hooks, detached, abandoned>>

(* The .finally() callback.                                                *)

ForgetEarly == pass # Idle      \* mutant: inFlight is cleared beside the await
ForgetResolved == pass \in {Found, Nothing}     \* mutant: a .then() callback
Forgettable == pass \in Settled

Forget ==
    /\ Forgettable
    /\ pass' = Idle
    /\ UNCHANGED <<cached, missed, seen, version, pending, hooks, detached, told, abandoned>>

ProviderNext ==
    \/ \E k \in Keys : Consult(k) \/ HostWarms(k)
    \/ \E h \in Hooks : HookResolves(h) \/ HookRejects(h)
    \/ Prime
    \/ Drain
    \/ Forget

ProviderSpec == ProviderInit /\ [][ProviderNext]_providerVars
(* The hooks of a pass come to an end, one way or the other; the host      *)
(* primes after every publish, and promises are resumed.                   *)
ProviderFairness ==
    /\ WF_providerVars(Prime)
    /\ \A h \in Hooks : WF_providerVars(HookResolves(h) \/ HookRejects(h))
    /\ WF_providerVars(Drain)
    /\ WF_providerVars(Forget)

LiveProviderSpec == ProviderSpec /\ ProviderFairness

-----------------------------------------------------------------------------
(* The type invariant: a hook is awaited only by a pass in flight, and     *)
(* only for a kind of key that the pass carries.                           *)
ProviderTypeOK ==
    /\ cached \subseteq Keys /\ missed \subseteq Keys /\ seen \subseteq Keys
    /\ version \in Nat
    /\ pass \in {Idle, Fetching} \cup Settled
    /\ pending \subseteq Keys /\ detached \subseteq Keys
    /\ told \subseteq Keys /\ abandoned \subseteq Keys
    /\ hooks \subseteq {h \in Hooks : pending \cap KeysOf(h) # {}}
    /\ pass # Fetching => hooks = {} /\ pending = {}

(* Every key somebody got no full answer for since the version last moved  *)
(* is on a list, or in the hands of the pass in flight, or was in the      *)
(* hands of a pass that rejected: rejection is the only way a miss gets    *)
(* lost.  Unlike CallbackSchema, a miss recorded during a fetch survives.  *)
NothingElseIsLost == told \subseteq missed \cup pending \cup abandoned

(* The guard and the list it guards stay in step across passes. *)
GuardsMatchLists == seen = missed

(* No miss starves: whatever the host's hooks do with the passes before    *)
(* it, rejections included, and however the two kinds are mixed, a listed  *)
(* key is handed to a pass.                                                *)
ListedKeysAreFetched ==
    \A k \in Keys : k \in missed ~> k \in pending

(* An answer that has gone stale is corrected by a bump, unless a pass     *)
(* that carried its key rejected.                                          *)
StaleAnswersGetCorrected ==
    \A k \in Keys : (k \in told \cap cached) ~> (k \notin told \/ k \in abandoned)
=============================================================================
