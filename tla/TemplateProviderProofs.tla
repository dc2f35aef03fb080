----------------------- MODULE TemplateProviderProofs -----------------------
(* What rejections can lose, and what nothing else can, for any set of     *)
(* calls and tables and any host.                                          *)
EXTENDS TemplateProvider, TLAPS

ProviderInvariant == ProviderTypeOK /\ GuardsMatchLists /\ NothingElseIsLost

(* The pass states are different strings. *)
LEMMA ProviderPassStates ==
    /\ Idle \notin Settled /\ Fetching \notin Settled /\ Idle # Fetching
    /\ Rejected \in Settled /\ Found \in Settled /\ Nothing \in Settled
    /\ FetchExpansions # FetchTables
BY DEF Idle, Fetching, Settled, Found, Nothing, Rejected, FetchExpansions, FetchTables

(* A provider starts with both lists empty and nobody told anything. *)
LEMMA ProviderInvariantInit == ProviderInit => ProviderInvariant
BY ProviderPassStates
   DEF ProviderInit, ProviderInvariant, ProviderTypeOK, GuardsMatchLists, NothingElseIsLost

(* Recording keys whose guard is in step with the list lists exactly them. *)
LEMMA RecordingIsExact ==
    ASSUME NEW ks, GuardsMatchLists
    PROVE  /\ Recorded(missed, ks) = missed \cup (ks \ cached)
           /\ seen \cup (ks \ cached) = Recorded(missed, ks)
BY DEF Recorded, GuardsMatchLists

(* Every step keeps the lists exact and loses only what a rejection drops. *)
LEMMA ProviderInvariantStep ==
    ProviderInvariant /\ [ProviderNext]_providerVars => ProviderInvariant'
<1> SUFFICES ASSUME ProviderInvariant, [ProviderNext]_providerVars
             PROVE  ProviderInvariant'
    OBVIOUS
<1> USE ProviderPassStates DEF ProviderInvariant
<1>1. ASSUME NEW k \in Keys, Consult(k)
      PROVE  ProviderInvariant'
  <2>1. /\ missed' = missed \cup ({k} \ cached)
        /\ seen' = missed'
      BY <1>1, RecordingIsExact DEF Consult
  <2>2. ProviderTypeOK'
      BY <1>1, <2>1 DEF Consult, ProviderTypeOK, GuardsMatchLists
  <2>3. GuardsMatchLists'
      BY <2>1 DEF GuardsMatchLists
  <2>4. NothingElseIsLost'
      BY <1>1, <2>1 DEF Consult, NothingElseIsLost
  <2> QED  BY <2>2, <2>3, <2>4
<1>2. CASE Prime
  <2>1. ProviderTypeOK'
      BY <1>2 DEF Prime, SpliceGuards, ProviderTypeOK
  <2>2. GuardsMatchLists'
      BY <1>2 DEF Prime, SpliceGuards, GuardsMatchLists
  <2>3. NothingElseIsLost'
      BY <1>2 DEF Prime, ProviderTypeOK, NothingElseIsLost
  <2> QED  BY <2>1, <2>2, <2>3
<1>3. ASSUME NEW k \in Keys, HostWarms(k)
      PROVE  ProviderInvariant'
  BY <1>3 DEF HostWarms, ProviderTypeOK, GuardsMatchLists, NothingElseIsLost
<1>4. ASSUME NEW h \in Hooks, HookResolves(h)
      PROVE  ProviderInvariant'
  BY <1>4 DEF HookResolves, ProviderTypeOK, GuardsMatchLists, NothingElseIsLost
<1>5. ASSUME NEW h \in Hooks, HookRejects(h)
      PROVE  ProviderInvariant'
  <2>1. ProviderTypeOK'
      BY <1>5 DEF HookRejects, ProviderTypeOK
  <2>2. GuardsMatchLists'
      BY <1>5 DEF HookRejects, GuardsMatchLists
  <2>3. NothingElseIsLost'
      BY <1>5 DEF HookRejects, NothingElseIsLost
  <2> QED  BY <2>1, <2>2, <2>3
<1>6. CASE Drain
  <2>1. /\ missed' = missed \cup (pending \ cached)
        /\ seen' = missed'
      BY <1>6, RecordingIsExact DEF Drain, DrainedList
  <2>2. ProviderTypeOK'
      BY <1>6, <2>1 DEF Drain, BumpOnAnswer, ProviderTypeOK, GuardsMatchLists
  <2>3. GuardsMatchLists'
      BY <2>1 DEF GuardsMatchLists
  <2>4. NothingElseIsLost'
    <3>1. CASE version' = version
      <4>1. pending \cap cached = {}
          BY <1>6, <3>1 DEF Drain, BumpOnAnswer, Answered, ProviderTypeOK
      <4> QED  BY <1>6, <2>1, <3>1, <4>1 DEF Drain, NothingElseIsLost
    <3>2. CASE version' # version
        BY <1>6, <3>2 DEF Drain, NothingElseIsLost
    <3> QED  BY <3>1, <3>2
  <2> QED  BY <2>2, <2>3, <2>4
<1>7. CASE Forget
  BY <1>7 DEF Forget, Forgettable, ProviderTypeOK, GuardsMatchLists, NothingElseIsLost
<1>8. CASE UNCHANGED providerVars
  BY <1>8 DEF providerVars, ProviderTypeOK, GuardsMatchLists, NothingElseIsLost
<1> QED
  BY <1>1, <1>2, <1>3, <1>4, <1>5, <1>6, <1>7, <1>8 DEF ProviderNext

(* The inductive invariant holds of every behaviour. *)
THEOREM ProviderInvariantHolds == ProviderSpec => []ProviderInvariant
BY ProviderInvariantInit, ProviderInvariantStep, PTL DEF ProviderSpec

(* Lists, guards and the pass in flight are of their types: a hook is      *)
(* awaited only by a pass in flight, and for a kind of key it carries.     *)
THEOREM ProviderTypeCorrect == ProviderSpec => []ProviderTypeOK
BY ProviderInvariantHolds, PTL DEF ProviderInvariant

(* The record guards of both lists stay exact across splices, re-probes    *)
(* and rejections.                                                         *)
THEOREM GuardsStayExact == ProviderSpec => []GuardsMatchLists
BY ProviderInvariantHolds, PTL DEF ProviderInvariant

(* A key somebody was not fully answered for since the last bump is        *)
(* listed, carried by the pass in flight, or was carried by a pass that    *)
(* rejected: no interleaving of lookups with a fetch loses a miss.         *)
THEOREM OnlyRejectionLosesMisses == ProviderSpec => []NothingElseIsLost
BY ProviderInvariantHolds, PTL DEF ProviderInvariant
=============================================================================
