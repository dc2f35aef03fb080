--------------------------- MODULE PublishedFacts ---------------------------
(***************************************************************************)
(* What the directory of one task promises its readers, whatever happens   *)
(* to the runs that write it: the facts change only while no success is    *)
(* claimed of them, a success is claimed only of the facts in place, and   *)
(* the index lists exactly what is claimed when it is written.             *)
(***************************************************************************)
CONSTANT Manifests

VARIABLES
    facts,      \* the facts that can be read: at most one manifest's
    claim,      \* the manifest a success is claimed of, if any
    index       \* what the index lists

Init == facts = {} /\ claim = {} /\ index = {}

Replace ==
    /\ claim = {}
    /\ facts' \in {{}} \cup {{m} : m \in Manifests}
    /\ UNCHANGED <<claim, index>>

Announce ==
    /\ claim = {} /\ facts # {}
    /\ claim' = facts
    /\ UNCHANGED <<facts, index>>

Withdraw == claim' = {} /\ UNCHANGED <<facts, index>>

List == index' = claim /\ UNCHANGED <<facts, claim>>

Next == Replace \/ Announce \/ Withdraw \/ List

Spec == Init /\ [][Next]_<<facts, claim, index>>
=============================================================================
