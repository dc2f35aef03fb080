---------------------------- MODULE AtomicFacts ----------------------------
(***************************************************************************)
(* What the fact store of titans_cognition promises its readers, whatever  *)
(* happens to a run of the writer: the fact files change together, to one  *)
(* extraction; if a run is disturbed, each single file is still the old    *)
(* one, the new one, or missing, and the store is known to be hurt until a *)
(* later run replaces all of it.                                           *)
(***************************************************************************)
CONSTANTS Files, Extractions

VARIABLES
    facts,      \* for each file, the extraction it holds: a set of at most one
    hurt        \* whether a disturbed run has been the last to touch the store

AllOf(x) == [f \in Files |-> {x}]
Absent == [f \in Files |-> {}]

Init == facts \in {Absent} \cup {AllOf(x) : x \in Extractions} /\ hurt = FALSE

Replace(x) == facts' = AllOf(x) /\ hurt' = FALSE

Disturb(x) ==
    /\ facts' \in [Files -> SUBSET Extractions]
    /\ \A f \in Files : facts'[f] \in {facts[f], {}, {x}}
    /\ hurt' = TRUE

Next == \E x \in Extractions : Replace(x) \/ Disturb(x)

Spec == Init /\ [][Next]_<<facts, hurt>>
=============================================================================
