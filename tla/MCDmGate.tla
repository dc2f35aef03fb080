------------------------------ MODULE MCDmGate ------------------------------
(* Every lineage of three tables, of any kinds, cycles included, and one   *)
(* or two seeds.                                                           *)
EXTENDS DmGate

OneOrTwo == {{1}, {1, 2}}
EveryKind == AllKinds
=============================================================================
