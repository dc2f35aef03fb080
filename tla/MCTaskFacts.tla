---------------------------- MODULE MCTaskFacts ----------------------------
(* TLC instances of TaskFacts: two contexts a task is analysed in, and two *)
(* outputs, so that the analysis of a context may drift.                   *)
EXTENDS TaskFacts, TLC

CONSTANTS c1, c2, o1, o2

RetireFails == {"retire"}
AllFaults == {"status", "retire", "install", "discard"}
Interchangeable == Permutations({c1, c2}) \cup Permutations({o1, o2})
=============================================================================
