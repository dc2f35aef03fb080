---------------------------- MODULE MCBatchMerge ----------------------------
(* Two tasks; bundles p and q are of one SQL text, r of another.           *)
EXTENDS BatchMerge

CONSTANTS p, q, r, sql1, sql2

MCSqlOf == [b \in Bundles |-> IF b = r THEN sql2 ELSE sql1]
=============================================================================
