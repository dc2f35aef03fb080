--------------------------- MODULE MCSqlDocument ---------------------------
(* TLC instance of SqlDocument.  Statements qa and qab read table a, qb    *)
(* reads none.                                                             *)
EXTENDS SqlDocument, TLC

CONSTANTS qa, qb, qab, a, d1, lazy

MCReads == [t \in Texts |-> CASE t = qa -> {a} [] t = qb -> {} [] t = qab -> {a}]
VersionBound == \A s \in Schemas : provVersion[s] <= 1
=============================================================================
