-------------------------- MODULE MCEditorSession --------------------------
(* TLC instances of EditorSession.  Statement qa reads a table under two   *)
(* spellings, a and A; qghost reads a table that exists nowhere.           *)
EXTENDS EditorSession

CONSTANTS qa, qghost, a, A, ghost, d1, d2, catalog, open

MCReads == [t \in Texts |-> CASE t = qa -> {a, A} [] t = qghost -> {ghost}]
MCFold == [n \in Names |-> IF n = A THEN a ELSE n]
=============================================================================
