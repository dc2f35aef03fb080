--------------------------- MODULE MCTaskResolver ---------------------------
(* Three tables, two parts, one retry.                                     *)
EXTENDS TaskResolver
=============================================================================
