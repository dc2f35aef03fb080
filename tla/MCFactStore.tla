---------------------------- MODULE MCFactStore ----------------------------
(* Three fact files, two extractions, every operation may fail. *)
EXTENDS FactStore
=============================================================================
