------------------------- MODULE MCTemplateProvider -------------------------
(* TLC instance of TemplateProvider: a dbt ref whose shape the host knows  *)
(* by its name, a macro, and a physical table.                             *)
EXTENDS TemplateProvider

CONSTANTS ref, macro, table

MCCalls == {ref, macro}
MCTables == {table}
MCShaped == {ref}

(* No action reads the version; that it moved shows in its last bit.       *)
VersionBit == <<cached, missed, seen, version % 2, pass, pending, hooks,
                detached, told, abandoned>>
=============================================================================
