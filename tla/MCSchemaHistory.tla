--------------------------- MODULE MCSchemaHistory ---------------------------
(* Bounded instances of SchemaHistory for TLC.                             *)
EXTENDS SchemaHistory
=============================================================================
