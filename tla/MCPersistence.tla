---------------------------- MODULE MCPersistence ----------------------------
(* One edit: edits do not depend on each other.  Two days of three hours. *)
EXTENDS Persistence

CONSTANT e1
=============================================================================
