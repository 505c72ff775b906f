--------------------------- MODULE MCTaskContexts ---------------------------
(***************************************************************************)
(* A leader, a thread of its and a process that it forks.                  *)
(***************************************************************************)
EXTENDS TaskContexts

CONSTANTS lead, thread, fork
=============================================================================
