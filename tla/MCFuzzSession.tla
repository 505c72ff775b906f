--------------------------- MODULE MCFuzzSession ---------------------------
(***************************************************************************)
(* Small fuzzing sessions: one or two blocks, one page, two inputs.        *)
(***************************************************************************)
EXTENDS FuzzSession

CONSTANTS b1, b2, p1
=============================================================================
