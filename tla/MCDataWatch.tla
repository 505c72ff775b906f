---------------------------- MODULE MCDataWatch ----------------------------
(* Small instances of DataWatch. *)
EXTENDS DataWatch

MCMarks == {<<>>, <<[start |-> 1, length |-> 2]>>}
=============================================================================
