-------------------------- MODULE MCSyscallManager --------------------------
(***************************************************************************)
(* A request of runToIO and two dmods with the same operation, hence with  *)
(* the same instance name: dmods ask for open and read, runToIO for read   *)
(* and recv, so that a list may be served in part, in full or not at all.  *)
(***************************************************************************)
EXTENDS SyscallManager, TLC

CONSTANTS open, read, recv, default, resim, runToIO, dmod1, dmod2

MCCalls == [p \in Param |-> IF p \in Dmod THEN <<open, read>> ELSE <<read, recv>>]

MCNames == [p \in Param |-> IF p \in Dmod THEN open ELSE p]

MCOne == <<resim>>

MCTwo == <<default, resim>>

\* The two dmods are alike; how objects are numbered does not matter to a step.
MCSymmetry == Permutations(Dmod)
=============================================================================
