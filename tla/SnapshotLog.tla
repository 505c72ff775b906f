----------------------------- MODULE SnapshotLog -----------------------------
(***************************************************************************)
(* What the recorder of ReverseMgr promises, whatever is skipped to,       *)
(* reversed or stopped: time moves only by executing one instruction or by *)
(* going to a moment that was recorded, and the record of moments is a log *)
(* that grows at its far end only, from the origin until it is discarded.  *)
(***************************************************************************)
EXTENDS Integers

CONSTANTS
  Period,   \* cycles between two recorded moments
  NoCycle   \* the origin when nothing is recorded

VARIABLES now, origin, log

vars == <<now, origin, log>>

Recording == origin # NoCycle

Init == now = 0 /\ origin = NoCycle /\ log = {}

Execute == now' = now + 1 /\ UNCHANGED <<origin, log>>

Begin == ~Recording /\ origin' = now /\ log' = {} /\ UNCHANGED now

Discard == origin' = NoCycle /\ log' = {} /\ UNCHANGED now

Record ==
  /\ Recording
  /\ now > origin /\ \A c \in log : c < now
  /\ now % Period = 0
  /\ log' = log \cup {now}
  /\ UNCHANGED <<now, origin>>

GoBack ==
  /\ Recording
  /\ now' \in log \cup {origin}
  /\ UNCHANGED <<origin, log>>

Next == Execute \/ Begin \/ Discard \/ Record \/ GoBack

Spec == Init /\ [][Next]_vars
=============================================================================
