----------------------------- MODULE FuzzRounds -----------------------------
(***************************************************************************)
(* What a fuzzing session promises to AFL: inputs are taken one at a time  *)
(* and in order, each gets one result, the result of an input comes before *)
(* the next input is taken, and after a result that announces a restart    *)
(* no input is taken.  How a result comes about is not said.               *)
(***************************************************************************)
EXTENDS Naturals, Sequences

CONSTANT Status

VARIABLES
    taken,     \* how many inputs were taken from AFL
    results    \* the results sent, in order

Result == [input : Nat, status : Status, restart : BOOLEAN]

Init == taken = 0 /\ results = <<>>

Take ==
    /\ taken = Len(results)
    /\ taken > 0 => ~results[taken].restart
    /\ taken' = taken + 1
    /\ UNCHANGED results

Answer(r) ==
    /\ taken = Len(results) + 1
    /\ r.input = taken
    /\ results' = Append(results, r)
    /\ UNCHANGED taken

Next == Take \/ \E s \in Status, again \in BOOLEAN :
                    Answer([input |-> taken, status |-> s, restart |-> again])

Spec == Init /\ [][Next]_<<taken, results>>
=============================================================================
