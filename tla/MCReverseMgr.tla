---------------------------- MODULE MCReverseMgr ----------------------------
EXTENDS ReverseMgr
CONSTANTS b1, b2
MCHits == [b \in Bps |-> IF b = b1 THEN {1, 3, 4} ELSE {1, 5}]
MCNoHits == [b \in Bps |-> {}]
Both == BOOLEAN
Kept == {TRUE}
=============================================================================
