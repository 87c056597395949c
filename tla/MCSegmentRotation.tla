------------------------ MODULE MCSegmentRotation ------------------------
(* Small instances of SegmentRotation.                                    *)
EXTENDS SegmentRotation, TLC

\* Two deliveries of one session and one of another.
MCSessionOf == [d \in Delivery |-> IF d = 3 THEN 2 ELSE 1]

Callers == Permutations(Caller)

Busy == Cardinality({c \in Caller : ~At(c, "idle")})

\* Two concurrent calls with a crash or a failure, one call with two of them, or one call
\* with one of them and a harvest.
Scenario == IF passes = 0 THEN Busy + faults <= 3 ELSE Busy + faults <= 2 /\ denied = {}
=============================================================================
