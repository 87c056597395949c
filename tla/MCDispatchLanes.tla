--------------------------- MODULE MCDispatchLanes ---------------------------
(* DispatchLanes on a small instance.  Deep: one session has all its arrivals, *)
(* each accepted once, the last one alone and while the ring is empty, and no  *)
(* end.  Wide: each session has one arrival, and there are repeated accepts    *)
(* and session ends.  Faulty: each session has one arrival, and a publication  *)
(* fails.                                                                      *)
EXTENDS DispatchLanes, TLC

Symmetry == Permutations(Worker) \cup Permutations(Session)

Deep ==
    /\ budget.copy = MaxCopies /\ budget.forget = MaxForgets /\ budget.fail = MaxFailures
    /\ Cardinality({s \in Session : last[s] > 0}) <= 1
    /\ \A j \in accepting : j[2] = MaxArrival => accepting = {j} /\ ring = <<>>

Wide == budget.fail = MaxFailures /\ \A s \in Session : last[s] <= 1

Faulty ==
    /\ budget.copy = MaxCopies /\ budget.forget = MaxForgets
    /\ \A s \in Session : last[s] <= 1

Scenario == Deep \/ Wide \/ Faulty
=============================================================================
