------------------------------ MODULE MCPayload ------------------------------
(* PayloadBudget for TLC, with requests that differ in their budget: a pinned *)
(* record, decisions, and a pointer that is shortened before it is refused.   *)
EXTENDS PayloadBudget

CONSTANT Budget

Rec(id, n, fixed) == [id |-> id, cost |-> Cost(n, n), bare |-> Cost(n, n), fixed |-> fixed]
Pointer == [Rec("p1", 5, FALSE) EXCEPT !.bare = Cost(2, 2)]
Decided == {<<>>, <<Rec("d1", 2, FALSE)>>, <<Rec("d1", 2, FALSE), Rec("d2", 2, FALSE)>>}
Sections(i, d, p) ==
    [k \in Kind |-> CASE k = "invariants" -> i [] k = "decisions" -> d [] k = "pointers" -> p
                     [] k = "retrieval" -> <<Rec("r", 2, TRUE)>> [] OTHER -> <<>>]
Asked == {[all |-> Sections(i, d, p), budget |-> b, surplus |-> 0, drops |-> <<>>, lost |-> FALSE] :
            i \in {<<>>, <<Rec("i1", 3, TRUE)>>}, d \in Decided, p \in {<<>>, <<Pointer>>},
            b \in Budget}
=============================================================================
