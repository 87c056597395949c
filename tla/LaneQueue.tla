----------------------------- MODULE LaneQueue -----------------------------
(* The queue of a session's lane (internal/daemon delivery_order.go,        *)
(* sessionLane.jobs): a slice of jobs kept in ascending arrival order.  Of  *)
(* a job only its arrival number is kept.                                   *)
EXTENDS Naturals, Sequences, Functions

\* The order join keeps: strictly ascending, so that no arrival is queued twice.
Ascending(q) == \A i, k \in 1 .. Len(q) : i < k => q[i] < q[k]

\* sort.Search: the place of the first queued arrival not below n, or the one after the last.
Place(q, n) ==
    LET first == {k \in 1 .. Len(q) : q[k] >= n /\ \A i \in 1 .. (k - 1) : q[i] < n}
    IN  IF first = {} THEN Len(q) + 1 ELSE CHOOSE k \in first : TRUE

\* join: the queue with n at its place, unless it is queued already.
Insert(q, n) ==
    IF n \in Range(q) THEN q
    ELSE SubSeq(q, 1, Place(q, n) - 1) \o <<n>> \o SubSeq(q, Place(q, n), Len(q))

\* settle: the queue without its entry for n.
Without(q, n) ==
    IF n \notin Range(q) THEN q
    ELSE LET k == CHOOSE i \in 1 .. Len(q) : q[i] = n
         IN  SubSeq(q, 1, k - 1) \o SubSeq(q, k + 1, Len(q))

\* join at a bound: the queue without its latest arrival.
Front(q) == SubSeq(q, 1, Len(q) - 1)
=============================================================================
