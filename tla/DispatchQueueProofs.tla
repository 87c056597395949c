------------------------ MODULE DispatchQueueProofs ------------------------
(* Proofs about the lanes' queues in DispatchLanes, for any sessions,       *)
(* workers, capacities and numbers of failures: the queues stay in arrival  *)
(* order, within their bounds and counted, and every pending job is named.  *)
EXTENDS DispatchLanesProofs, LaneQueueProofs

\* dispatchLanes.held is the number of queued jobs.
Counted == IsFiniteSet(Queued) /\ held = Cardinality(Queued) /\ held <= LaneCapacity

\* The queues are in order and within their session's bound; a session without a lane has none.
InOrder ==
    \A s \in Session :
        /\ Ascending(jobs[s]) /\ Len(jobs[s]) <= LaneSessionCapacity
        /\ s \notin lanes => jobs[s] = << >>

QueueInv == Counted /\ InOrder

LEMMA ArrivalSet == Arrival \in SUBSET Nat
  BY Bounds

LEMMA QueueInvInit == Init => QueueInv
  <1> SUFFICES ASSUME Init PROVE QueueInv
    OBVIOUS
  <1>1. Range(<< >>) = {} /\ Ascending(<< >>) /\ Len(<< >>) = 0
    BY DEF Range, Ascending
  <1>2. Queued = {}
    BY <1>1 DEF Init, Queued, Job
  <1>3. Counted
    BY <1>2, FS_EmptySet, Bounds DEF Init, Counted
  <1>4. InOrder
    BY <1>1, Bounds DEF Init, InOrder
  <1> QED  BY <1>3, <1>4 DEF QueueInv

\* Replacing one session's queue by one in order and within its bound keeps the rest in order.
LEMMA InOrderAfter ==
    ASSUME LaneInv, QueueInv, NEW s \in Session, NEW r \in Seq(Arrival), Ascending(r),
           Len(r) <= LaneSessionCapacity, jobs' = [jobs EXCEPT ![s] = r],
           lanes' \subseteq Session, lanes \ {s} \subseteq lanes', r # << >> => s \in lanes'
    PROVE  InOrder'
  BY DEF LaneInv, LaneTypes, QueueInv, InOrder

LEMMA QueuesKept ==
    ASSUME LaneInv, QueueInv, UNCHANGED <<jobs, held>>, lanes' \subseteq Session,
           \A s \in lanes \ lanes' : jobs[s] = << >>
    PROVE  QueueInv'
  BY DEF QueueInv, Counted, Queued, InOrder

\* join: the arrival is already queued, finds room, or takes the place of the last one.
LEMMA JoinKeepsQueues ==
    ASSUME LaneInv, QueueInv, NEW w \in Worker, Join(w)
    PROVE  QueueInv'
  <1> DEFINE s == at[w]
             n == cur[w]
             q == jobs[s]
  <1>1. s \in Session /\ n \in Arrival /\ q \in Seq(Arrival) /\ Ascending(q)
    BY DEF LaneInv, LaneTypes, WorkShape, QueueInv, InOrder, Join
  <1>2. Len(q) \in Nat /\ Len(q) <= LaneSessionCapacity /\ (s \notin lanes => q = << >>)
    BY <1>1, ArrivalSet, InQueue DEF QueueInv, InOrder
  <1>3. IsFiniteSet(Queued) /\ held = Cardinality(Queued) /\ held \in Nat /\ held <= LaneCapacity
    BY FS_CardinalityType DEF QueueInv, Counted
  <1>4. lanes \subseteq Session /\ jobs \in [Session -> Seq(Arrival)]
    BY DEF LaneInv, LaneTypes
  <1>5. CASE Refuses(s, n)
    BY <1>4, <1>5, QueuesKept DEF Join, JoinRefused, queueVars
  <1>6. CASE ~Refuses(s, n)
    <2> DEFINE evicted == IF Evicts(s, n) THEN {q[Len(q)]} ELSE {}
               kept == IF Evicts(s, n) THEN Front(q) ELSE q
    <2>1. /\ jobs' = [jobs EXCEPT ![s] = Insert(kept, n)]
          /\ held' = held - Cardinality(evicted) + (IF n \in Range(kept) THEN 0 ELSE 1)
          /\ lanes' = lanes \cup {s}
      BY <1>6 DEF Join, JoinQueued
    <2>2. CASE n \in Range(q)
      <3>1. ~Evicts(s, n)
        BY <2>2 DEF Evicts
      <3>2. evicted = {} /\ kept = q /\ Insert(kept, n) = q
        BY <3>1, <2>2 DEF Insert
      <3>3. jobs' = jobs /\ held' = held
        <4>1. jobs' = [jobs EXCEPT ![s] = jobs[s]]
          BY <2>1, <3>2, Zenon
        <4>2. jobs' = jobs
          BY <1>4, <4>1
        <4>3. held' = held - 0 + 0
          BY <2>1, <2>2, <3>2, FS_EmptySet, Zenon
        <4> QED  BY <1>3, <4>2, <4>3
      <3> QED  BY <1>1, <1>4, <2>1, <3>3, QueuesKept
    <2>3. CASE n \notin Range(q) /\ ~Evicts(s, n)
      <3>1. held < LaneCapacity /\ Len(q) < LaneSessionCapacity
        <4>1. CASE s \in lanes
          <5>1. \A m \in Range(q) : m \in Nat /\ n \in Nat
            BY <1>1, ArrivalSet, InQueue, Bounds, Zenon
          <5>2. ~Full(s)
            BY <1>6, <2>3, <4>1, <5>1 DEF Refuses, Evicts
          <5> QED  BY <1>2, <1>3, <5>2, Bounds DEF Full
        <4>2. CASE s \notin lanes
          BY <1>2, <1>3, <1>6, <4>2, Bounds, EmptySeq DEF Refuses
        <4> QED  BY <4>1, <4>2
      <3> DEFINE r == Insert(q, n)
      <3>2. /\ r \in Seq(Arrival) /\ Len(r) = Len(q) + 1 /\ Ascending(r)
            /\ \A m : m \in Range(r) <=> m = n \/ m \in Range(q)
        BY <1>1, <2>3, ArrivalSet, InsertKeepsOrder, Zenon
      <3> HIDE DEF r
      <3>3. jobs' = [jobs EXCEPT ![s] = r] /\ held' = held + 1
        BY <1>3, <2>1, <2>3, FS_EmptySet DEF r
      <3>4. Queued' = Queued \cup {<<s, n>>} /\ <<s, n>> \notin Queued
        <4>1. Queued' = {j \in Queued : j[1] # s} \cup {j \in Job : j[1] = s /\ j[2] \in Range(r)}
          BY <1>1, <3>3, QueuedAfter, Zenon
        <4>2. <<s, n>> \in Job
          BY <1>1 DEF Job, Arrival
        <4> QED  BY <1>1, <2>3, <3>2, <4>1, <4>2 DEF Queued, Job
      <3>5. Counted'
        <4>1. IsFiniteSet(Queued') /\ Cardinality(Queued') = Cardinality(Queued) + 1
          BY <1>3, <3>4, FS_AddElement, Zenon
        <4> QED  BY <1>3, <3>1, <3>3, <4>1, Bounds DEF Counted
      <3>6. InOrder'
        <4>1. Len(r) <= LaneSessionCapacity
          BY <1>2, <3>1, <3>2, Bounds
        <4>2. lanes' \subseteq Session /\ lanes \ {s} \subseteq lanes' /\ s \in lanes'
          BY <1>1, <1>4, <2>1
        <4> QED  BY <1>1, <3>2, <3>3, <4>1, <4>2, InOrderAfter, Zenon
      <3> QED  BY <3>5, <3>6 DEF QueueInv
    <2>4. CASE n \notin Range(q) /\ Evicts(s, n)
      <3> DEFINE x == q[Len(q)]
                 f == Front(q)
                 r == Insert(f, n)
      <3>1. q # << >>
        BY <1>1, <2>4, ArrivalSet, InQueue, EmptySeq DEF Evicts
      <3>2. /\ f \in Seq(Arrival) /\ Len(f) = Len(q) - 1 /\ Ascending(f) /\ x \in Range(q)
            /\ \A m : m \in Range(f) <=> m # x /\ m \in Range(q)
        BY <1>1, <3>1, ArrivalSet, FrontKeepsOrder
      <3> HIDE DEF f
      <3>3. /\ r \in Seq(Arrival) /\ Len(r) = Len(f) + 1 /\ Ascending(r)
            /\ \A m : m \in Range(r) <=> m = n \/ m \in Range(f)
        BY <1>1, <2>4, <3>2, ArrivalSet, InsertKeepsOrder, Zenon
      <3> HIDE DEF r
      <3>4. jobs' = [jobs EXCEPT ![s] = r] /\ held' = held
        <4>1. n \notin Range(f)
          BY <2>4, <3>2
        <4>2. evicted = {x} /\ kept = f
          BY <2>4 DEF f
        <4>3. jobs' = [jobs EXCEPT ![s] = r]
          BY <2>1, <4>2, Zenon DEF r
        <4>4. held' = held - 1 + 1
          BY <2>1, <4>1, <4>2, FS_Singleton, Zenon
        <4> QED  BY <1>3, <4>3, <4>4
      <3> HIDE DEF x
      <3>5. /\ Queued' = (Queued \ {<<s, x>>}) \cup {<<s, n>>}
            /\ <<s, n>> \notin Queued /\ <<s, x>> \in Queued
        <4>1. Queued' = {j \in Queued : j[1] # s} \cup {j \in Job : j[1] = s /\ j[2] \in Range(r)}
          BY <1>1, <3>4, QueuedAfter, Zenon
        <4>2. <<s, n>> \in Job /\ <<s, x>> \in Job
          <5>1. x \in Arrival
            BY <1>1, <3>2, ArrivalSet, InQueue
          <5> QED  BY <1>1, <5>1 DEF Job, Arrival
        <4> QED  BY <1>1, <2>4, <3>2, <3>3, <4>1, <4>2 DEF Queued, Job
      <3>6. /\ IsFiniteSet(Queued \ {<<s, x>>})
            /\ Cardinality(Queued \ {<<s, x>>}) = Cardinality(Queued) - 1
        BY <1>3, <3>5, FS_RemoveElement
      <3>7. Counted'
        <4>1. <<s, n>> \notin Queued \ {<<s, x>>}
          BY <3>5
        <4>2. /\ IsFiniteSet(Queued')
              /\ Cardinality(Queued') = Cardinality(Queued) - 1 + 1
          BY <3>5, <3>6, <4>1, FS_AddElement, Zenon
        <4> QED  BY <1>3, <3>4, <4>2 DEF Counted
      <3>8. InOrder'
        <4>1. Len(r) <= LaneSessionCapacity
          BY <1>2, <3>2, <3>3, Bounds
        <4>2. lanes' \subseteq Session /\ lanes \ {s} \subseteq lanes' /\ s \in lanes'
          BY <1>1, <1>4, <2>1
        <4> QED  BY <1>1, <3>3, <3>4, <4>1, <4>2, InOrderAfter, Zenon
      <3> QED  BY <3>7, <3>8 DEF QueueInv
    <2> QED  BY <2>2, <2>3, <2>4
  <1> QED  BY <1>5, <1>6

\* settle: the settled arrival leaves the queue and the count, if it is still there.
LEMMA SettleKeepsQueues ==
    ASSUME LaneInv, QueueInv, NEW w \in Worker, SettleDone(w)
    PROVE  QueueInv'
  <1> DEFINE s == at[w]
             n == cur[w]
             q == jobs[s]
             r == Without(q, n)
  <1>1. s \in Session /\ n \in Arrival /\ q \in Seq(Arrival) /\ Ascending(q)
    BY DEF LaneInv, LaneTypes, WorkShape, QueueInv, InOrder, SettleDone, Owning, Dispatching
  <1>2. Len(q) \in Nat /\ Len(q) <= LaneSessionCapacity /\ (s \notin lanes => q = << >>)
    BY <1>1, ArrivalSet, InQueue DEF QueueInv, InOrder
  <1>3. IsFiniteSet(Queued) /\ held = Cardinality(Queued) /\ held \in Nat /\ held <= LaneCapacity
    BY FS_CardinalityType DEF QueueInv, Counted
  <1>4. lanes \subseteq Session /\ jobs \in [Session -> Seq(Arrival)] /\ lanes' = lanes
    BY DEF LaneInv, LaneTypes, SettleDone
  <1>5. jobs' = [jobs EXCEPT ![s] = r] /\ held' = IF n \in Range(q) THEN held - 1 ELSE held
    BY <1>1, <1>4 DEF SettleDone
  <1>6. CASE n \notin Range(q)
    <2>1. jobs' = [jobs EXCEPT ![s] = jobs[s]] /\ held' = held
      BY <1>5, <1>6 DEF Without
    <2>2. jobs' = jobs
      BY <1>4, <2>1
    <2> QED  BY <1>4, <2>1, <2>2, QueuesKept
  <1>7. CASE n \in Range(q)
    <2>1. /\ r \in Seq(Arrival) /\ Len(r) = Len(q) - 1 /\ Ascending(r)
          /\ \A m : m \in Range(r) <=> m # n /\ m \in Range(q)
      BY <1>1, <1>7, ArrivalSet, WithoutKeepsOrder
    <2> HIDE DEF r
    <2>2. Queued' = Queued \ {<<s, n>>} /\ <<s, n>> \in Queued
      <3>1. Queued' = {j \in Queued : j[1] # s} \cup {j \in Job : j[1] = s /\ j[2] \in Range(r)}
        BY <1>1, <1>5, QueuedAfter, Zenon
      <3>2. <<s, n>> \in Job
        BY <1>1 DEF Job, Arrival
      <3> QED  BY <1>1, <1>7, <2>1, <3>1, <3>2 DEF Queued, Job
    <2>3. Counted'
      <3>1. IsFiniteSet(Queued') /\ Cardinality(Queued') = Cardinality(Queued) - 1
        BY <1>3, <2>2, FS_RemoveElement, Zenon
      <3> QED  BY <1>3, <1>5, <1>7, <3>1, Bounds DEF Counted
    <2>4. q # << >>
      BY <1>1, <1>7, ArrivalSet, InQueue, EmptySeq
    <2>5. Len(r) <= LaneSessionCapacity /\ s \in lanes
      BY <1>2, <2>1, <2>4, Bounds
    <2>6. InOrder'
      BY <1>1, <1>4, <1>5, <2>1, <2>5, InOrderAfter, Zenon
    <2> QED  BY <2>3, <2>6 DEF QueueInv
  <1> QED  BY <1>6, <1>7

\* forget: the whole queue of an ended session leaves the count.
LEMMA ForgetKeepsQueues ==
    ASSUME LaneInv, QueueInv, NEW s \in Session, Forget(s)
    PROVE  QueueInv'
  <1> DEFINE q == jobs[s]
             gone == {s} \X Range(q)
  <1>1. q \in Seq(Arrival) /\ Ascending(q) /\ Len(q) \in Nat /\ Range(q) \subseteq Arrival
    BY ArrivalSet, InQueue, Zenon DEF LaneInv, LaneTypes, QueueInv, InOrder
  <1>2. IsFiniteSet(Queued) /\ held = Cardinality(Queued) /\ held \in Nat /\ held <= LaneCapacity
    BY FS_CardinalityType DEF QueueInv, Counted
  <1>3. /\ jobs' = [jobs EXCEPT ![s] = << >>] /\ held' = held - Len(q) /\ lanes' = lanes \ {s}
        /\ lanes \subseteq Session
    BY DEF LaneInv, LaneTypes, Forget
  <1>4. Range(<< >>) = {}
    BY DEF Range
  <1>5. Queued' = Queued \ gone /\ Queued \cap gone = gone
    <2>1. Queued' = {j \in Queued : j[1] # s} \cup {j \in Job : j[1] = s /\ j[2] \in Range(<< >>)}
      BY <1>3, QueuedAfter, Zenon
    <2>2. Queued' = {j \in Queued : j[1] # s}
      BY <1>4, <2>1
    <2>3. \A j \in Queued : j[1] = s <=> j \in gone
      BY DEF Queued, Job
    <2>4. gone \subseteq Queued
      BY <1>1 DEF Queued, Job, Arrival
    <2> QED  BY <2>2, <2>3, <2>4
  <1>6. Cardinality(gone) = Len(q)
    BY <1>1, ArrivalSet, CountOf, Zenon
  <1>7. IsFiniteSet(Queued') /\ Cardinality(Queued') = Cardinality(Queued) - Len(q)
    <2> HIDE DEF gone
    <2>1. /\ IsFiniteSet(Queued \ gone)
          /\ Cardinality(Queued \ gone) = Cardinality(Queued) - Cardinality(Queued \cap gone)
      BY <1>2, FS_Difference, Zenon
    <2> QED  BY <1>5, <1>6, <2>1, Zenon
  <1>8. Counted'
    BY <1>1, <1>2, <1>3, <1>7, Bounds DEF Counted
  <1>9. << >> \in Seq(Arrival) /\ Ascending(<< >>) /\ Len(<< >>) <= LaneSessionCapacity
    BY EmptySeq, Bounds DEF Ascending
  <1>10. InOrder'
    BY <1>3, <1>9, InOrderAfter, Zenon
  <1> QED  BY <1>8, <1>10 DEF QueueInv
LEMMA QueueInvStep == ASSUME LaneInv, QueueInv, [Next]_vars PROVE QueueInv'
  <1>1. lanes \subseteq Session
    BY DEF LaneInv, LaneTypes
  <1>2. ASSUME UNCHANGED <<jobs, held>>, lanes' \subseteq lanes,
               \A s \in lanes \ lanes' : jobs[s] = << >>
        PROVE  QueueInv'
    BY <1>1, <1>2, QueuesKept
  <1> QED  BY <1>2, QueueChanges, JoinKeepsQueues, SettleKeepsQueues, ForgetKeepsQueues

LEMMA QueuesAlways == Spec => [](LaneInv /\ QueueInv)
  <1>1. LaneInv /\ QueueInv /\ [Next]_vars => QueueInv'
    BY QueueInvStep
  <1> QED  BY <1>1, QueueInvInit, LanesAlways, PTL DEF Spec

\* The lanes' queues stay in ascending arrival order, without a second entry, within both bounds
\* and counted exactly by dispatchLanes.held, and a session's deliveries settle in arrival order,
\* for any numbers of sessions, workers, arrivals, capacities and failures.
THEOREM InArrivalOrderAlways == Spec => []InArrivalOrder
  <1>1. QueueInv /\ PublishInv => InArrivalOrder
    BY DEF QueueInv, Counted, Queued, InOrder, PublishInv, InArrivalOrder, QueuesInOrder
  <1> QED  BY <1>1, LanesAlways, QueuesAlways, PTL

\* A lane has exactly one owner while it is marked as running and none otherwise, and a delivery
\* exactly one publisher, worker or drain pass, while the seen set marks it and none otherwise.
THEOREM OneHandlerAlways == Spec => []OneHandler
  <1>1. OwnerInv => OneOwner
    <2> SUFFICES ASSUME OwnerInv, NEW s \in Session
                 PROVE  Cardinality({w \in Worker : Owns(w, s)}) = IF s \in running THEN 1 ELSE 0
      BY DEF OneOwner
    <2>1. CASE s \in running
      <3>1. PICK w \in Worker : Owns(w, s)
        BY <2>1 DEF OwnerInv
      <3>2. {v \in Worker : Owns(v, s)} = {w}
        BY <3>1 DEF OwnerInv
      <3> QED  BY <2>1, <3>2, FS_Singleton
    <2>2. CASE s \notin running
      <3>1. {v \in Worker : Owns(v, s)} = {}
        BY <2>2 DEF OwnerInv
      <3> QED  BY <2>2, <3>1, FS_EmptySet
    <2> QED  BY <2>1, <2>2
  <1>2. LaneInv /\ OwnerInv /\ PublishInv => OnePublisher
    <2> SUFFICES ASSUME LaneInv, OwnerInv, PublishInv, NEW j \in Job
                 PROVE  Cardinality(Publishing(j)) = IF j \in working THEN 1 ELSE 0
      BY DEF OnePublisher
    <2>1. j = <<j[1], j[2]>> /\ j[1] \in Session
      BY ShapesAre
    <2> DEFINE byWorker == {w \in Worker : pc[w] = "publish" /\ <<at[w], cur[w]>> = j}
               byPass == {p \in {"pass"} : pass = "publish" /\ file = j[1] /\ NextLine(j[2])}
    <2>2. \A v, w \in byWorker : v = w
      BY <2>1 DEF OwnerInv, Owns
    <2>3. byWorker # {} => byPass = {} /\ j \in working
      BY <2>1 DEF PublishInv
    <2>4. byPass # {} => byPass = {"pass"} /\ j \in working
      <3> SUFFICES ASSUME byPass # {} PROVE byPass = {"pass"} /\ j \in working
        OBVIOUS
      <3>1. PICK n \in Unsettled : NextLine(n) /\ <<file, n>> \in working
        BY Zenon DEF PublishInv
      <3>2. n = j[2]
        BY <3>1 DEF NextLine, Unsettled, LaneInv, LaneTypes
      <3> QED  BY <2>1, <3>1, <3>2
    <2>5. j \in working => byWorker # {} \/ byPass # {}
      BY DEF PublishInv
    <2>6. Publishing(j) = byWorker \cup byPass
      BY DEF Publishing
    <2> HIDE DEF byWorker, byPass
    <2>7. CASE j \in working
      <3>1. \E x : Publishing(j) = {x}
        BY <2>2, <2>3, <2>4, <2>5, <2>6, <2>7
      <3> QED  BY <2>7, <3>1, FS_Singleton
    <2>8. CASE j \notin working
      <3>1. Publishing(j) = {}
        BY <2>3, <2>4, <2>6, <2>8
      <3> QED  BY <2>8, <3>1, FS_EmptySet
    <2> QED  BY <2>7, <2>8
  <1>3. LaneInv /\ OwnerInv /\ PublishInv => OneHandler
    BY <1>1, <1>2 DEF OneHandler
  <1> QED  BY <1>3, LanesAlways, PTL
-----------------------------------------------------------------------------
(* Nothing is forgotten: the names of the pending jobs.                     *)

\* The record of unheld jobs never fills: there are no more jobs than it has places.
RecordHoldsAll == IsFiniteSet(Job) /\ Cardinality(Job) <= UnheldCapacity

LEMMA AllNoted ==
    ASSUME RecordHoldsAll, SettledReal PROVE NotesAll
  <1> SUFFICES ASSUME NEW J \in SUBSET Job PROVE Noted(J) = unheld \cup J
    BY DEF NotesAll
  <1>1. ASSUME NEW j \in J PROVE Cardinality(unheld \cup {i \in J : i[2] <= j[2]}) <= UnheldCapacity
    <2> DEFINE T == unheld \cup {i \in J : i[2] <= j[2]}
    <2>1. T \in SUBSET Job
      BY DEF SettledReal
    <2>2. IsFiniteSet(T) /\ Cardinality(T) <= Cardinality(Job)
      BY <2>1, FS_Subset DEF RecordHoldsAll
    <2>3. Cardinality(T) \in Nat /\ Cardinality(Job) \in Nat /\ UnheldCapacity \in Nat
      BY <2>2, FS_CardinalityType, LaneAssumption DEF RecordHoldsAll, LaneAssumption
    <2> HIDE DEF T
    <2>4. Cardinality(T) <= UnheldCapacity
      BY <2>2, <2>3 DEF RecordHoldsAll
    <2> QED  BY <2>4 DEF T
  <1> QED  BY <1>1 DEF Noted

\* What a lane's queue holds once an arrival is put in it, queued before or not.
LEMMA InsertHolds ==
    ASSUME NEW q \in Seq(Arrival), Ascending(q), NEW n \in Arrival
    PROVE  \A m : m \in Range(Insert(q, n)) <=> m = n \/ m \in Range(q)
  <1>1. CASE n \in Range(q)
    BY <1>1 DEF Insert
  <1>2. CASE n \notin Range(q)
    BY <1>2, ArrivalSet, InsertKeepsOrder
  <1> QED  BY <1>1, <1>2

\* join: the arrival is queued or recorded, and so is what it evicts.
LEMMA JoinNames ==
    ASSUME LaneInv, QueueInv, SettledReal, NotesAll, NEW w \in Worker, Join(w)
    PROVE  unheld' \subseteq Job /\ unheld \cup Queued \subseteq unheld' \cup Queued'
  <1> DEFINE s == at[w]
             n == cur[w]
             q == jobs[s]
  <1>1. s \in Session /\ n \in Arrival /\ q \in Seq(Arrival) /\ Ascending(q) /\ <<s, n>> \in Job
    BY ShapesAre DEF LaneInv, LaneTypes, WorkShape, QueueInv, InOrder, Join
  <1>2. unheld \subseteq Job
    BY DEF SettledReal
  <1>3. CASE Refuses(s, n)
    <2>1. unheld' = Noted({<<s, n>>}) /\ Queued' = Queued
      BY <1>3, Zenon DEF Join, JoinRefused, queueVars, Queued
    <2>2. Noted({<<s, n>>}) = unheld \cup {<<s, n>>}
      BY <1>1 DEF NotesAll
    <2> QED  BY <1>1, <1>2, <2>1, <2>2, Zenon
  <1>4. CASE ~Refuses(s, n)
    <2> DEFINE evicted == IF Evicts(s, n) THEN {q[Len(q)]} ELSE {}
               kept == IF Evicts(s, n) THEN Front(q) ELSE q
    <2>1. /\ jobs' = [jobs EXCEPT ![s] = Insert(kept, n)]
          /\ unheld' = Noted({s} \X evicted) \ {<<s, n>>}
      BY <1>4, Zenon DEF Join, JoinQueued
    <2>2. /\ kept \in Seq(Arrival) /\ Ascending(kept) /\ evicted \subseteq Range(q)
          /\ \A m : m \in Range(q) => m \in evicted \/ m \in Range(kept)
      <3>1. CASE Evicts(s, n)
        <4>1. q # << >>
          BY <1>1, <3>1, ArrivalSet, InQueue, EmptySeq DEF Evicts
        <4> QED  BY <1>1, <3>1, <4>1, ArrivalSet, FrontKeepsOrder
      <3>2. CASE ~Evicts(s, n)
        BY <1>1, <3>2
      <3> QED  BY <3>1, <3>2, Zenon
    <2> HIDE DEF kept, evicted
    <2>3. {s} \X evicted \in SUBSET Job
      <3>1. \A m \in evicted : m \in Arrival
        BY <1>1, <2>2, ArrivalSet, InQueue
      <3> QED  BY <1>1, <3>1, ShapesAre
    <2>4. Noted({s} \X evicted) = unheld \cup ({s} \X evicted)
      BY <2>3 DEF NotesAll
    <2>5. \A m : m \in Range(Insert(kept, n)) <=> m = n \/ m \in Range(kept)
      BY <1>1, <2>2, InsertHolds
    <2>6. Queued' = {j \in Queued : j[1] # s}
                    \cup {j \in Job : j[1] = s /\ j[2] \in Range(Insert(kept, n))}
      BY <1>1, <2>1, QueuedAfter, Zenon
    <2>7. <<s, n>> \in Queued'
      BY <1>1, <2>5, <2>6
    <2>8. ASSUME NEW j \in Queued, j[1] = s PROVE j \in unheld' \cup Queued'
      <3>1. j \in Job /\ j = <<s, j[2]>> /\ j[2] \in Range(q)
        BY <2>8, ShapesAre DEF Queued
      <3>2. CASE j[2] \in Range(kept)
        BY <2>5, <2>6, <2>8, <3>1, <3>2
      <3>3. CASE j[2] \notin Range(kept)
        <4>1. j \in {s} \X evicted
          BY <2>2, <3>1, <3>3
        <4> QED  BY <2>1, <2>4, <2>7, <4>1, Zenon
      <3> QED  BY <3>2, <3>3
    <2>9. \A j \in Queued : j[1] # s => j \in Queued'
      BY <2>6
    <2> QED  BY <1>2, <2>1, <2>3, <2>4, <2>7, <2>8, <2>9, Zenon
  <1> QED  BY <1>3, <1>4
\* settle: of what is queued only the settled job leaves.
LEMMA SettleNames ==
    ASSUME LaneInv, QueueInv, NEW w \in Worker, SettleDone(w)
    PROVE  Queued \ {<<at[w], cur[w]>>} \subseteq Queued'
  <1> DEFINE q == jobs[at[w]]
             r == Without(q, cur[w])
  <1>1. /\ at[w] \in Session /\ q \in Seq(Arrival) /\ Ascending(q)
        /\ jobs' = [jobs EXCEPT ![at[w]] = r]
    BY DEF LaneInv, LaneTypes, WorkShape, QueueInv, InOrder, SettleDone, Owning, Dispatching
  <1>2. \A m : m \in Range(q) => m = cur[w] \/ m \in Range(r)
    <2>1. CASE cur[w] \in Range(q)
      BY <1>1, <2>1, ArrivalSet, WithoutKeepsOrder
    <2>2. CASE cur[w] \notin Range(q)
      BY <2>2 DEF Without
    <2> QED  BY <2>1, <2>2
  <1> HIDE DEF r
  <1>3. Queued' = {j \in Queued : j[1] # at[w]} \cup {j \in Job : j[1] = at[w] /\ j[2] \in Range(r)}
    BY <1>1, QueuedAfter, Zenon
  <1>4. ASSUME NEW j \in Queued, j # <<at[w], cur[w]>> PROVE j \in Queued'
    <2>1. j \in Job /\ j = <<j[1], j[2]>> /\ j[2] \in Range(jobs[j[1]])
      BY <1>4, ShapesAre DEF Queued
    <2> QED  BY <1>2, <1>3, <1>4, <2>1
  <1> QED  BY <1>4

\* Nothing is forgotten, if the record of unheld jobs has room for every job (noteUnheld records
\* none past its capacity): a wake and a drain are on their way, and every accepted delivery that
\* is not published is in a lane or in the record.
THEOREM NothingForgottenAlways == ASSUME RecordHoldsAll PROVE Spec => []NothingForgotten
  <1>1. Init => SettledReal /\ EveryPendingJobNamed
    BY DEF Init, SettledReal, EveryPendingJobNamed, Leased, Job
  <1>2. LaneInv /\ QueueInv /\ SettledReal /\ EveryPendingJobNamed /\ [Next]_vars
          => (SettledReal /\ EveryPendingJobNamed)'
    <2> SUFFICES ASSUME LaneInv, QueueInv, SettledReal, EveryPendingJobNamed, [Next]_vars
                 PROVE  SettledReal' /\ EveryPendingJobNamed'
      OBVIOUS
    <2>1. NotesAll
      BY RecordHoldsAll, AllNoted
    <2>2. NamesKept
      BY <2>1, JoinNames, SettleNames, Zenon DEF NamesKept
    <2> QED  BY <2>1, <2>2, NamedStep, Zenon
  <1>3. Spec => []EveryPendingJobNamed
    BY <1>1, <1>2, QueuesAlways, PTL DEF Spec
  <1>4. WakeNotLost /\ DrainOwed /\ EveryPendingJobNamed => NothingForgotten
    BY DEF NothingForgotten
  <1> QED  BY <1>3, <1>4, WakesAndDrainsOwedAlways, PTL
=============================================================================
