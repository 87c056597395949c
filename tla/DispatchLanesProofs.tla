------------------------ MODULE DispatchLanesProofs ------------------------
(* Proofs about DispatchLanes, for any sessions, workers, capacities and    *)
(* numbers of failures: a lane has one owner and a delivery one publisher,  *)
(* what settles keeps the arrival order, and no wake or drain is lost.      *)
(* What needs the contents of the queues is in DispatchQueueProofs.         *)
EXTENDS DispatchLanes, TLAPS

Arrival == 1 .. MaxArrival

-----------------------------------------------------------------------------
(* Facts the proofs keep needing.                                           *)

\* What the assumption on the constants says of the bounds.
LEMMA Bounds ==
    /\ None \notin Session
    /\ MaxArrival \in Nat \ {0} /\ LaneCapacity \in Nat \ {0}
    /\ LaneSessionCapacity \in Nat \ {0} /\ RingCapacity \in Nat
    /\ MaxFailures \in Nat /\ MaxCopies \in Nat /\ MaxForgets \in Nat
    /\ Arrival \subseteq Nat
  BY LaneAssumption DEF LaneAssumption, Arrival

\* The queue operators and the sequences' own yield queues of arrivals.
LEMMA QueueTypes ==
    ASSUME NEW q \in Seq(Arrival), NEW n \in Arrival
    PROVE  /\ Range(q) \subseteq Arrival
           /\ Insert(q, n) \in Seq(Arrival) /\ Without(q, n) \in Seq(Arrival)
           /\ q # << >> => Front(q) \in Seq(Arrival) /\ q[Len(q)] \in Arrival
  <1>1. Len(q) \in Nat /\ \A i \in 1 .. Len(q) : q[i] \in Arrival
    OBVIOUS
  <1>2. Range(q) \subseteq Arrival
    BY <1>1 DEF Range
  <1>3. \A a \in Nat \ {0}, b \in Nat : b <= Len(q) => SubSeq(q, a, b) \in Seq(Arrival)
    BY <1>1
  <1>4. Place(q, n) \in 1 .. (Len(q) + 1)
    <2> DEFINE first == {k \in 1 .. Len(q) : q[k] >= n /\ \A i \in 1 .. (k - 1) : q[i] < n}
    <2>1. Place(q, n) = IF first = {} THEN Len(q) + 1 ELSE CHOOSE k \in first : TRUE
      BY DEF Place
    <2>2. first # {} => (CHOOSE k \in first : TRUE) \in 1 .. Len(q)
      OBVIOUS
    <2> HIDE DEF first
    <2> QED  BY <1>1, <2>1, <2>2
  <1>5. Insert(q, n) \in Seq(Arrival)
    <2> DEFINE p == Place(q, n)
    <2> HIDE DEF p
    <2>1. p - 1 \in Nat /\ p \in Nat \ {0} /\ p - 1 <= Len(q)
      BY <1>1, <1>4 DEF p
    <2>2. SubSeq(q, 1, p - 1) \in Seq(Arrival) /\ SubSeq(q, p, Len(q)) \in Seq(Arrival)
      BY <1>1, <1>3, <2>1
    <2>3. Insert(q, n) = q \/ Insert(q, n) = SubSeq(q, 1, p - 1) \o <<n>> \o SubSeq(q, p, Len(q))
      BY Zenon DEF Insert, p
    <2>4. SubSeq(q, 1, p - 1) \o <<n>> \in Seq(Arrival)
      BY <2>2
    <2>5. SubSeq(q, 1, p - 1) \o <<n>> \o SubSeq(q, p, Len(q)) \in Seq(Arrival)
      BY <2>2, <2>4
    <2> QED  BY <2>3, <2>5, Zenon
  <1>6. Without(q, n) \in Seq(Arrival)
    <2> SUFFICES ASSUME n \in Range(q) PROVE Without(q, n) \in Seq(Arrival)
      BY DEF Without
    <2> DEFINE p == CHOOSE i \in 1 .. Len(q) : q[i] = n
    <2>1. p \in 1 .. Len(q)
      BY <1>1 DEF Range
    <2>2. Without(q, n) = SubSeq(q, 1, p - 1) \o SubSeq(q, p + 1, Len(q))
      BY Zenon DEF Without
    <2> HIDE DEF p
    <2>3. p - 1 \in Nat /\ p + 1 \in Nat \ {0} /\ p - 1 <= Len(q)
      BY <1>1, <2>1
    <2>4. SubSeq(q, 1, p - 1) \in Seq(Arrival) /\ SubSeq(q, p + 1, Len(q)) \in Seq(Arrival)
      BY <1>1, <1>3, <2>3
    <2> QED  BY <2>2, <2>4
  <1>7. q # << >> => Front(q) \in Seq(Arrival) /\ q[Len(q)] \in Arrival
    <2> SUFFICES ASSUME q # << >> PROVE Front(q) \in Seq(Arrival) /\ q[Len(q)] \in Arrival
      OBVIOUS
    <2>1. Len(q) \in 1 .. Len(q) /\ Len(q) - 1 \in Nat /\ Len(q) - 1 <= Len(q)
      OBVIOUS
    <2> QED  BY <1>1, <1>3, <2>1 DEF Front
  <1> QED  BY <1>2, <1>5, <1>6, <1>7

-----------------------------------------------------------------------------
(* The invariants.  LaneInv: the shape of the state.  OwnerInv: who owns a  *)
(* lane.  PublishInv: who publishes what, and why the ordering gate and the *)
(* seen set keep workers and passes apart.                                  *)

Owning == {"resignal", "head", "begin", "publish", "settled", "pending", "busy"}

Dispatching == {"begin", "publish", "settled", "pending", "busy"}

LaneTypes ==
    /\ last \in [Session -> 0 .. MaxArrival] /\ accepting \subseteq Job /\ ring \in Seq(Job)
    /\ lanes \subseteq Session /\ running \subseteq Session /\ ready \in Seq(Session)
    /\ jobs \in [Session -> Seq(Arrival)]
    /\ working \subseteq Job /\ settled \subseteq Job
    /\ pc \in [Worker -> Owning \cup {"idle", "join", "ask", "claim"}]
    /\ at \in [Worker -> Session \cup {None}] /\ cur \in [Worker -> 0 .. MaxArrival]
    /\ pass \in {"none", "files", "line", "publish", "release", "signal"}
    /\ file \in Session \cup {None} /\ upTo \in 0 .. MaxArrival

\* A worker that holds a job has a session and an arrival; a pass that reads lines has a file.
WorkShape ==
    /\ \A w \in Worker :
         /\ pc[w] \in Owning \cup {"join"} => at[w] \in Session
         /\ pc[w] \in Dispatching \cup {"join"} => cur[w] \in Arrival
    /\ pass \in {"line", "publish"} => file \in Session

LaneInv == LaneTypes /\ WorkShape

\* What the lanes' queues hold.
Queued == {j \in Job : j[2] \in Range(jobs[j[1]])}

\* running is set exactly while one worker owns the lane.
OwnerInv ==
    \A s \in Session :
        /\ s \in running <=> \E w \in Worker : Owns(w, s)
        /\ \A v, w \in Worker : Owns(v, s) /\ Owns(w, s) => v = w

\* What is published is marked in the seen set, is unsettled and has its predecessors settled; what
\* is marked has a publisher; a worker and a pass never publish for the same session.
PublishInv ==
    /\ \A w \in Worker : pc[w] = "publish" =>
         <<at[w], cur[w]>> \in working /\ PredecessorsReady(at[w], cur[w])
    /\ pass = "publish" => \E n \in Unsettled : NextLine(n) /\ <<file, n>> \in working
    /\ \A w \in Worker : pc[w] = "publish" /\ pass = "publish" => at[w] # file
    /\ working \cap settled = {}
    /\ \A j \in working :
         \/ \E w \in Worker : pc[w] = "publish" /\ <<at[w], cur[w]>> = j
         \/ pass = "publish" /\ file = j[1] /\ NextLine(j[2])
    /\ SettledInOrder

-----------------------------------------------------------------------------
(* LaneInv.                                                                 *)

LEMMA LaneInvInit == Init => LaneInv
  <1> SUFFICES ASSUME Init PROVE LaneInv
    OBVIOUS
  <1>1. LaneTypes
    BY Bounds DEF Init, LaneTypes, Owning
  <1>2. WorkShape
    BY DEF Init, WorkShape, Owning, Dispatching
  <1> QED  BY <1>1, <1>2 DEF LaneInv

\* The parts of LaneTypes and WorkShape that speak of the workers, and of neither them nor the queues.
WorkerShapes ==
    /\ pc \in [Worker -> Owning \cup {"idle", "join", "ask", "claim"}]
    /\ at \in [Worker -> Session \cup {None}] /\ cur \in [Worker -> 0 .. MaxArrival]
    /\ \A w \in Worker :
         /\ pc[w] \in Owning \cup {"join"} => at[w] \in Session
         /\ pc[w] \in Dispatching \cup {"join"} => cur[w] \in Arrival

OtherShapes ==
    /\ last \in [Session -> 0 .. MaxArrival] /\ accepting \subseteq Job /\ ring \in Seq(Job)
    /\ running \subseteq Session /\ ready \in Seq(Session)
    /\ working \subseteq Job /\ settled \subseteq Job
    /\ pass \in {"none", "files", "line", "publish", "release", "signal"}
    /\ file \in Session \cup {None} /\ upTo \in 0 .. MaxArrival
    /\ pass \in {"line", "publish"} => file \in Session

LEMMA ShapesAre ==
    /\ LaneTypes /\ WorkShape <=>
         /\ WorkerShapes /\ OtherShapes
         /\ lanes \subseteq Session /\ jobs \in [Session -> Seq(Arrival)]
    /\ \A j \in Job : j[1] \in Session /\ j[2] \in Arrival /\ j = <<j[1], j[2]>>
    /\ \A s \in Session, n \in Arrival : <<s, n>> \in Job
    /\ Arrival \subseteq 0 .. MaxArrival /\ 0 \in 0 .. MaxArrival
  <1>1. LaneTypes /\ WorkShape <=>
          /\ WorkerShapes /\ OtherShapes
          /\ lanes \subseteq Session /\ jobs \in [Session -> Seq(Arrival)]
    BY Zenon DEF LaneTypes, WorkShape, WorkerShapes, OtherShapes
  <1> QED  BY <1>1, Bounds DEF Job, Arrival

\* A worker's next step keeps the shape of all the workers.
LEMMA GoShapes ==
    ASSUME WorkerShapes, NEW w \in Worker
    PROVE  /\ \A p \in {"idle", "ask", "claim"} : Go(w, p, None, 0) => WorkerShapes'
           /\ \A p \in {"resignal", "head"}, s \in Session : Go(w, p, s, 0) => WorkerShapes'
           /\ \A p \in Dispatching \cup {"join"}, s \in Session, n \in Arrival :
                 Go(w, p, s, n) => WorkerShapes'
  <1>1. ASSUME NEW p, NEW s, NEW n, Go(w, p, s, n),
               p \in Owning \cup {"idle", "join", "ask", "claim"}, s \in Session \cup {None},
               n \in 0 .. MaxArrival, p \in Owning \cup {"join"} => s \in Session,
               p \in Dispatching \cup {"join"} => n \in Arrival
        PROVE  WorkerShapes'
    BY <1>1 DEF Go, WorkerShapes
  <1>2. \A p \in {"idle", "ask", "claim"} : Go(w, p, None, 0) => WorkerShapes'
    BY <1>1, ShapesAre DEF Owning, Dispatching
  <1>3. \A p \in {"resignal", "head"}, s \in Session : Go(w, p, s, 0) => WorkerShapes'
    BY <1>1, ShapesAre DEF Owning, Dispatching
  <1>4. \A p \in Dispatching \cup {"join"}, s \in Session, n \in Arrival :
            Go(w, p, s, n) => WorkerShapes'
    BY <1>1, ShapesAre DEF Owning, Dispatching
  <1> QED  BY <1>2, <1>3, <1>4

LEMMA WorkerShapesStep == ASSUME LaneInv, [Next]_vars PROVE WorkerShapes'
  <1>1. WorkerShapes /\ OtherShapes /\ jobs \in [Session -> Seq(Arrival)]
    BY ShapesAre DEF LaneInv
  <1>2. ASSUME UNCHANGED workerVars PROVE WorkerShapes'
    BY <1>1, <1>2 DEF workerVars, WorkerShapes
  <1>3. ASSUME NEW w \in Worker, WorkerStep(w) \/ PublishFails(w) PROVE WorkerShapes'
    <2>1. /\ pc[w] \in Owning \cup {"join"} => at[w] \in Session
          /\ pc[w] \in Dispatching \cup {"join"} => cur[w] \in Arrival
      BY <1>1 DEF WorkerShapes
    <2>2. CASE Receive(w)
      <3>1. Head(ring) \in Job
        BY <1>1, <2>2 DEF Receive, OtherShapes
      <3> QED  BY <1>1, <2>2, <3>1, ShapesAre, GoShapes, Zenon DEF Receive
    <2>3. CASE TakesHead(w)
      <3>1. at[w] \in Session /\ Head(jobs[at[w]]) \in Arrival
        BY <1>1, <2>1, <2>3 DEF TakesHead, Owning
      <3> QED  BY <1>1, <2>3, <3>1, GoShapes DEF TakesHead, Dispatching
    <2>4. CASE Join(w)
      BY <1>1, <2>1, <2>4, GoShapes DEF Join, JoinRefused, JoinQueued, Idle
    <2>5. CASE Ask(w) \/ RunsDry(w) \/ SettleParks(w) \/ TakesWake(w) \/ ClaimsNothing(w)
      BY <1>1, <2>5, GoShapes DEF Ask, RunsDry, SettleParks, TakesWake, ClaimsNothing, Idle
    <2>6. CASE Begin(w) \/ Publish(w) \/ PublishFails(w)
      BY <1>1, <2>1, <2>6, GoShapes DEF Begin, Publish, PublishFails, Owning, Dispatching
    <2>7. CASE SettleDone(w) \/ SettleGoesOn(w) \/ Resignal(w)
      BY <1>1, <2>1, <2>7, GoShapes DEF SettleDone, SettleGoesOn, Resignal, Owning
    <2>8. CASE Claims(w)
      BY <1>1, <2>8, GoShapes DEF Claims, OtherShapes
    <2> QED  BY <1>3, <2>2, <2>3, <2>4, <2>5, <2>6, <2>7, <2>8 DEF WorkerStep
  <1>4. ASSUME NEW j \in Job, Accept(j) \/ Offer(j) PROVE WorkerShapes'
    BY <1>2, <1>4 DEF Accept, Offer
  <1>5. ASSUME NEW s \in Session, Forget(s) PROVE WorkerShapes'
    BY <1>2, <1>5 DEF Forget
  <1>6. CASE PassStep \/ RequesterStep \/ OtherPass \/ LineFails \/ LineDeadline \/ BudgetSpent
    BY <1>2, <1>6 DEF PassStep, OpenFile, Release, FileDone, LineBusy, LineBegin, LinePublish,
         FilesDone, SignalWake, PassOver, RequesterStep, TakesKick, RequestedPass, ResumeDrain,
         OtherPass, StartPass, LineFails, LineDeadline, BudgetSpent
  <1>7. CASE UNCHANGED vars
    BY <1>2, <1>7 DEF vars
  <1> QED  BY <1>3, <1>4, <1>5, <1>6, <1>7 DEF Next

LEMMA OtherShapesStep == ASSUME LaneInv, [Next]_vars PROVE OtherShapes'
  <1>1. WorkerShapes /\ OtherShapes
    BY ShapesAre DEF LaneInv
  <1>2. ASSUME NEW j \in Job, Accept(j) \/ Offer(j) PROVE OtherShapes'
    <2>1. CASE Accept(j)
      BY <1>1, <2>1, ShapesAre, Zenon DEF Accept, OtherShapes, laneVars, flagVars, passVars
    <2>2. CASE Offer(j)
      <3>1. ring' \in Seq(Job)
        <4>1. ring \in Seq(Job) /\ Append(ring, j) \in Seq(Job)
          BY <1>1 DEF OtherShapes
        <4>2. ring' = ring \/ ring' = Append(ring, j)
          BY <2>2 DEF Offer
        <4> QED  BY <4>1, <4>2
      <3> QED  BY <1>1, <2>2, <3>1 DEF Offer, OtherShapes, flagVars, passVars
    <2> QED  BY <1>2, <2>1, <2>2
  <1>3. ASSUME NEW w \in Worker, WorkerStep(w) \/ PublishFails(w) PROVE OtherShapes'
    <2>1. /\ pc[w] \in Owning \cup {"join"} => at[w] \in Session
          /\ pc[w] \in Dispatching \cup {"join"} => cur[w] \in Arrival
      BY <1>1 DEF WorkerShapes
    <2>2. CASE Receive(w)
      <3>1. ring' \in Seq(Job)
        BY <1>1, <2>2 DEF Receive, OtherShapes
      <3> QED  BY <1>1, <2>2, <3>1 DEF Receive, OtherShapes, laneVars, flagVars, passVars
    <2>3. CASE Join(w)
      BY <1>1, <2>1, <2>3, Zenon
         DEF Join, JoinRefused, JoinQueued, OtherShapes, acceptVars, passVars
    <2>4. CASE Begin(w) \/ Publish(w) \/ PublishFails(w)
      <3>1. <<at[w], cur[w]>> \in Job
        BY <2>1, <2>4, ShapesAre DEF Begin, Publish, PublishFails, Owning, Dispatching
      <3> QED  BY <1>1, <2>4, <3>1, Zenon
               DEF Begin, Publish, PublishFails, OtherShapes, acceptVars, laneVars, flagVars, passVars
    <2>5. CASE Claims(w)
      <3>1. PICK k \in 1 .. Len(ready) :
               ready' = SubSeq(ready, k + 1, Len(ready)) /\ running' = running \cup {ready[k]}
        BY <2>5, Zenon DEF Claims, Unlist
      <3>2. ready' \in Seq(Session) /\ ready[k] \in Session
        <4>1. ready \in Seq(Session) /\ Len(ready) \in Nat
          BY <1>1 DEF OtherShapes
        <4>2. \A i \in (k + 1) .. Len(ready) : ready[i] \in Session
          BY <4>1
        <4> QED  BY <3>1, <4>1, <4>2
      <3> QED  BY <1>1, <2>5, <3>1, <3>2 DEF Claims, OtherShapes, acceptVars, passVars
    <2>6. CASE ClaimsNothing(w)
      <3>1. ready' = SubSeq(ready, Len(ready) + 1, Len(ready))
        BY <2>6 DEF ClaimsNothing, Unlist
      <3>2. ready' \in Seq(Session)
        <4>1. Len(ready) \in Nat
          BY <1>1 DEF OtherShapes
        <4>2. ready' = << >>
          BY <3>1, <4>1
        <4> QED  BY <4>2
      <3> QED  BY <1>1, <2>6, <3>2 DEF ClaimsNothing, OtherShapes, acceptVars, passVars
    <2>7. CASE Ask(w) \/ TakesHead(w) \/ SettleDone(w) \/ SettleGoesOn(w) \/ TakesWake(w)
               \/ Resignal(w) \/ RunsDry(w) \/ SettleParks(w)
      BY <1>1, <2>7, Zenon
         DEF Ask, TakesHead, SettleDone, SettleGoesOn, TakesWake, Resignal, RunsDry, SettleParks,
             OtherShapes, acceptVars, laneVars, flagVars, passVars
    <2> QED  BY <1>3, <2>2, <2>3, <2>4, <2>5, <2>6, <2>7 DEF WorkerStep
  <1>4. ASSUME NEW s \in Session, Forget(s) PROVE OtherShapes'
    BY <1>1, <1>4 DEF Forget, OtherShapes, acceptVars, passVars
  <1>5. ASSUME NEW s \in Session, OpenFile(s) \/ Release(s) PROVE OtherShapes'
    <2>1. CASE OpenFile(s)
      BY <1>1, <2>1 DEF OpenFile, OtherShapes, acceptVars, laneVars, flagVars
    <2>2. CASE Release(s)
      <3>1. ready' \in Seq(Session)
        <4>1. ready \in Seq(Session) /\ Append(ready, s) \in Seq(Session)
          BY <1>1 DEF OtherShapes
        <4>2. ready' = ready \/ ready' = Append(ready, s)
          BY <2>2 DEF Release, Wake
        <4> QED  BY <4>1, <4>2
      <3> QED  BY <1>1, <2>2, <3>1 DEF Release, Wake, OtherShapes, acceptVars
    <2> QED  BY <1>5, <2>1, <2>2
  <1>6. CASE LineBegin \/ LinePublish \/ LineFails \/ LineDeadline
    <2>1. file \in Session /\ upTo \in 0 .. MaxArrival
      BY <1>1, <1>6 DEF LineBegin, LinePublish, LineFails, LineDeadline, OtherShapes
    <2>2. \A n \in Unsettled : n \in Arrival
      BY <2>1, Bounds DEF Unsettled, Arrival
    <2>3. \A n \in Unsettled : <<file, n>> \in Job
      BY <2>1, <2>2, ShapesAre
    <2> QED  BY <1>1, <1>6, <2>3, ShapesAre, Zenon
             DEF LineBegin, LinePublish, LineFails, LineDeadline, CloseFile, StopPass, OtherShapes,
                 acceptVars, laneVars, flagVars
  <1>7. CASE FileDone \/ LineBusy \/ FilesDone \/ SignalWake \/ PassOver \/ BudgetSpent
    BY <1>1, <1>7, ShapesAre
       DEF FileDone, LineBusy, FilesDone, SignalWake, PassOver, BudgetSpent, CloseFile, StopPass,
           OtherShapes, acceptVars, laneVars, flagVars
  <1>8. CASE RequesterStep \/ OtherPass
    BY <1>1, <1>8
       DEF RequesterStep, TakesKick, RequestedPass, ResumeDrain, OtherPass, StartPass, OtherShapes,
           acceptVars, laneVars, flagVars
  <1>9. CASE UNCHANGED vars
    BY <1>1, <1>9 DEF vars, OtherShapes, acceptVars, laneVars, flagVars, passVars
  <1> QED  BY <1>2, <1>3, <1>4, <1>5, <1>6, <1>7, <1>8, <1>9 DEF Next, PassStep

\* The queues change in four ways: a join, a settled job, a forgotten lane, and lanes dropped empty.
LEMMA QueueChanges ==
    ASSUME [Next]_vars
    PROVE  \/ \E w \in Worker : Join(w) \/ SettleDone(w)
           \/ \E s \in Session : Forget(s)
           \/ /\ UNCHANGED <<jobs, held>> /\ lanes' \subseteq lanes
              /\ \A s \in lanes \ lanes' : jobs[s] = << >>
  <1> DEFINE Same == /\ UNCHANGED <<jobs, held>> /\ lanes' \subseteq lanes
                     /\ \A s \in lanes \ lanes' : jobs[s] = << >>
  <1>1. ASSUME UNCHANGED queueVars PROVE Same
    BY <1>1 DEF queueVars
  <1>2. ASSUME NEW j \in Job, Accept(j) \/ Offer(j) PROVE Same
    BY <1>1, <1>2, Zenon DEF Accept, Offer, laneVars
  <1>3. ASSUME NEW w \in Worker, WorkerStep(w) \/ PublishFails(w)
        PROVE  Join(w) \/ SettleDone(w) \/ Same
    <2>1. CASE RunsDry(w)
      BY <2>1 DEF RunsDry
    <2>2. CASE Claims(w)
      BY <2>2, Zenon DEF Claims, Unlist
    <2>3. CASE ClaimsNothing(w)
      BY <2>3 DEF ClaimsNothing, Unlist
    <2>4. CASE Receive(w) \/ Ask(w) \/ TakesHead(w) \/ Begin(w) \/ Publish(w) \/ SettleGoesOn(w)
               \/ SettleParks(w) \/ TakesWake(w) \/ Resignal(w) \/ PublishFails(w)
      BY <1>1, <2>4, Zenon DEF Receive, Ask, TakesHead, Begin, Publish, SettleGoesOn, SettleParks,
           TakesWake, Resignal, PublishFails, laneVars
    <2> QED  BY <1>3, <2>1, <2>2, <2>3, <2>4 DEF WorkerStep
  <1>4. CASE PassStep \/ RequesterStep \/ OtherPass \/ LineFails \/ LineDeadline \/ BudgetSpent
    BY <1>1, <1>4 DEF PassStep, OpenFile, Release, Wake, FileDone, LineBusy, LineBegin, LinePublish,
         FilesDone, SignalWake, PassOver, RequesterStep, TakesKick, RequestedPass, ResumeDrain,
         OtherPass, StartPass, LineFails, LineDeadline, BudgetSpent, laneVars
  <1>5. CASE UNCHANGED vars
    BY <1>1, <1>5 DEF vars, laneVars
  <1> QED  BY <1>2, <1>3, <1>4, <1>5, Zenon DEF Next

LEMMA QueueTypesStep ==
    ASSUME LaneInv, [Next]_vars PROVE lanes' \subseteq Session /\ jobs' \in [Session -> Seq(Arrival)]
  <1>1. lanes \subseteq Session /\ jobs \in [Session -> Seq(Arrival)]
    BY DEF LaneInv, LaneTypes
  <1>2. ASSUME NEW w \in Worker, Join(w)
        PROVE  lanes' \subseteq Session /\ jobs' \in [Session -> Seq(Arrival)]
    <2> DEFINE q == jobs[at[w]]
               kept == IF Evicts(at[w], cur[w]) THEN Front(q) ELSE q
    <2>1. at[w] \in Session /\ cur[w] \in Arrival /\ q \in Seq(Arrival)
      BY <1>1, <1>2 DEF LaneInv, WorkShape, Join
    <2>2. Evicts(at[w], cur[w]) => q # << >>
      BY DEF Evicts, Range
    <2>3. Insert(kept, cur[w]) \in Seq(Arrival)
      BY <2>1, <2>2, QueueTypes, Zenon
    <2>4. \/ lanes' = lanes /\ jobs' = jobs
          \/ lanes' = lanes \cup {at[w]} /\ jobs' = [jobs EXCEPT ![at[w]] = Insert(kept, cur[w])]
      BY <1>2, Zenon DEF Join, JoinRefused, JoinQueued, queueVars
    <2> HIDE DEF kept
    <2> QED  BY <1>1, <2>1, <2>3, <2>4
  <1>3. ASSUME NEW w \in Worker, SettleDone(w)
        PROVE  lanes' \subseteq Session /\ jobs' \in [Session -> Seq(Arrival)]
    <2>1. at[w] \in Session /\ cur[w] \in Arrival
      BY <1>3 DEF LaneInv, WorkShape, SettleDone, Owning, Dispatching
    <2>2. Without(jobs[at[w]], cur[w]) \in Seq(Arrival)
      BY <1>1, <2>1, QueueTypes
    <2> QED  BY <1>1, <1>3, <2>1, <2>2 DEF SettleDone
  <1>4. ASSUME NEW s \in Session, Forget(s)
        PROVE  lanes' \subseteq Session /\ jobs' \in [Session -> Seq(Arrival)]
    BY <1>1, <1>4 DEF Forget
  <1> QED  BY <1>1, <1>2, <1>3, <1>4, QueueChanges

LEMMA LaneInvStep == ASSUME LaneInv, [Next]_vars PROVE LaneInv'
  <1>1. WorkerShapes' /\ OtherShapes'
    BY WorkerShapesStep, OtherShapesStep
  <1>2. (LaneTypes /\ WorkShape)'
    BY <1>1, QueueTypesStep DEF LaneTypes, WorkShape, WorkerShapes, OtherShapes
  <1> QED  BY <1>2 DEF LaneInv

-----------------------------------------------------------------------------
(* OwnerInv.                                                                *)

\* Ownership moves only in a worker's own step: it keeps, takes or gives up a session's lane.
LEMMA OwnerInvStep == ASSUME LaneInv, OwnerInv, [Next]_vars PROVE OwnerInv'
  <1>1. WorkerShapes /\ OtherShapes
    BY ShapesAre DEF LaneInv
  <1>2. ASSUME UNCHANGED <<pc, at, running>> PROVE OwnerInv'
    BY <1>2 DEF OwnerInv, Owns
  <1>3. ASSUME NEW w \in Worker, NEW p, NEW s \in Session, NEW n, Go(w, p, s, n), Owns(w, s),
               p \in Owning, running' = running
        PROVE  OwnerInv'
    BY <1>1, <1>3 DEF OwnerInv, Owns, Go, WorkerShapes, Owning
  <1>4. ASSUME NEW w \in Worker, NEW p, NEW s \in Session, NEW n, Go(w, p, s, n),
               pc[w] \notin Owning, s \notin running, p \in Owning, running' = running \cup {s}
        PROVE  OwnerInv'
    BY <1>1, <1>4 DEF OwnerInv, Owns, Go, WorkerShapes, Owning
  <1>5. ASSUME NEW w \in Worker, NEW p, NEW s, NEW n, Go(w, p, s, n),
               pc[w] \in Owning, p \notin Owning, running' = running \ {at[w]}
        PROVE  OwnerInv'
    BY <1>1, <1>5 DEF OwnerInv, Owns, Go, WorkerShapes, Owning
  <1>6. ASSUME NEW w \in Worker, NEW p, NEW s, NEW n, Go(w, p, s, n),
               pc[w] \notin Owning, p \notin Owning, running' = running
        PROVE  OwnerInv'
    BY <1>1, <1>6 DEF OwnerInv, Owns, Go, WorkerShapes, Owning
  <1>7. ASSUME NEW w \in Worker, WorkerStep(w) \/ PublishFails(w) PROVE OwnerInv'
    <2>1. pc[w] \in Owning \cup {"join"} => at[w] \in Session
      BY <1>1 DEF WorkerShapes
    <2>2. CASE Receive(w) \/ Ask(w) \/ TakesWake(w) \/ ClaimsNothing(w)
      BY <1>6, <2>2
         DEF Receive, Ask, TakesWake, ClaimsNothing, Idle, laneVars, flagVars, Owning
    <2>3. CASE Join(w)
      <3>1. CASE Refuses(at[w], cur[w]) \/ at[w] \in running
        <4>1. running' = running /\ pc[w] = "join"
          <5>1. pc[w] = "join" /\ (running' = running \/ running' = running \cup {at[w]})
            BY <2>3, Zenon DEF Join, JoinRefused, JoinQueued
          <5>2. Refuses(at[w], cur[w]) => running' = running
            BY <2>3, Zenon DEF Join, JoinRefused
          <5> QED  BY <3>1, <5>1, <5>2
        <4>2. \E p \in {"idle", "ask"} : Go(w, p, None, 0)
          BY <2>3, <3>1, Zenon DEF Join, JoinRefused, JoinQueued, Idle
        <4> QED  BY <1>6, <4>1, <4>2 DEF Owning
      <3>2. CASE ~Refuses(at[w], cur[w]) /\ at[w] \notin running
        BY <1>4, <2>1, <2>3, <3>2, Zenon DEF Join, JoinQueued, Owning
      <3> QED  BY <3>1, <3>2
    <2>4. CASE RunsDry(w) \/ SettleParks(w)
      BY <1>5, <2>4, Zenon DEF RunsDry, SettleParks, Idle, Owning
    <2>5. CASE TakesHead(w) \/ Begin(w) \/ Publish(w) \/ PublishFails(w) \/ SettleDone(w)
               \/ SettleGoesOn(w) \/ Resignal(w)
      <3>1. at[w] \in Session /\ Owns(w, at[w])
        BY <2>1, <2>5, Zenon DEF TakesHead, Begin, Publish, PublishFails, SettleDone, SettleGoesOn,
             Resignal, Owning, Owns
      <3> QED  BY <1>3, <2>5, <3>1, Zenon DEF TakesHead, Begin, Publish, PublishFails, SettleDone,
                 SettleGoesOn, Resignal, Owning, laneVars, flagVars
    <2>6. CASE Claims(w)
      <3>1. PICK k \in 1 .. Len(ready) :
              /\ Claimable(ready[k]) /\ running' = running \cup {ready[k]}
              /\ Go(w, IF k < Len(ready) THEN "resignal" ELSE "head", ready[k], 0)
        BY <2>6 DEF Claims
      <3>2. ready[k] \in Session /\ ready[k] \notin running
        BY <1>1, <3>1 DEF OtherShapes, Claimable
      <3> QED  BY <1>4, <2>6, <3>1, <3>2, Zenon DEF Claims, Owning
    <2> QED  BY <1>7, <2>2, <2>3, <2>4, <2>5, <2>6 DEF WorkerStep
  <1>8. ASSUME NEW j \in Job, Accept(j) \/ Offer(j) PROVE OwnerInv'
    BY <1>2, <1>8 DEF Accept, Offer, laneVars, flagVars, workerVars
  <1>9. ASSUME NEW s \in Session, Forget(s) PROVE OwnerInv'
    BY <1>2, <1>9 DEF Forget, workerVars
  <1>10. CASE PassStep \/ RequesterStep \/ OtherPass \/ LineFails \/ LineDeadline \/ BudgetSpent
    BY <1>2, <1>10 DEF PassStep, OpenFile, Release, FileDone, LineBusy, LineBegin, LinePublish,
         FilesDone, SignalWake, PassOver, RequesterStep, TakesKick, RequestedPass, ResumeDrain,
         OtherPass, StartPass, LineFails, LineDeadline, BudgetSpent, laneVars, flagVars, workerVars
  <1>11. CASE UNCHANGED vars
    BY <1>2, <1>11 DEF vars, laneVars, flagVars, workerVars
  <1> QED  BY <1>7, <1>8, <1>9, <1>10, <1>11 DEF Next

-----------------------------------------------------------------------------
(* PublishInv.                                                              *)

\* The ordering gate alone keeps two publications of a session apart: an unsettled arrival whose
\* predecessors have settled is the next line of its file, if the file holds any unsettled line.
LEMMA GateIsNextLine ==
    ASSUME LaneInv, NEW m \in Arrival, <<file, m>> \notin settled, PredecessorsReady(file, m),
           NEW n \in Unsettled, NextLine(n)
    PROVE  m = n
  <1>1. n \in Nat /\ m \in Nat /\ upTo \in Nat /\ n \in 1 .. upTo /\ <<file, n>> \notin settled
    BY Bounds DEF Unsettled, LaneInv, LaneTypes
  <1>2. ~(n < m)
    BY <1>1 DEF PredecessorsReady
  <1>3. m \in Unsettled
    BY <1>1, <1>2, Bounds DEF Unsettled, Arrival
  <1> QED  BY <1>1, <1>2, <1>3 DEF NextLine

\* A step that starts and ends no publication keeps PublishInv.
LEMMA PublishKept ==
    ASSUME PublishInv, UNCHANGED <<working, settled>>,
           UNCHANGED <<pass, file, upTo>> \/ (pass # "publish" /\ pass' # "publish"),
           \A w \in Worker : pc'[w] = "publish" <=> pc[w] = "publish",
           \A w \in Worker : pc[w] = "publish" => at'[w] = at[w] /\ cur'[w] = cur[w]
    PROVE  PublishInv'
  BY Zenon DEF PublishInv, PredecessorsReady, SettledInOrder, Unsettled, NextLine

\* A worker starts a publication: the gate is open and nobody has the delivery.
LEMMA BeginPublishes ==
    ASSUME LaneInv, OwnerInv, PublishInv, NEW w \in Worker, pc[w] = "begin",
           <<at[w], cur[w]>> \notin settled \cup working, PredecessorsReady(at[w], cur[w]),
           Go(w, "publish", at[w], cur[w]), working' = working \cup {<<at[w], cur[w]>>},
           UNCHANGED <<settled, pass, file, upTo>>
    PROVE  PublishInv'
  <1>1. /\ pc'[w] = "publish" /\ at' = at /\ cur' = cur
        /\ \A v \in Worker \ {w} : pc'[v] = pc[v]
    BY DEF Go, LaneInv, LaneTypes
  <1>2. cur[w] \in Arrival
    BY Zenon DEF LaneInv, WorkShape, Dispatching
  <1>3. pass = "publish" => at[w] # file
    BY <1>2, GateIsNextLine, Zenon DEF PublishInv
  <1> QED  BY <1>1, <1>3 DEF PublishInv, PredecessorsReady, SettledInOrder, Unsettled, NextLine

\* A worker's publication ends, settled or failed: no other worker and no pass has its session.
LEMMA PublishEnds ==
    ASSUME LaneInv, OwnerInv, PublishInv, NEW w \in Worker, NEW p \in {"settled", "pending"},
           pc[w] = "publish", Go(w, p, at[w], cur[w]),
           working' = working \ {<<at[w], cur[w]>>},
           settled' = IF p = "settled" THEN settled \cup {<<at[w], cur[w]>>} ELSE settled,
           UNCHANGED <<pass, file, upTo>>
    PROVE  PublishInv'
  <1>1. /\ pc'[w] = p /\ at' = at /\ cur' = cur
        /\ \A v \in Worker \ {w} : pc'[v] = pc[v]
    BY DEF Go, LaneInv, LaneTypes
  <1>2. at[w] \in Session /\ cur[w] \in Arrival
    BY DEF LaneInv, WorkShape, Owning, Dispatching
  <1>3. \A v \in Worker \ {w} : pc[v] = "publish" => at[v] # at[w]
    BY <1>2 DEF OwnerInv, Owns
  <1>4. settled \subseteq settled' /\ \A s, n : s # at[w] => (<<s, n>> \in settled' <=> <<s, n>> \in settled)
    BY Zenon
  <1>5. \A v \in Worker : pc'[v] = "publish" =>
          <<at'[v], cur'[v]>> \in working' /\ PredecessorsReady(at[v], cur[v])'
    BY <1>1, <1>3, <1>4, Zenon DEF PublishInv, PredecessorsReady
  <1>6. pass = "publish" => file # at[w]
    BY Zenon DEF PublishInv
  <1>7. pass = "publish" => Unsettled' = Unsettled /\ \A n : NextLine(n)' <=> NextLine(n)
    BY <1>4, <1>6 DEF Unsettled, NextLine
  <1>8. pass' = "publish" => \E n \in Unsettled' : NextLine(n)' /\ <<file', n>> \in working'
    BY <1>6, <1>7, Zenon DEF PublishInv
  <1>9. \A v \in Worker : pc'[v] = "publish" /\ pass' = "publish" => at'[v] # file'
    BY <1>1, Zenon DEF PublishInv
  <1>10. working' \cap settled' = {}
    BY Zenon DEF PublishInv
  <1>11. \A j \in working' :
           \/ \E v \in Worker : pc'[v] = "publish" /\ <<at'[v], cur'[v]>> = j
           \/ pass' = "publish" /\ file' = j[1] /\ NextLine(j[2])'
    <2> SUFFICES ASSUME NEW j \in working'
                 PROVE  \/ \E v \in Worker : pc'[v] = "publish" /\ <<at'[v], cur'[v]>> = j
                        \/ pass' = "publish" /\ file' = j[1] /\ NextLine(j[2])'
      BY Zenon
    <2>1. j \in working /\ j # <<at[w], cur[w]>>
      BY Zenon
    <2>2. CASE \E v \in Worker : pc[v] = "publish" /\ <<at[v], cur[v]>> = j
      BY <1>1, <2>1, <2>2, Zenon
    <2>3. CASE pass = "publish" /\ file = j[1] /\ NextLine(j[2])
      BY <1>7, <2>3, Zenon
    <2> QED  BY <2>1, <2>2, <2>3, Zenon DEF PublishInv
  <1>12. SettledInOrder'
    <2>1. \A n \in 1 .. (cur[w] - 1) : <<at[w], n>> \in settled
      BY Zenon DEF PublishInv, PredecessorsReady
    <2>2. ASSUME NEW j \in settled', NEW n \in 1 .. j[2] PROVE <<j[1], n>> \in settled'
      <3>1. CASE j \in settled
        BY <1>4, <2>2, <3>1 DEF PublishInv, SettledInOrder
      <3>2. CASE j \notin settled
        <4>1. j = <<at[w], cur[w]>> /\ <<at[w], cur[w]>> \in settled'
          BY <2>2, <3>2, Zenon
        <4>2. n = cur[w] \/ n \in 1 .. (cur[w] - 1)
          <5>1. cur[w] \in Nat /\ n \in 1 .. cur[w]
            BY <1>2, <2>2, <4>1, Bounds, Zenon
          <5> QED  BY <5>1
        <4> QED  BY <1>4, <2>1, <4>1, <4>2, Zenon
      <3> QED  BY <3>1, <3>2
    <2> QED  BY <2>2, Zenon DEF SettledInOrder
  <1> QED  BY <1>5, <1>8, <1>9, <1>10, <1>11, <1>12, Zenon DEF PublishInv

\* A pass starts to publish the next line: no worker has the delivery, so none has the session.
LEMMA LineBegins ==
    ASSUME LaneInv, OwnerInv, PublishInv, LineBegin
    PROVE  PublishInv'
  <1>1. PICK n \in Unsettled :
          NextLine(n) /\ <<file, n>> \notin working /\ working' = working \cup {<<file, n>>}
    BY DEF LineBegin
  <1>2. /\ pass = "line" /\ pass' = "publish"
        /\ UNCHANGED <<settled, pc, at, cur, file, upTo>>
    BY DEF LineBegin, workerVars
  <1>3. ASSUME NEW w \in Worker, pc[w] = "publish" PROVE at[w] # file
    <2>1. cur[w] \in Arrival /\ <<at[w], cur[w]>> \in working
      BY <1>3, Zenon DEF LaneInv, WorkShape, Dispatching, PublishInv
    <2>2. <<at[w], cur[w]>> \notin settled /\ PredecessorsReady(at[w], cur[w])
      BY <1>3, <2>1 DEF PublishInv
    <2> QED  BY <1>1, <2>1, <2>2, GateIsNextLine
  <1>4. Unsettled' = Unsettled /\ \A m : NextLine(m)' <=> NextLine(m)
    BY <1>2 DEF Unsettled, NextLine
  <1>5. <<file, n>> \notin settled
    BY <1>1 DEF Unsettled
  <1> QED  BY <1>1, <1>2, <1>3, <1>4, <1>5 DEF PublishInv, PredecessorsReady, SettledInOrder

\* A pass ends its publication, settled or failed.
LEMMA LineEnds ==
    ASSUME LaneInv, PublishInv, pass = "publish", pass' # "publish",
           NEW n \in Unsettled, NextLine(n), working' = working \ {<<file, n>>},
           settled' = settled \/ settled' = settled \cup {<<file, n>>}, UNCHANGED <<pc, at, cur>>
    PROVE  PublishInv'
  <1>1. /\ upTo \in Nat /\ n \in 1 .. upTo /\ <<file, n>> \notin settled
        /\ \A m \in Unsettled : n <= m
    BY DEF Unsettled, NextLine, LaneInv, LaneTypes
  <1>2. \A m \in 1 .. (n - 1) : <<file, m>> \in settled
    <2>1. ASSUME NEW m \in 1 .. (n - 1), <<file, m>> \notin settled PROVE FALSE
      <3>1. m \in Unsettled /\ m < n
        BY <1>1, <2>1 DEF Unsettled
      <3> QED  BY <1>1, <3>1
    <2> QED  BY <2>1
  <1>3. settled \subseteq settled' /\ \A j \in settled' \ settled : j = <<file, n>>
    OBVIOUS
  <1>4. SettledInOrder'
    <2>1. ASSUME NEW j \in settled', NEW m \in 1 .. j[2] PROVE <<j[1], m>> \in settled'
      <3>1. CASE j \in settled
        BY <1>3, <2>1, <3>1 DEF PublishInv, SettledInOrder
      <3>2. CASE j \notin settled
        <4>1. j = <<file, n>>
          BY <1>3, <2>1, <3>2
        <4>2. m = n \/ m \in 1 .. (n - 1)
          BY <1>1, <2>1, <4>1
        <4> QED  BY <1>2, <1>3, <2>1, <4>1, <4>2
      <3> QED  BY <3>1, <3>2
    <2> QED  BY <2>1, Zenon DEF SettledInOrder
  <1>5. \A j \in working' : \E w \in Worker : pc[w] = "publish" /\ <<at[w], cur[w]>> = j
    <2>1. ASSUME NEW j \in working', file = j[1], NextLine(j[2]) PROVE FALSE
      <3>1. j \in Job /\ j = <<j[1], j[2]>>
        BY ShapesAre DEF LaneInv, LaneTypes
      <3>2. j[2] \in Unsettled /\ j[2] <= n /\ n <= j[2]
        BY <1>1, <2>1 DEF NextLine
      <3>3. j[2] = n
        BY <1>1, <3>2 DEF Unsettled
      <3> QED  BY <2>1, <3>1, <3>3
    <2> QED  BY <2>1 DEF PublishInv
  <1>6. \A w \in Worker : pc[w] = "publish" =>
          <<at[w], cur[w]>> \in working' /\ PredecessorsReady(at[w], cur[w])'
    BY <1>3 DEF PublishInv, PredecessorsReady
  <1>7. working' \cap settled' = {}
    BY DEF PublishInv
  <1> QED  BY <1>4, <1>5, <1>6, <1>7, Zenon DEF PublishInv

LEMMA PublishInvStep == ASSUME LaneInv, OwnerInv, PublishInv, [Next]_vars PROVE PublishInv'
  <1>1. pc \in [Worker -> Owning \cup {"idle", "join", "ask", "claim"}]
    BY DEF LaneInv, LaneTypes
  <1>2. ASSUME UNCHANGED <<working, settled, pass, file, upTo, pc, at, cur>> PROVE PublishInv'
    BY <1>2, PublishKept
  <1>3. ASSUME NEW w \in Worker, WorkerStep(w) \/ PublishFails(w) PROVE PublishInv'
    <2>1. ASSUME pc[w] # "publish", NEW p, p # "publish", NEW s, NEW n, Go(w, p, s, n),
                 UNCHANGED <<working, settled, pass, file, upTo>>
          PROVE  PublishInv'
      <3>1. /\ pc'[w] = p
            /\ \A v \in Worker \ {w} : pc'[v] = pc[v] /\ at'[v] = at[v] /\ cur'[v] = cur[v]
        BY <1>1, <2>1, Zenon DEF Go, LaneInv, LaneTypes
      <3> QED  BY <2>1, <3>1, PublishKept, Zenon
    <2>2. CASE Begin(w)
      <3>1. CASE /\ <<at[w], cur[w]>> \notin settled \cup working
                 /\ PredecessorsReady(at[w], cur[w])
        BY <2>2, <3>1, BeginPublishes, Zenon DEF Begin, passVars
      <3>2. CASE ~(/\ <<at[w], cur[w]>> \notin settled \cup working
                   /\ PredecessorsReady(at[w], cur[w]))
        BY <2>1, <2>2, <3>2, Zenon DEF Begin, passVars
      <3> QED  BY <3>1, <3>2
    <2>3. CASE Publish(w)
      BY <2>3, PublishEnds, Zenon DEF Publish, passVars
    <2>4. CASE PublishFails(w)
      BY <2>4, PublishEnds, Zenon DEF PublishFails, passVars
    <2>5. CASE Receive(w) \/ Ask(w) \/ TakesHead(w) \/ TakesWake(w) \/ ClaimsNothing(w)
               \/ SettleDone(w) \/ SettleGoesOn(w) \/ Resignal(w)
      BY <2>1, <2>5, Zenon
         DEF Receive, Ask, TakesHead, TakesWake, ClaimsNothing, SettleDone, SettleGoesOn, Resignal,
             Idle, passVars
    <2>6. CASE Join(w)
      BY <2>1, <2>6, Zenon DEF Join, JoinRefused, JoinQueued, Idle, passVars
    <2>7. CASE RunsDry(w) \/ SettleParks(w)
      BY <2>1, <2>7, Zenon DEF RunsDry, SettleParks, Idle, passVars
    <2>8. CASE Claims(w)
      <3>1. PICK k : Go(w, IF k < Len(ready) THEN "resignal" ELSE "head", ready[k], 0)
        BY <2>8, Zenon DEF Claims
      <3> QED  BY <2>1, <2>8, <3>1, Zenon DEF Claims, passVars
    <2> QED  BY <1>3, <2>2, <2>3, <2>4, <2>5, <2>6, <2>7, <2>8 DEF WorkerStep
  <1>4. ASSUME NEW j \in Job, Accept(j) \/ Offer(j) PROVE PublishInv'
    BY <1>2, <1>4 DEF Accept, Offer, workerVars, passVars
  <1>5. ASSUME NEW s \in Session, Forget(s) PROVE PublishInv'
    BY <1>2, <1>5 DEF Forget, workerVars, passVars
  <1>6. ASSUME pass # "publish", pass' # "publish",
               UNCHANGED <<working, settled, workerVars>>
        PROVE  PublishInv'
    BY <1>6, PublishKept, Zenon DEF workerVars
  <1>7. ASSUME NEW s \in Session, OpenFile(s) \/ Release(s) PROVE PublishInv'
    BY <1>6, <1>7, Zenon DEF OpenFile, Release, Wake
  <1>8. CASE FileDone \/ LineBusy \/ FilesDone \/ SignalWake \/ PassOver \/ OtherPass \/ BudgetSpent
             \/ RequestedPass
    BY <1>6, <1>8 DEF FileDone, LineBusy, FilesDone, SignalWake, PassOver, OtherPass, BudgetSpent,
         RequestedPass, StartPass, CloseFile, StopPass
  <1>9. CASE LineBegin
    BY <1>9, LineBegins
  <1>10. CASE LinePublish \/ LineFails \/ LineDeadline
    BY <1>10, LineEnds DEF LinePublish, LineFails, LineDeadline, CloseFile, StopPass, workerVars
  <1>11. CASE TakesKick \/ ResumeDrain
    BY <1>2, <1>11 DEF TakesKick, ResumeDrain, workerVars
  <1>12. CASE UNCHANGED vars
    BY <1>2, <1>12 DEF vars, workerVars, passVars
  <1> QED  BY <1>3, <1>4, <1>5, <1>7, <1>8, <1>9, <1>10, <1>11, <1>12
           DEF Next, PassStep, RequesterStep

-----------------------------------------------------------------------------
(* The theorems.                                                            *)

LEMMA OthersInit == Init => OwnerInv /\ PublishInv
  BY DEF Init, OwnerInv, Owns, PublishInv, SettledInOrder

LEMMA LanesAlways == Spec => [](LaneInv /\ OwnerInv /\ PublishInv)
  <1>1. Init => LaneInv /\ OwnerInv /\ PublishInv
    BY LaneInvInit, OthersInit
  <1>2. LaneInv /\ OwnerInv /\ PublishInv /\ [Next]_vars => (LaneInv /\ OwnerInv /\ PublishInv)'
    BY LaneInvStep, OwnerInvStep, PublishInvStep
  <1> QED  BY <1>1, <1>2, PTL DEF Spec
-----------------------------------------------------------------------------
(* Nothing is forgotten: the wake list.                                     *)

LEMMA WakeStep == ASSUME LaneInv, WakeNotLost, [Next]_vars PROVE WakeNotLost'
  <1>1. pc \in [Worker -> Owning \cup {"idle", "join", "ask", "claim"}]
    BY DEF LaneInv, LaneTypes
  <1>2. ASSUME UNCHANGED <<ready, pc>>, "wake" \in chan => "wake" \in chan',
               pass = "signal" => pass' = "signal"
        PROVE  WakeNotLost'
    BY <1>2 DEF WakeNotLost
  <1>3. ASSUME NEW w \in Worker, WorkerStep(w) \/ PublishFails(w) PROVE WakeNotLost'
    <2>1. ASSUME pc[w] \notin {"claim", "resignal"}, NEW p, NEW s, NEW n, Go(w, p, s, n),
                 UNCHANGED <<ready, pass>>, chan \subseteq chan'
          PROVE  WakeNotLost'
      <3>1. \A v \in Worker \ {w} : pc'[v] = pc[v]
        BY <1>1, <2>1 DEF Go
      <3> QED  BY <2>1, <3>1, Zenon DEF WakeNotLost
    <2>2. CASE TakesWake(w)
      <3>1. pc'[w] = "claim"
        BY <1>1, <2>2 DEF TakesWake, Go
      <3> QED  BY <3>1 DEF WakeNotLost
    <2>3. CASE Claims(w)
      <3>1. PICK k \in 1 .. Len(ready) :
              /\ ready' = SubSeq(ready, k + 1, Len(ready))
              /\ Go(w, IF k < Len(ready) THEN "resignal" ELSE "head", ready[k], 0)
        BY <2>3, Zenon DEF Claims, Unlist
      <3>2. CASE k < Len(ready)
        <4>1. pc'[w] = "resignal"
          BY <1>1, <3>1, <3>2 DEF Go
        <4> QED  BY <4>1 DEF WakeNotLost
      <3>3. CASE ~(k < Len(ready))
        <4>1. Len(ready) \in Nat /\ k = Len(ready)
          BY <3>1, <3>3 DEF LaneInv, LaneTypes
        <4>2. ready' = << >>
          BY <3>1, <4>1
        <4> QED  BY <4>2 DEF WakeNotLost
      <3> QED  BY <3>2, <3>3
    <2>4. CASE ClaimsNothing(w)
      <3>1. ready' = SubSeq(ready, Len(ready) + 1, Len(ready))
        BY <2>4, Zenon DEF ClaimsNothing, Unlist
      <3>2. ready \in Seq(Session)
        BY DEF LaneInv, LaneTypes
      <3>3. ready' = << >>
        BY <3>1, <3>2
      <3> QED  BY <3>3 DEF WakeNotLost
    <2>5. CASE Resignal(w)
      BY <2>5 DEF Resignal, WakeNotLost
    <2>6. CASE Receive(w) \/ Ask(w) \/ TakesHead(w) \/ Publish(w) \/ PublishFails(w)
               \/ SettleDone(w) \/ SettleGoesOn(w)
      BY <2>1, <2>6, Zenon DEF Receive, Ask, TakesHead, Publish, PublishFails, SettleDone, SettleGoesOn,
           Idle, laneVars, passVars
    <2>7. CASE Join(w)
      BY <2>1, <2>7, Zenon DEF Join, JoinRefused, JoinQueued, Idle, passVars
    <2>8. CASE Begin(w)
      BY <2>1, <2>8, Zenon DEF Begin, laneVars, passVars
    <2>9. CASE RunsDry(w) \/ SettleParks(w)
      BY <2>1, <2>9, Zenon DEF RunsDry, SettleParks, Idle, passVars
    <2> QED  BY <1>3, <2>2, <2>3, <2>4, <2>5, <2>6, <2>7, <2>8, <2>9 DEF WorkerStep
  <1>4. ASSUME NEW j \in Job, Accept(j) \/ Offer(j) PROVE WakeNotLost'
    BY <1>2, <1>4 DEF Accept, Offer, laneVars, workerVars, passVars
  <1>5. ASSUME NEW s \in Session, Forget(s) PROVE WakeNotLost'
    BY <1>2, <1>5 DEF Forget, workerVars, passVars
  <1>6. ASSUME NEW s \in Session, Release(s) PROVE WakeNotLost'
    BY <1>6 DEF Release, Wake, workerVars, WakeNotLost
  <1>7. CASE SignalWake
    <2>1. "wake" \in chan'
      BY <1>7 DEF SignalWake
    <2> QED  BY <2>1, Zenon DEF WakeNotLost
  <1>8. ASSUME NEW s \in Session, OpenFile(s) PROVE WakeNotLost'
    BY <1>2, <1>8 DEF OpenFile, laneVars, workerVars
  <1>9. CASE FileDone \/ LineBusy \/ LineBegin \/ LinePublish \/ FilesDone \/ PassOver \/ LineFails
             \/ LineDeadline \/ BudgetSpent \/ OtherPass
    BY <1>2, <1>9 DEF FileDone, LineBusy, LineBegin, LinePublish, FilesDone, PassOver, LineFails,
         LineDeadline, BudgetSpent, OtherPass, StartPass, CloseFile, StopPass, laneVars, workerVars
  <1>10. CASE RequesterStep
    BY <1>2, <1>10
       DEF RequesterStep, TakesKick, RequestedPass, ResumeDrain, StartPass, laneVars, workerVars
  <1>11. CASE UNCHANGED vars
    BY <1>2, <1>11 DEF vars, laneVars, workerVars, passVars
  <1> QED  BY <1>3, <1>4, <1>5, <1>6, <1>7, <1>8, <1>9, <1>10, <1>11 DEF Next, PassStep

-----------------------------------------------------------------------------
(* Nothing is forgotten: the drains that are owed.                          *)

\* A pass has no file left once it releases sessions, and what was given up are jobs.
PassEnds == (pass \in {"release", "signal"} => todo = {}) /\ left \subseteq Job

\* A drain is owed for session s, and somebody is to see to it.
Owed(s) ==
    \/ "drain" \in chan \/ req \in {"asked", "cut", "resume"}
    \/ req = "pass" /\ s \in todo
    \/ s \in overflow \cap running
    \/ \E w \in Worker : pc[w] = "ask"

LEMMA OwedIs == DrainOwed <=> \A j \in left \ settled : Owed(j[1])
  BY DEF DrainOwed, Owed

LEMMA PassEndsStep == ASSUME LaneInv, PassEnds, [Next]_vars PROVE PassEnds'
  <1>1. ASSUME UNCHANGED <<pass, todo>>, left' \subseteq Job PROVE PassEnds'
    BY <1>1 DEF PassEnds
  <1>2. left \subseteq Job
    BY DEF PassEnds
  <1>3. ASSUME NEW w \in Worker, WorkerStep(w) \/ PublishFails(w) PROVE PassEnds'
    <2>1. pc[w] \in Dispatching \cup {"join"} => <<at[w], cur[w]>> \in Job
      BY ShapesAre DEF LaneInv, WorkShape, Owning, Dispatching
    <2>2. CASE Join(w)
      <3>1. at[w] \in Session /\ jobs[at[w]] \in Seq(Arrival)
        BY <2>2 DEF Join, LaneInv, LaneTypes, WorkShape
      <3>2. Evicts(at[w], cur[w]) => <<at[w], jobs[at[w]][Len(jobs[at[w]])]>> \in Job
        <4> SUFFICES ASSUME Evicts(at[w], cur[w])
                     PROVE  jobs[at[w]][Len(jobs[at[w]])] \in Arrival
          BY <3>1, ShapesAre
        <4>1. jobs[at[w]] # << >>
          BY DEF Evicts, Range
        <4> QED  BY <3>1, <4>1
      <3>3. left' \subseteq Job
        <4>1. CASE Refuses(at[w], cur[w])
          <5>1. left' = left \cup {<<at[w], cur[w]>>} /\ <<at[w], cur[w]>> \in Job
            BY <2>1, <2>2, <4>1, Zenon DEF Join, JoinRefused
          <5> QED  BY <1>2, <5>1
        <4>2. CASE ~Refuses(at[w], cur[w])
          <5> DEFINE evicted == IF Evicts(at[w], cur[w]) THEN {jobs[at[w]][Len(jobs[at[w]])]} ELSE {}
          <5>1. left' = left \cup ({at[w]} \X evicted)
            BY <2>2, <4>2, Zenon DEF Join, JoinQueued
          <5>2. \A n \in evicted : <<at[w], n>> \in Job
            BY <3>2, Zenon
          <5> HIDE DEF evicted
          <5> QED  BY <1>2, <5>1, <5>2
        <4> QED  BY <4>1, <4>2
      <3> QED  BY <1>1, <2>2, <3>3, Zenon DEF Join, passVars
    <2>3. CASE SettleParks(w)
      BY <1>1, <1>2, <2>1, <2>3, Zenon DEF SettleParks, passVars, Dispatching
    <2>4. CASE Receive(w) \/ Ask(w) \/ TakesHead(w) \/ Publish(w) \/ PublishFails(w) \/ Begin(w)
               \/ SettleDone(w) \/ SettleGoesOn(w) \/ RunsDry(w) \/ TakesWake(w) \/ Claims(w)
               \/ ClaimsNothing(w) \/ Resignal(w)
      BY <1>1, <1>2, <2>4, Zenon DEF Receive, Ask, TakesHead, Publish, PublishFails, Begin, SettleDone,
           SettleGoesOn, RunsDry, TakesWake, Claims, ClaimsNothing, Resignal, passVars
    <2> QED  BY <1>3, <2>2, <2>3, <2>4 DEF WorkerStep
  <1>4. ASSUME NEW j \in Job, Accept(j) \/ Offer(j) PROVE PassEnds'
    BY <1>1, <1>2, <1>4 DEF Accept, Offer, passVars
  <1>5. ASSUME NEW s \in Session, Forget(s) PROVE PassEnds'
    BY <1>1, <1>2, <1>5 DEF Forget, passVars
  <1>6. ASSUME NEW s \in Session, OpenFile(s) \/ Release(s) PROVE PassEnds'
    BY <1>6, Zenon DEF OpenFile, Release, Wake, PassEnds
  <1>7. CASE FileDone \/ LineBusy \/ LineBegin \/ LinePublish \/ FilesDone \/ SignalWake \/ PassOver
             \/ LineFails \/ LineDeadline \/ BudgetSpent \/ OtherPass \/ RequesterStep
    BY <1>7 DEF FileDone, LineBusy, LineBegin, LinePublish, FilesDone, SignalWake, PassOver, LineFails,
         LineDeadline, BudgetSpent, OtherPass, StartPass, CloseFile, StopPass, RequesterStep,
         TakesKick, RequestedPass, ResumeDrain, PassEnds
  <1>8. CASE UNCHANGED vars
    BY <1>1, <1>2, <1>8 DEF vars, passVars
  <1> QED  BY <1>3, <1>4, <1>5, <1>6, <1>7, <1>8 DEF Next, PassStep

\* No step takes a drain away from a session it is owed to, except by opening the session's file.
LEMMA DrainStep == ASSUME LaneInv, PassEnds, DrainOwed, [Next]_vars PROVE DrainOwed'
  <1>1. pc \in [Worker -> Owning \cup {"idle", "join", "ask", "claim"}]
    BY DEF LaneInv, LaneTypes
  <1>2. \A j \in left \ settled : Owed(j[1]) /\ j[1] \in Session
    BY OwedIs, ShapesAre DEF PassEnds
  <1>3. ASSUME left' \subseteq left, settled \subseteq settled',
               \A s \in Session : Owed(s) => Owed(s)'
        PROVE  DrainOwed'
    BY <1>2, <1>3 DEF DrainOwed, Owed
  <1>4. ASSUME NEW w \in Worker, WorkerStep(w) \/ PublishFails(w) PROVE DrainOwed'
    <2>1. ASSUME pc[w] # "ask", NEW p, NEW s, NEW n, Go(w, p, s, n),
                 UNCHANGED <<todo, req>>, "drain" \in chan => "drain" \in chan',
                 overflow \cap running \subseteq overflow' \cap running'
          PROVE  \A t \in Session : Owed(t) => Owed(t)'
      <3>1. \A v \in Worker \ {w} : pc'[v] = pc[v]
        BY <1>1, <2>1 DEF Go
      <3> QED  BY <2>1, <3>1, Zenon DEF Owed
    <2>2. CASE Ask(w)
      <3>1. "drain" \in chan'
        BY <2>2 DEF Ask
      <3> QED  BY <3>1, Zenon DEF DrainOwed
    <2>3. CASE Join(w)
      <3>1. CASE Refuses(at[w], cur[w])
        <4>1. CASE at[w] \in running
          <5>1. /\ left' = left \cup {<<at[w], cur[w]>>} /\ settled' = settled
                /\ overflow' = overflow \cup {at[w]} /\ running' = running
            BY <2>3, <3>1, <4>1, Zenon DEF Join, JoinRefused
          <5>2. \A s \in Session : Owed(s) => Owed(s)'
            BY <2>1, <2>3, <3>1, <4>1, <5>1, Zenon DEF Join, JoinRefused, Idle, passVars
          <5>3. \A j \in left' : j \in left \/ j[1] \in overflow' \cap running'
            BY <4>1, <5>1
          <5> QED  BY <1>2, <5>1, <5>2, <5>3, Zenon DEF DrainOwed, Owed
        <4>2. CASE at[w] \notin running
          <5>1. pc'[w] = "ask"
            BY <1>1, <2>3, <3>1, <4>2 DEF Join, JoinRefused, Go
          <5> QED  BY <5>1, Zenon DEF DrainOwed
        <4> QED  BY <4>1, <4>2
      <3>2. CASE ~Refuses(at[w], cur[w])
        <4>1. /\ overflow \subseteq overflow' /\ running' = running \cup {at[w]}
              /\ settled' = settled
          BY <2>3, <3>2, Zenon DEF Join, JoinQueued
        <4>2. \A s \in Session : Owed(s) => Owed(s)'
          BY <2>1, <2>3, <3>2, <4>1, Zenon DEF Join, JoinQueued, Idle, passVars
        <4>3. CASE Evicts(at[w], cur[w])
          <5>1. /\ left' \subseteq left \cup ({at[w]} \X {jobs[at[w]][Len(jobs[at[w]])]})
                /\ at[w] \in overflow' \cap running'
            BY <2>3, <3>2, <4>3, Zenon DEF Join, JoinQueued
          <5>2. \A j \in left' : j \in left \/ j[1] = at[w]
            BY <5>1, Zenon
          <5> QED  BY <1>2, <4>1, <4>2, <5>1, <5>2, Zenon DEF DrainOwed, Owed
        <4>4. CASE ~Evicts(at[w], cur[w])
          <5>1. left' = left
            BY <2>3, <3>2, <4>4, Zenon DEF Join, JoinQueued
          <5> QED  BY <1>3, <4>1, <4>2, <5>1
        <4> QED  BY <4>3, <4>4
      <3> QED  BY <3>1, <3>2
    <2>4. CASE RunsDry(w) \/ SettleParks(w)
      <3>1. CASE at[w] \in overflow \/ pc[w] = "pending"
        <4>1. pc'[w] = "ask"
          BY <1>1, <2>4, <3>1, Zenon DEF RunsDry, SettleParks, Go
        <4> QED  BY <4>1, Zenon DEF DrainOwed
      <3>2. CASE ~(at[w] \in overflow \/ pc[w] = "pending")
        <4>1. /\ running' = running \ {at[w]} /\ overflow' = overflow \ {at[w]}
              /\ left' = left /\ settled' = settled
          BY <2>4, <3>2, Zenon DEF RunsDry, SettleParks
        <4>2. \A s \in Session : Owed(s) => Owed(s)'
          BY <2>1, <2>4, <3>2, <4>1, Zenon DEF RunsDry, SettleParks, Idle, passVars
        <4> QED  BY <1>3, <4>1, <4>2
      <3> QED  BY <3>1, <3>2, Zenon
    <2>5. CASE Claims(w)
      <3>1. PICK k \in 1 .. Len(ready) :
              /\ Unlist(k, {ready[i] : i \in 1 .. (k - 1)}) /\ running' = running \cup {ready[k]}
              /\ Go(w, IF k < Len(ready) THEN "resignal" ELSE "head", ready[k], 0)
        BY <2>5, Zenon DEF Claims
      <3>2. overflow \cap running \subseteq overflow' \cap running'
        BY <3>1, Zenon DEF Unlist
      <3>3. \A s \in Session : Owed(s) => Owed(s)'
        BY <2>1, <2>5, <3>1, <3>2, Zenon DEF Claims, passVars
      <3> QED  BY <1>3, <2>5, <3>3, Zenon DEF Claims
    <2>6. CASE ClaimsNothing(w)
      <3>1. overflow \cap running \subseteq overflow' \cap running'
        BY <2>6, Zenon DEF ClaimsNothing, Unlist
      <3>2. \A s \in Session : Owed(s) => Owed(s)'
        BY <2>1, <2>6, <3>1 DEF ClaimsNothing, Idle, passVars
      <3> QED  BY <1>3, <2>6, <3>2 DEF ClaimsNothing
    <2>7. CASE Receive(w) \/ TakesHead(w) \/ Publish(w) \/ PublishFails(w) \/ SettleDone(w)
               \/ SettleGoesOn(w) \/ TakesWake(w) \/ Resignal(w)
      <3>1. \A s \in Session : Owed(s) => Owed(s)'
        BY <2>1, <2>7, Zenon DEF Receive, TakesHead, Publish, PublishFails, SettleDone, SettleGoesOn,
             TakesWake, Resignal, laneVars, flagVars, passVars
      <3> QED  BY <1>3, <2>7, <3>1, Zenon DEF Receive, TakesHead, Publish, PublishFails, SettleDone,
                 SettleGoesOn, TakesWake, Resignal
    <2>8. CASE Begin(w)
      <3>1. \A s \in Session : Owed(s) => Owed(s)'
        BY <2>1, <2>8, Zenon DEF Begin, laneVars, flagVars, passVars
      <3> QED  BY <1>3, <2>8, <3>1, Zenon DEF Begin
    <2> QED  BY <1>4, <2>2, <2>3, <2>4, <2>5, <2>6, <2>7, <2>8 DEF WorkerStep
  <1>5. ASSUME UNCHANGED <<pc, overflow, running>>, left' \subseteq left, settled \subseteq settled',
               "drain" \in chan => "drain" \in chan', UNCHANGED <<todo, req>>
        PROVE  DrainOwed'
    BY <1>3, <1>5 DEF Owed
  <1>6. ASSUME NEW j \in Job, Accept(j) \/ Offer(j) PROVE DrainOwed'
    <2>1. CASE "drain" \in chan'
      BY <2>1, Zenon DEF DrainOwed
    <2>2. CASE "drain" \notin chan'
      BY <1>5, <1>6, <2>2, Zenon DEF Accept, Offer, laneVars, flagVars, workerVars, passVars
    <2> QED  BY <2>1, <2>2
  <1>7. ASSUME NEW s \in Session, Forget(s) PROVE DrainOwed'
    <2>1. \A t \in Session : Owed(t) => Owed(t)'
      BY <1>7 DEF Forget, Owed, workerVars, passVars
    <2> QED  BY <1>3, <1>7, <2>1 DEF Forget
  <1>8. ASSUME NEW s \in Session, OpenFile(s) PROVE DrainOwed'
    <2>1. /\ todo' = todo \ {s} /\ left' = {j \in left : j[1] # s}
          /\ UNCHANGED <<chan, req, pc, overflow, running, settled>>
      BY <1>8 DEF OpenFile, laneVars, flagVars, workerVars
    <2>2. \A t \in Session \ {s} : Owed(t) => Owed(t)'
      BY <2>1 DEF Owed
    <2> QED  BY <1>2, <2>1, <2>2 DEF DrainOwed, Owed
  <1>9. ASSUME NEW s \in Session, Release(s) PROVE DrainOwed'
    BY <1>5, <1>9 DEF Release, Wake, workerVars
  <1>10. CASE FileDone \/ LineBusy \/ LineBegin \/ LinePublish \/ FilesDone \/ SignalWake \/ LineFails
    BY <1>5, <1>10, Zenon DEF FileDone, LineBusy, LineBegin, LinePublish, FilesDone, SignalWake, LineFails,
         CloseFile, laneVars, flagVars, workerVars
  <1>11. CASE LineDeadline \/ BudgetSpent
    <2>1. CASE req = "pass"
      BY <1>11, <2>1, Zenon DEF LineDeadline, BudgetSpent, StopPass, DrainOwed
    <2>2. CASE req # "pass"
      <3>1. \A s \in Session : Owed(s) => Owed(s)'
        BY <1>11, <2>2 DEF LineDeadline, BudgetSpent, StopPass, Owed, laneVars, flagVars, workerVars
      <3> QED  BY <1>3, <1>11, <2>2, <3>1 DEF LineDeadline, BudgetSpent
    <2> QED  BY <2>1, <2>2
  <1>12. CASE PassOver
    <2>1. todo = {}
      BY <1>12 DEF PassOver, PassEnds
    <2>2. \A s \in Session : Owed(s) => Owed(s)'
      BY <1>12, <2>1 DEF PassOver, Owed, laneVars, flagVars, workerVars
    <2> QED  BY <1>3, <1>12, <2>2 DEF PassOver
  <1>13. CASE TakesKick \/ ResumeDrain
    BY <1>13, Zenon DEF TakesKick, ResumeDrain, DrainOwed
  <1>14. CASE RequestedPass \/ OtherPass
    <2>1. \A s \in Session : Owed(s) => Owed(s)'
      BY <1>14 DEF RequestedPass, OtherPass, StartPass, Owed, laneVars, flagVars, workerVars
    <2> QED  BY <1>3, <1>14, <2>1 DEF RequestedPass, OtherPass, StartPass
  <1>15. CASE UNCHANGED vars
    BY <1>5, <1>15 DEF vars, laneVars, flagVars, workerVars, passVars
  <1> QED  BY <1>4, <1>6, <1>7, <1>8, <1>9, <1>10, <1>11, <1>12, <1>13, <1>14, <1>15
           DEF Next, PassStep, RequesterStep
-----------------------------------------------------------------------------
(* Nothing is forgotten: the names of the pending jobs.                     *)

\* The record of unheld jobs has room for whatever is noted.
NotesAll == \A J \in SUBSET Job : Noted(J) = unheld \cup J

\* A job its worker takes for settled has settled, and only jobs are recorded as unheld.
SettledReal ==
    /\ \A w \in Worker : pc[w] = "settled" => <<at[w], cur[w]>> \in settled
    /\ unheld \subseteq Job

\* What is queued once one session's queue is replaced.
LEMMA QueuedAfter ==
    ASSUME LaneInv, NEW s \in Session, NEW r, jobs' = [jobs EXCEPT ![s] = r]
    PROVE  Queued' = {j \in Queued : j[1] # s} \cup {j \in Job : j[1] = s /\ j[2] \in Range(r)}
  <1>1. jobs'[s] = r /\ \A t \in Session \ {s} : jobs'[t] = jobs[t]
    BY DEF LaneInv, LaneTypes
  <1> QED  BY <1>1 DEF Queued, Job

LEMMA NamedIs ==
    EveryPendingJobNamed <=> Leased \ (settled \cup accepting) \subseteq unheld \cup Queued
  BY DEF EveryPendingJobNamed, Leased, Queued

\* A step that leases nothing and drops no unsettled name keeps every pending job named.
LEMMA NamedKept ==
    ASSUME EveryPendingJobNamed, UNCHANGED <<last, accepting>>, settled \subseteq settled',
           (unheld \cup Queued) \ settled' \subseteq unheld' \cup Queued'
    PROVE  EveryPendingJobNamed'
  <1>1. Leased' = Leased
    BY DEF Leased
  <1>2. (Leased \ (settled \cup accepting))' \subseteq (unheld \cup Queued)'
    BY <1>1, NamedIs
  <1> QED  BY <1>2 DEF EveryPendingJobNamed, Leased, Queued

\* A join keeps every name, and a settled job drops no other's.
NamesKept ==
    \A w \in Worker :
        /\ Join(w) => unheld' \subseteq Job /\ unheld \cup Queued \subseteq unheld' \cup Queued'
        /\ SettleDone(w) => Queued \ {<<at[w], cur[w]>>} \subseteq Queued'

\* If neither a join nor a settled job drops another's name, every pending job keeps its name.
LEMMA NamedStep ==
    ASSUME LaneInv, SettledReal, NotesAll, EveryPendingJobNamed, [Next]_vars,
           NamesKept
    PROVE  SettledReal' /\ EveryPendingJobNamed'
  <1>1. /\ pc \in [Worker -> Owning \cup {"idle", "join", "ask", "claim"}]
        /\ at \in [Worker -> Session \cup {None}] /\ cur \in [Worker -> 0 .. MaxArrival]
    BY DEF LaneInv, LaneTypes
  <1>2. ASSUME UNCHANGED <<pc, at, cur>>, settled \subseteq settled', unheld' \subseteq Job
        PROVE  SettledReal'
    BY <1>2 DEF SettledReal
  <1>3. unheld \subseteq Job /\ (UNCHANGED jobs => Queued' = Queued)
    BY Zenon DEF SettledReal, Queued
  <1>4. ASSUME NEW j \in Job, Accept(j) PROVE SettledReal' /\ EveryPendingJobNamed'
    <2>1. SettledReal' /\ Queued' = Queued /\ UNCHANGED <<unheld, settled>>
      BY <1>2, <1>3, <1>4, Zenon DEF Accept, laneVars, queueVars, workerVars
    <2>2. accepting' = accepting \cup {j} /\ Leased' \subseteq Leased \cup {j}
      <3>1. last' = last \/ (j[2] = last[j[1]] + 1 /\ last' = [last EXCEPT ![j[1]] = j[2]])
        BY <1>4 DEF Accept
      <3>2. last \in [Session -> 0 .. MaxArrival] /\ j[1] \in Session /\ j = <<j[1], j[2]>>
        BY ShapesAre DEF LaneInv, LaneTypes
      <3>3. ASSUME NEW i \in Leased', i # j PROVE i \in Leased
        <4>1. i \in Job /\ i[2] <= last'[i[1]] /\ i = <<i[1], i[2]>> /\ i[1] \in Session
              /\ i[2] \in Arrival
          BY <3>3, ShapesAre DEF Leased
        <4>2. CASE last'[i[1]] = last[i[1]]
          BY <4>1, <4>2 DEF Leased
        <4>3. CASE last'[i[1]] # last[i[1]]
          <5>1. i[1] = j[1] /\ last'[i[1]] = j[2] /\ j[2] = last[i[1]] + 1
            BY <3>1, <3>2, <4>1, <4>3
          <5>2. i[2] # j[2]
            BY <3>2, <3>3, <4>1, <5>1
          <5>3. i[2] \in Nat /\ last[i[1]] \in Nat
            BY <3>2, <4>1, Bounds
          <5> QED  BY <4>1, <5>1, <5>2, <5>3 DEF Leased
        <4> QED  BY <4>2, <4>3, Zenon
      <3> QED  BY <1>4, <3>3 DEF Accept
    <2>3. (Leased \ (settled \cup accepting))' \subseteq (unheld \cup Queued)'
      BY <2>1, <2>2, NamedIs
    <2> QED  BY <2>1, <2>3, Zenon DEF EveryPendingJobNamed, Leased, Queued
  <1>5. ASSUME NEW j \in Job, Offer(j) PROVE SettledReal' /\ EveryPendingJobNamed'
    <2>1. Noted({j}) = unheld \cup {j}
      BY DEF NotesAll
    <2>2. /\ accepting' = accepting \ {j} /\ unheld' = unheld \cup {j}
          /\ UNCHANGED <<last, jobs, settled, pc, at, cur>>
      BY <1>5, <2>1, Zenon DEF Offer, queueVars, workerVars
    <2>3. SettledReal' /\ Queued' = Queued /\ Leased' = Leased
      BY <1>2, <1>3, <2>2 DEF Leased
    <2>4. (Leased \ (settled \cup accepting))' \subseteq (unheld \cup Queued)'
      BY <2>2, <2>3, NamedIs
    <2> QED  BY <2>3, <2>4, Zenon DEF EveryPendingJobNamed, Leased, Queued
  <1>6. ASSUME NEW w \in Worker, WorkerStep(w) \/ PublishFails(w)
        PROVE  SettledReal' /\ EveryPendingJobNamed'
    <2>1. ASSUME NEW p, NEW s, NEW n, Go(w, p, s, n), settled \subseteq settled',
                 unheld' \subseteq Job, p = "settled" => <<s, n>> \in settled'
          PROVE  SettledReal'
      <3>1. /\ pc'[w] = p /\ at'[w] = s /\ cur'[w] = n
            /\ \A v \in Worker \ {w} : pc'[v] = pc[v] /\ at'[v] = at[v] /\ cur'[v] = cur[v]
        BY <1>1, <2>1 DEF Go
      <3> QED  BY <2>1, <3>1, Zenon DEF SettledReal
    <2>2. CASE Join(w)
      <3>1. unheld' \subseteq Job /\ unheld \cup Queued \subseteq unheld' \cup Queued'
        BY <2>2, Zenon DEF NamesKept
      <3>2. EveryPendingJobNamed'
        BY <2>2, <3>1, NamedKept, Zenon DEF Join, acceptVars
      <3>3. SettledReal'
        BY <2>1, <2>2, <3>1, Zenon DEF Join, JoinRefused, JoinQueued, Idle
      <3> QED  BY <3>2, <3>3, Zenon
    <2>3. CASE SettleDone(w)
      <3>1. <<at[w], cur[w]>> \in settled /\ Queued \ {<<at[w], cur[w]>>} \subseteq Queued'
        BY <2>3, Zenon DEF SettledReal, SettleDone, NamesKept
      <3>2. UNCHANGED <<last, accepting, settled, unheld>>
        BY <2>3, Zenon DEF SettleDone, acceptVars
      <3>3. EveryPendingJobNamed'
        BY <3>1, <3>2, NamedKept
      <3> QED  BY <1>3, <2>1, <2>3, <3>3, Zenon DEF SettleDone
    <2>4. CASE Receive(w) \/ Ask(w) \/ TakesHead(w) \/ Publish(w) \/ PublishFails(w)
               \/ SettleGoesOn(w) \/ TakesWake(w) \/ Resignal(w) \/ ClaimsNothing(w)
      <3>1. UNCHANGED <<jobs, unheld, last, accepting>> /\ settled \subseteq settled'
        BY <2>4, Zenon DEF Receive, Ask, TakesHead, Publish, PublishFails, SettleGoesOn, TakesWake,
             Resignal, ClaimsNothing, laneVars, queueVars, acceptVars
      <3>2. EveryPendingJobNamed'
        BY <1>3, <3>1, NamedKept
      <3>3. SettledReal'
        BY <1>3, <2>1, <2>4, <3>1, Zenon DEF Receive, Ask, TakesHead, Publish, PublishFails,
             SettleGoesOn, TakesWake, Resignal, ClaimsNothing, Idle
      <3> QED  BY <3>2, <3>3
    <2>5. CASE Begin(w) \/ RunsDry(w) \/ SettleParks(w) \/ Claims(w)
      <3>1. UNCHANGED <<jobs, unheld, last, accepting, settled>>
        BY <2>5, Zenon DEF Begin, RunsDry, SettleParks, Claims, laneVars, queueVars, acceptVars
      <3>2. EveryPendingJobNamed'
        BY <1>3, <3>1, NamedKept, Zenon
      <3>3. CASE Begin(w)
        BY <1>3, <2>1, <3>1, <3>2, <3>3, Zenon DEF Begin
      <3>4. CASE RunsDry(w) \/ SettleParks(w)
        BY <1>3, <2>1, <3>1, <3>2, <3>4, Zenon DEF RunsDry, SettleParks, Idle
      <3>5. CASE Claims(w)
        <4>1. PICK k : Go(w, IF k < Len(ready) THEN "resignal" ELSE "head", ready[k], 0)
          BY <3>5, Zenon DEF Claims
        <4> QED  BY <1>3, <2>1, <3>1, <3>2, <4>1, Zenon
      <3> QED  BY <2>5, <3>3, <3>4, <3>5, Zenon
    <2> QED  BY <1>6, <2>2, <2>3, <2>4, <2>5, Zenon DEF WorkerStep
  <1>7. ASSUME NEW s \in Session, Forget(s) PROVE SettledReal' /\ EveryPendingJobNamed'
    <2> DEFINE gone == {s} \X Range(jobs[s])
    <2>1. gone \in SUBSET Job
      <3>1. jobs[s] \in Seq(Arrival) /\ 1 \in Arrival
        BY Bounds DEF LaneInv, LaneTypes, Arrival
      <3>2. Range(jobs[s]) \subseteq Arrival
        BY <3>1, QueueTypes
      <3> QED  BY <3>2, ShapesAre
    <2>2. /\ unheld' = unheld \cup gone /\ jobs' = [jobs EXCEPT ![s] = << >>]
          /\ UNCHANGED <<last, accepting, settled, pc, at, cur>>
      BY <1>7, <2>1, Zenon DEF NotesAll, Forget, acceptVars, workerVars
    <2>3. \A j \in Queued : j[1] # s => j \in Queued'
      <3>1. Queued' = {j \in Queued : j[1] # s} \cup {j \in Job : j[1] = s /\ j[2] \in Range(<< >>)}
        BY <2>2, QueuedAfter, Zenon
      <3> QED  BY <3>1
    <2>4. \A j \in Queued : j[1] = s => j \in gone
      BY DEF Queued, Job
    <2> HIDE DEF gone
    <2>5. EveryPendingJobNamed'
      BY <2>2, <2>3, <2>4, NamedKept, Zenon
    <2> QED  BY <1>2, <1>3, <2>1, <2>2, <2>5, Zenon
  <1>8. ASSUME NEW s \in Session, Release(s) PROVE SettledReal' /\ EveryPendingJobNamed'
    <2>1. /\ unheld' = {j \in unheld : j[1] = s => j \notin settled}
          /\ UNCHANGED <<jobs, last, accepting, settled, pc, at, cur>>
      BY <1>8 DEF Release, queueVars, acceptVars, workerVars
    <2> QED  BY <1>2, <1>3, <2>1, NamedKept
  <1>9. ASSUME UNCHANGED <<unheld, jobs, last, accepting, pc, at, cur>>, settled \subseteq settled'
        PROVE  SettledReal' /\ EveryPendingJobNamed'
    BY <1>2, <1>3, <1>9, NamedKept, Zenon
  <1>10. ASSUME NEW s \in Session, OpenFile(s) PROVE SettledReal' /\ EveryPendingJobNamed'
    BY <1>9, <1>10 DEF OpenFile, laneVars, queueVars, acceptVars, workerVars
  <1>11. CASE FileDone \/ LineBusy \/ LineBegin \/ LinePublish \/ FilesDone \/ SignalWake \/ PassOver
              \/ LineFails \/ LineDeadline \/ BudgetSpent \/ OtherPass \/ RequesterStep
    BY <1>9, <1>11 DEF FileDone, LineBusy, LineBegin, LinePublish, FilesDone, SignalWake, PassOver,
         LineFails, LineDeadline, BudgetSpent, OtherPass, StartPass, RequesterStep, TakesKick,
         RequestedPass, ResumeDrain, laneVars, queueVars, acceptVars, workerVars
  <1>12. CASE UNCHANGED vars
    BY <1>9, <1>12, Zenon DEF vars, laneVars, queueVars, acceptVars, workerVars
  <1> QED  BY <1>4, <1>5, <1>6, <1>7, <1>8, <1>10, <1>11, <1>12 DEF Next, PassStep
-----------------------------------------------------------------------------
\* A wake signal is on its way while a lane is listed, and a drain is on its way for what was given
\* up to the WAL (wake, claimReady, requestDrain, drainOnRequest), whatever the capacities.
THEOREM WakesAndDrainsOwedAlways == Spec => [](WakeNotLost /\ DrainOwed)
  <1>1. Init => PassEnds /\ WakeNotLost /\ DrainOwed
    BY DEF Init, PassEnds, WakeNotLost, DrainOwed
  <1>2. LaneInv /\ PassEnds /\ WakeNotLost /\ DrainOwed /\ [Next]_vars
          => (PassEnds /\ WakeNotLost /\ DrainOwed)'
    BY WakeStep, PassEndsStep, DrainStep
  <1> QED  BY <1>1, <1>2, LanesAlways, PTL DEF Spec
=============================================================================
