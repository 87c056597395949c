--------------------------- MODULE DispatchLanes ---------------------------
(* The live dispatch of leased deliveries: the ingest ring, the worker      *)
(* pool, one lane per session, the wake list, the drain requests the lanes  *)
(* make and the drain pass that serves them (internal/daemon ingest.go,     *)
(* delivery_order.go, delivery_unheld.go, and the parts of drain.go that    *)
(* touch the lanes).                                                        *)
(*                                                                          *)
(* A job is <<session, arrival>>: the journal numbers a session's leases    *)
(* 1, 2, ... in lease order, so the pair names the delivery.  Only leased   *)
(* jobs enter a lane.  `settled' stands for the committed frontier together *)
(* with the proven denials: what the ordering gate lets successors pass.    *)
(* Each step is one critical section (dispatchLanes.mu, seenSet.mu, a       *)
(* channel operation) or one publication.  Of sessionLane.signals only the  *)
(* owner's comparison across a dispatch is kept: the set `signalled' holds  *)
(* the sessions joined or woken since the owner last read the head.         *)
EXTENDS LaneQueue, Naturals, Sequences, FiniteSets, Functions

CONSTANTS
    Session, Worker,
    None,           \* no session: an idle worker, a pass with no open file
    MaxArrival,     \* arrivals of one session
    RingCapacity, LaneCapacity, LaneSessionCapacity, UnheldCapacity,
    MaxFailures,    \* publications that fail, of workers and passes together
    MaxCopies,      \* second accepts of a nonce already leased
    MaxForgets      \* session ends that forget a lane

ASSUME LaneAssumption ==
    /\ None \notin Session
    /\ {MaxArrival, LaneCapacity, LaneSessionCapacity, UnheldCapacity} \subseteq Nat \ {0}
    /\ {RingCapacity, MaxFailures, MaxCopies, MaxForgets} \subseteq Nat

Job == Session \X (1 .. MaxArrival)

VARIABLES
    last,       \* the arrivals leased so far, per session
    accepting,  \* leased jobs Accept has not yet offered to the ring
    ring,       \* ingest.ring
    lanes,      \* the sessions dispatchLanes.lanes holds a lane for
    jobs,       \* sessionLane.jobs: the queued arrivals
    running, woken, overflow, signalled,    \* sessionLane's flags
    held,       \* dispatchLanes.held
    ready,      \* dispatchLanes.ready
    unheld,     \* dispatchLanes.unheld
    chan,       \* which of the one-place channels wake and drainKick are full
    working,    \* seenSet.working
    settled,    \* acknowledged or retired in the delivery journal
    pc, at, cur,            \* a worker's step, its session and its job's arrival
    pass, todo, file, upTo, \* the drain pass: its step, the files left, the open one
    released,   \* drainer.releasedSessions
    req,        \* drainOnRequest
    budget,     \* what is left of the three Max bounds
    left        \* history: given up to the WAL, not yet in reach of a pass

queueVars == <<lanes, jobs, held>>
flagVars == <<running, woken, overflow, signalled>>
laneVars == <<queueVars, flagVars, ready, unheld>>
workerVars == <<pc, at, cur>>
passVars == <<pass, todo, file, upTo, released, req>>
acceptVars == <<last, accepting, ring>>
vars == <<acceptVars, laneVars, workerVars, passVars, chan, working, settled, budget, left>>

Leased == {j \in Job : j[2] <= last[j[1]]}

\* The shape of every variable; a lane's queue is within its session's bound.
TypeOK ==
    /\ last \in [Session -> 0 .. MaxArrival]
    /\ accepting \subseteq Leased
    /\ ring \in Seq(Job) /\ Len(ring) <= RingCapacity
    /\ lanes \subseteq Session /\ running \subseteq lanes /\ woken \subseteq lanes
    /\ overflow \subseteq lanes /\ signalled \subseteq lanes
    /\ jobs \in [Session -> Seq(1 .. MaxArrival)]
    /\ \A s \in Session \ lanes : jobs[s] = << >>
    /\ held \in 0 .. LaneCapacity /\ ready \in Seq(Session)
    /\ unheld \subseteq Leased /\ working \subseteq Leased
    /\ settled \subseteq Leased /\ left \subseteq Leased
    /\ chan \subseteq {"wake", "drain"}
    /\ pc \in [Worker -> {"idle", "join", "ask", "head", "begin", "publish",
                          "settled", "pending", "busy", "claim", "resignal"}]
    /\ at \in [Worker -> Session \cup {None}] /\ cur \in [Worker -> 0 .. MaxArrival]
    /\ pass \in {"none", "files", "line", "publish", "release", "signal"}
    /\ todo \subseteq Session /\ file \in Session \cup {None} /\ upTo \in 0 .. MaxArrival
    /\ released \subseteq Session
    /\ req \in {"idle", "asked", "pass", "cut", "resume"}
    /\ budget \in [{"fail", "copy", "forget"} -> Nat]

Init ==
    /\ last = [s \in Session |-> 0]
    /\ accepting = {} /\ ring = << >>
    /\ lanes = {} /\ running = {} /\ woken = {} /\ overflow = {} /\ signalled = {}
    /\ jobs = [s \in Session |-> << >>] /\ held = 0
    /\ ready = << >> /\ unheld = {} /\ chan = {} /\ working = {} /\ settled = {}
    /\ pc = [w \in Worker |-> "idle"]
    /\ at = [w \in Worker |-> None] /\ cur = [w \in Worker |-> 0]
    /\ pass = "none" /\ todo = {} /\ file = None /\ upTo = 0 /\ released = {}
    /\ req = "idle"
    /\ budget = [fail |-> MaxFailures, copy |-> MaxCopies, forget |-> MaxForgets]
    /\ left = {}

Spend(b) == budget[b] > 0 /\ budget' = [budget EXCEPT ![b] = @ - 1]

-----------------------------------------------------------------------------
(* Accept: the line is made durable and leased, then offered to the ring.   *)

\* makeDurable: the session's next lease, or the lease of a nonce accepted before.
Accept(j) ==
    /\ j \notin accepting
    /\ \/ /\ j[2] = last[j[1]] + 1
          /\ last' = [last EXCEPT ![j[1]] = j[2]]
          /\ UNCHANGED budget
       \/ /\ j \in Leased
          /\ Spend("copy")
          /\ UNCHANGED last
    /\ accepting' = accepting \cup {j}
    /\ UNCHANGED <<ring, laneVars, workerVars, passVars, chan, working, settled, left>>

\* The record of leased jobs no lane holds, once the jobs of J, of one session, are noted in arrival
\* order: none once it is full.
Noted(J) ==
    unheld \cup {j \in J : Cardinality(unheld \cup {i \in J : i[2] <= j[2]}) <= UnheldCapacity}

\* Accept's second half: the job is recorded as unheld, then sent to the ring without blocking; a
\* full ring drops it and asks for a drain.
Offer(j) ==
    /\ j \in accepting
    /\ accepting' = accepting \ {j}
    /\ unheld' = Noted({j})
    /\ IF Len(ring) < RingCapacity
       THEN ring' = Append(ring, j) /\ UNCHANGED <<chan, left>>
       ELSE UNCHANGED ring /\ chan' = chan \cup {"drain"} /\ left' = left \cup {j}
    /\ UNCHANGED <<last, queueVars, flagVars, ready, workerVars, passVars, working, settled, budget>>

-----------------------------------------------------------------------------
(* The worker loop.  Go(w, p, s, n) is the worker's next step, session, job. *)

Go(w, p, s, n) ==
    /\ pc' = [pc EXCEPT ![w] = p]
    /\ at' = [at EXCEPT ![w] = s]
    /\ cur' = [cur EXCEPT ![w] = n]

Idle(w) == Go(w, "idle", None, 0)

Receive(w) ==
    /\ pc[w] = "idle" /\ ring # << >>
    /\ ring' = Tail(ring)
    /\ Go(w, "join", Head(ring)[1], Head(ring)[2])
    /\ UNCHANGED <<last, accepting, laneVars, passVars, chan, working, settled,
                   budget, left>>

\* requestDrain: a request made while one is pending merges into it.
Ask(w) ==
    /\ pc[w] = "ask"
    /\ chan' = chan \cup {"drain"}
    /\ Idle(w)
    /\ UNCHANGED <<acceptVars, laneVars, passVars, working, settled, budget, left>>

Full(s) == held >= LaneCapacity \/ Len(jobs[s]) >= LaneSessionCapacity

\* join finds no room for an arrival later than everything queued, or no room for a new lane.
Refuses(s, n) ==
    IF s \in lanes
    THEN n \notin Range(jobs[s]) /\ Full(s) /\ \A m \in Range(jobs[s]) : m < n
    ELSE held >= LaneCapacity

\* join finds the lane at a bound, and a later arrival that gives its place up.
Evicts(s, n) ==
    s \in lanes /\ n \notin Range(jobs[s]) /\ Full(s) /\ \E m \in Range(jobs[s]) : m > n

\* The refusal: a lane with an owner leaves the request to it, otherwise the caller asks.
JoinRefused(w, s, n) ==
    /\ left' = left \cup {<<s, n>>}
    /\ unheld' = Noted({<<s, n>>})
    /\ IF s \in running
       THEN overflow' = overflow \cup {s} /\ Idle(w)
       ELSE UNCHANGED overflow /\ Go(w, "ask", None, 0)
    /\ UNCHANGED <<queueVars, running, signalled>>

\* The queueing; the worker owns the lane unless another one does.
JoinQueued(w, s, n) ==
    LET evicted == IF Evicts(s, n) THEN {jobs[s][Len(jobs[s])]} ELSE {}
        kept == IF Evicts(s, n) THEN Front(jobs[s]) ELSE jobs[s]
    IN  /\ jobs' = [jobs EXCEPT ![s] = Insert(kept, n)]
        /\ held' = held - Cardinality(evicted) + (IF n \in Range(kept) THEN 0 ELSE 1)
        /\ unheld' = Noted({s} \X evicted) \ {<<s, n>>}
        /\ overflow' = IF Evicts(s, n) THEN overflow \cup {s} ELSE overflow
        /\ left' = left \cup ({s} \X evicted)
        /\ lanes' = lanes \cup {s}
        /\ signalled' = signalled \cup {s}
        /\ running' = running \cup {s}
        /\ IF s \in running THEN Idle(w) ELSE Go(w, "head", s, 0)

Join(w) ==
    /\ pc[w] = "join"
    /\ IF Refuses(at[w], cur[w])
       THEN JoinRefused(w, at[w], cur[w])
       ELSE JoinQueued(w, at[w], cur[w])
    /\ UNCHANGED <<acceptVars, woken, ready, passVars, chan, working, settled, budget>>

-----------------------------------------------------------------------------
(* runLane: head, dispatch, settle.                                         *)

\* head of an empty lane: the lane is released, and forgotten unless a wake lists it.
RunsDry(w) ==
    /\ pc[w] = "head" /\ jobs[at[w]] = << >>
    /\ running' = running \ {at[w]}
    /\ overflow' = overflow \ {at[w]}
    /\ lanes' = IF at[w] \in woken THEN lanes ELSE lanes \ {at[w]}
    /\ signalled' = IF at[w] \in woken THEN signalled ELSE signalled \ {at[w]}
    /\ IF at[w] \in overflow THEN Go(w, "ask", None, 0) ELSE Idle(w)
    /\ UNCHANGED <<acceptVars, jobs, held, woken, ready, unheld, passVars, chan, working,
                   settled, budget, left>>

TakesHead(w) ==
    /\ pc[w] = "head" /\ jobs[at[w]] # << >>
    /\ signalled' = signalled \ {at[w]}
    /\ Go(w, "begin", at[w], Head(jobs[at[w]]))
    /\ UNCHANGED <<acceptVars, queueVars, running, woken, overflow, ready, unheld, passVars,
                   chan, working, settled, budget, left>>

\* Deviation: the arrival just before is not looked at.
PredecessorsReadyButLast(s, n) == \A m \in 1 .. (n - 2) : <<s, m>> \in settled

\* predecessorsAcknowledged: every earlier arrival of the session has settled.
PredecessorsReady(s, n) == \A m \in 1 .. (n - 1) : <<s, m>> \in settled

\* dispatch up to its publication: the seen set, then the ordering gate.  The gate only ever turns
\* from closed to open, and a job it defers is given back with nothing published.
Begin(w) ==
    LET j == <<at[w], cur[w]>> IN
    /\ pc[w] = "begin"
    /\ \/ j \in settled /\ Go(w, "settled", at[w], cur[w]) /\ UNCHANGED working
       \/ j \notin settled /\ j \in working /\ Go(w, "busy", at[w], cur[w]) /\ UNCHANGED working
       \/ /\ j \notin settled \cup working /\ ~PredecessorsReady(at[w], cur[w])
          /\ Go(w, "pending", at[w], cur[w]) /\ UNCHANGED working
       \/ /\ j \notin settled \cup working /\ PredecessorsReady(at[w], cur[w])
          /\ Go(w, "publish", at[w], cur[w]) /\ working' = working \cup {j}
    /\ UNCHANGED <<acceptVars, laneVars, passVars, chan, settled, budget, left>>

\* The capture, the handler and the acknowledgement, or a proven denial: the job settles.
Publish(w) ==
    /\ pc[w] = "publish"
    /\ settled' = settled \cup {<<at[w], cur[w]>>}
    /\ working' = working \ {<<at[w], cur[w]>>}
    /\ Go(w, "settled", at[w], cur[w])
    /\ UNCHANGED <<acceptVars, laneVars, passVars, chan, budget, left>>

\* Deviation: a failed publication leaves its delivery marked as working.
PublishFailsKeepsSeen(w) ==
    /\ pc[w] = "publish"
    /\ Spend("fail")
    /\ Go(w, "pending", at[w], cur[w])
    /\ UNCHANGED <<acceptVars, laneVars, passVars, chan, working, settled, left>>

\* A stage fails (blob, policy, capture, handler, acknowledgement, a panic): retryable.
PublishFails(w) ==
    /\ pc[w] = "publish"
    /\ Spend("fail")
    /\ working' = working \ {<<at[w], cur[w]>>}
    /\ Go(w, "pending", at[w], cur[w])
    /\ UNCHANGED <<acceptVars, laneVars, passVars, chan, settled, left>>

SettleDone(w) ==
    /\ pc[w] = "settled"
    /\ jobs' = [jobs EXCEPT ![at[w]] = Without(@, cur[w])]
    /\ held' = IF cur[w] \in Range(jobs[at[w]]) THEN held - 1 ELSE held
    /\ Go(w, "head", at[w], 0)
    /\ UNCHANGED <<acceptVars, lanes, flagVars, ready, unheld, passVars,
                   chan, working, settled, budget, left>>

\* A pending or busy head: go on if the lane was signalled meanwhile, otherwise park.
SettleGoesOn(w) ==
    /\ pc[w] \in {"pending", "busy"} /\ at[w] \in signalled
    /\ Go(w, "head", at[w], 0)
    /\ UNCHANGED <<acceptVars, laneVars, passVars, chan, working, settled, budget, left>>

\* Deviation: a lane that parks with an overflow asks for no drain.
SettleParksQuietly(w) ==
    /\ pc[w] \in {"pending", "busy"} /\ at[w] \notin signalled
    /\ running' = running \ {at[w]}
    /\ overflow' = overflow \ {at[w]}
    /\ left' = IF pc[w] = "pending" THEN left \cup {<<at[w], cur[w]>>} ELSE left
    /\ IF pc[w] = "pending" THEN Go(w, "ask", None, 0) ELSE Idle(w)
    /\ UNCHANGED <<acceptVars, queueVars, woken, signalled, ready, unheld, passVars, chan,
                   working, settled, budget>>

SettleParks(w) ==
    /\ pc[w] \in {"pending", "busy"} /\ at[w] \notin signalled
    /\ running' = running \ {at[w]}
    /\ overflow' = overflow \ {at[w]}
    /\ left' = IF pc[w] = "pending" THEN left \cup {<<at[w], cur[w]>>} ELSE left
    /\ IF pc[w] = "pending" \/ at[w] \in overflow THEN Go(w, "ask", None, 0) ELSE Idle(w)
    /\ UNCHANGED <<acceptVars, queueVars, woken, signalled, ready, unheld, passVars, chan,
                   working, settled, budget>>

-----------------------------------------------------------------------------
(* The wake list.                                                           *)

\* The signal is taken from the channel, then the list is read under the lanes' lock.
TakesWake(w) ==
    /\ pc[w] = "idle" /\ "wake" \in chan
    /\ chan' = chan \ {"wake"}
    /\ Go(w, "claim", None, 0)
    /\ UNCHANGED <<acceptVars, laneVars, passVars, working, settled, budget, left>>

Claimable(s) == s \in lanes /\ s \notin running /\ jobs[s] # << >>

\* claimReady passes the first k entries of the list; the lanes of S were listed and are not taken.
Unlist(k, S) ==
    LET gone == {s \in S \cap lanes : s \notin running /\ jobs[s] = << >>}
    IN  /\ ready' = SubSeq(ready, k + 1, Len(ready))
        /\ woken' = woken \ {ready[i] : i \in 1 .. k}
        /\ lanes' = lanes \ gone
        /\ overflow' = overflow \ gone
        /\ signalled' = signalled \ gone

Claims(w) ==
    /\ pc[w] = "claim"
    /\ \E k \in 1 .. Len(ready) :
         /\ Claimable(ready[k])
         /\ \A i \in 1 .. (k - 1) : ~Claimable(ready[i])
         /\ Unlist(k, {ready[i] : i \in 1 .. (k - 1)})
         /\ running' = running \cup {ready[k]}
         /\ Go(w, IF k < Len(ready) THEN "resignal" ELSE "head", ready[k], 0)
    /\ UNCHANGED <<acceptVars, jobs, held, unheld, passVars, chan, working, settled, budget, left>>

ClaimsNothing(w) ==
    /\ pc[w] = "claim"
    /\ \A i \in 1 .. Len(ready) : ~Claimable(ready[i])
    /\ Unlist(Len(ready), Range(ready))
    /\ Idle(w)
    /\ UNCHANGED <<acceptVars, jobs, held, running, unheld, passVars, chan, working, settled,
                   budget, left>>

\* More lanes are listed: the signal is passed on before this lane is run.
Resignal(w) ==
    /\ pc[w] = "resignal"
    /\ chan' = chan \cup {"wake"}
    /\ Go(w, "head", at[w], 0)
    /\ UNCHANGED <<acceptVars, laneVars, passVars, working, settled, budget, left>>

\* wake, for a session a finished pass released.
Wake(s) ==
    /\ signalled' = IF s \in lanes THEN signalled \cup {s} ELSE signalled
    /\ IF Claimable(s) /\ s \notin woken
       THEN woken' = woken \cup {s} /\ ready' = Append(ready, s) /\ pass' = "signal"
       ELSE UNCHANGED <<woken, ready, pass>>

\* forget: an ended session's lane, unless a worker owns it.  The end's own drain follows.
Forget(s) ==
    /\ s \in lanes /\ s \notin running
    /\ Spend("forget")
    /\ unheld' = Noted({s} \X Range(jobs[s]))
    /\ held' = held - Len(jobs[s])
    /\ jobs' = [jobs EXCEPT ![s] = << >>]
    /\ lanes' = lanes \ {s}
    /\ woken' = woken \ {s}
    /\ overflow' = overflow \ {s}
    /\ signalled' = signalled \ {s}
    /\ UNCHANGED <<acceptVars, running, ready, workerVars, passVars, chan, working, settled, left>>

-----------------------------------------------------------------------------
(* The drain: the requester, and the pass.  A file is a session's WAL.  The *)
(* ordering gate and the look-ahead together make the lowest unsettled      *)
(* arrival of the open file the one line a pass can publish next.           *)

TakesKick ==
    /\ req = "idle" /\ "drain" \in chan
    /\ chan' = chan \ {"drain"}
    /\ req' = "asked"
    /\ UNCHANGED <<acceptVars, laneVars, workerVars, pass, todo, file, upTo, released, working,
                   settled, budget, left>>

\* A pass starts once the drainer's mutex is free.
StartPass ==
    /\ pass = "none"
    /\ pass' = "files"
    /\ todo' = Session
    /\ UNCHANGED <<acceptVars, laneVars, workerVars, file, upTo, released, chan, working, settled,
                   budget, left>>

RequestedPass == req = "asked" /\ req' = "pass" /\ StartPass

\* The daemon's other drains: a flush, admin.drain, the idle task.
OtherPass == UNCHANGED req /\ StartPass

\* drainFile reads a file to the end it has now.
OpenFile(s) ==
    /\ pass = "files" /\ s \in todo
    /\ todo' = todo \ {s}
    /\ file' = s
    /\ upTo' = last[s]
    /\ left' = {j \in left : j[1] # s}
    /\ pass' = "line"
    /\ UNCHANGED <<acceptVars, laneVars, workerVars, released, req, chan, working, settled, budget>>

Unsettled == {n \in 1 .. upTo : <<file, n>> \notin settled}

NextLine(n) == n \in Unsettled /\ \A m \in Unsettled : n <= m

CloseFile ==
    /\ file' = None /\ upTo' = 0
    /\ pass' = "files"

FileDone ==
    /\ pass = "line" /\ Unsettled = {}
    /\ CloseFile
    /\ UNCHANGED <<acceptVars, laneVars, workerVars, todo, released, req, chan, working, settled,
                   budget, left>>

\* A worker owns the line's delivery: "delivery still in progress" ends the file.
LineBusy ==
    /\ pass = "line"
    /\ \E n \in Unsettled : NextLine(n) /\ <<file, n>> \in working
    /\ CloseFile
    /\ UNCHANGED <<acceptVars, laneVars, workerVars, todo, released, req, chan, working, settled,
                   budget, left>>

\* Deviation: the pass does not ask whether a worker has the delivery.
LineBeginUnchecked ==
    /\ pass = "line"
    /\ \E n \in Unsettled : NextLine(n) /\ working' = working \cup {<<file, n>>}
    /\ pass' = "publish"
    /\ UNCHANGED <<acceptVars, laneVars, workerVars, todo, file, upTo, released, req, chan,
                   settled, budget, left>>

LineBegin ==
    /\ pass = "line"
    /\ \E n \in Unsettled :
         NextLine(n) /\ <<file, n>> \notin working /\ working' = working \cup {<<file, n>>}
    /\ pass' = "publish"
    /\ UNCHANGED <<acceptVars, laneVars, workerVars, todo, file, upTo, released, req, chan,
                   settled, budget, left>>

\* dispatchPending succeeds or retires the line: its session is released when the pass ends.
LinePublish ==
    /\ pass = "publish"
    /\ \E n \in Unsettled :
         /\ NextLine(n)
         /\ settled' = settled \cup {<<file, n>>}
         /\ working' = working \ {<<file, n>>}
    /\ released' = released \cup {file}
    /\ pass' = "line"
    /\ UNCHANGED <<acceptVars, laneVars, workerVars, todo, file, upTo, req, chan, budget, left>>

\* The line fails, which ends the file.
LineFails ==
    /\ pass = "publish"
    /\ Spend("fail")
    /\ \E n \in Unsettled : NextLine(n) /\ working' = working \ {<<file, n>>}
    /\ CloseFile
    /\ UNCHANGED <<acceptVars, laneVars, workerVars, todo, released, req, chan, settled, left>>

\* The pass stops early: a requested one asks again if it made progress (passLeftWork).
StopPass ==
    /\ pass' = "release" /\ todo' = {} /\ file' = None /\ upTo' = 0
    /\ req' = IF req = "pass" /\ released # {} THEN "cut" ELSE req

\* The line's own deadline passes, which ends the whole pass.
LineDeadline ==
    /\ pass = "publish"
    /\ Spend("fail")
    /\ \E n \in Unsettled : NextLine(n) /\ working' = working \ {<<file, n>>}
    /\ StopPass
    /\ left' = IF req = "pass" /\ released = {} THEN {} ELSE left
    /\ UNCHANGED <<acceptVars, laneVars, workerVars, released, chan, settled>>

\* A requested pass that made progress starts no further line once its budget is spent.
BudgetSpent ==
    /\ pass \in {"files", "line"} /\ req = "pass" /\ released # {}
    /\ StopPass
    /\ UNCHANGED <<acceptVars, laneVars, workerVars, released, chan, working, settled, budget, left>>

FilesDone ==
    /\ pass = "files" /\ todo = {}
    /\ pass' = "release"
    /\ UNCHANGED <<acceptVars, laneVars, workerVars, todo, file, upTo, released, req, chan,
                   working, settled, budget, left>>

\* releaseSessions: wakeSession for each, which also prunes the record of unheld jobs.
Release(s) ==
    /\ pass = "release" /\ s \in released
    /\ released' = released \ {s}
    /\ Wake(s)
    /\ unheld' = {j \in unheld : j[1] = s => j \notin settled}
    /\ UNCHANGED <<acceptVars, queueVars, running, overflow, workerVars, todo, file, upTo, req,
                   chan, working, settled, budget, left>>

SignalWake ==
    /\ pass = "signal"
    /\ chan' = chan \cup {"wake"}
    /\ pass' = "release"
    /\ UNCHANGED <<acceptVars, laneVars, workerVars, todo, file, upTo, released, req, working,
                   settled, budget, left>>

PassOver ==
    /\ pass = "release" /\ released = {}
    /\ pass' = "none"
    /\ req' = CASE req = "pass" -> "idle" [] req = "cut" -> "resume" [] OTHER -> req
    /\ UNCHANGED <<acceptVars, laneVars, workerVars, todo, file, upTo, released, chan, working,
                   settled, budget, left>>

ResumeDrain ==
    /\ req = "resume"
    /\ chan' = chan \cup {"drain"}
    /\ req' = "idle"
    /\ UNCHANGED <<acceptVars, laneVars, workerVars, pass, todo, file, upTo, released, working,
                   settled, budget, left>>

-----------------------------------------------------------------------------
WorkerStep(w) ==
    \/ Receive(w) \/ Ask(w) \/ Join(w) \/ RunsDry(w) \/ TakesHead(w) \/ Begin(w) \/ Publish(w)
    \/ SettleDone(w) \/ SettleGoesOn(w) \/ SettleParks(w) \/ TakesWake(w) \/ Claims(w)
    \/ ClaimsNothing(w) \/ Resignal(w)

PassStep ==
    \/ \E s \in Session : OpenFile(s) \/ Release(s)
    \/ FileDone \/ LineBusy \/ LineBegin \/ LinePublish \/ FilesDone \/ SignalWake \/ PassOver

RequesterStep == TakesKick \/ RequestedPass \/ ResumeDrain

Next ==
    \/ \E j \in Job : Accept(j) \/ Offer(j)
    \/ \E w \in Worker : WorkerStep(w) \/ PublishFails(w)
    \/ \E s \in Session : Forget(s)
    \/ PassStep \/ RequesterStep \/ OtherPass \/ LineFails \/ LineDeadline \/ BudgetSpent

Spec == Init /\ [][Next]_vars

-----------------------------------------------------------------------------
(* Fairness: workers, a started pass, the requester and Accept are          *)
(* goroutines of one process and are scheduled.  The daemon's other drains  *)
(* come only with a flush, an operator or 120 s of project-wide idleness,   *)
(* so only Fairness, not RequestFairness, counts on them.                   *)

RequestFairness ==
    /\ \A w \in Worker : WF_vars(WorkerStep(w))
    /\ WF_vars(PassStep)
    /\ WF_vars(RequesterStep)
    /\ \A j \in Job : WF_vars(Offer(j))

Fairness == RequestFairness /\ WF_vars(OtherPass)

FairSpec == Spec /\ Fairness

-----------------------------------------------------------------------------
Owns(w, s) ==
    at[w] = s /\ pc[w] \in {"resignal", "head", "begin", "publish", "settled", "pending", "busy"}

\* "At most one worker owns a lane": running is set exactly while one worker runs the lane, however
\* joins, wakes, claims, parks and forgets interleave.
OneOwner ==
    \A s \in Session :
        Cardinality({w \in Worker : Owns(w, s)}) = IF s \in running THEN 1 ELSE 0

\* The count join compares with laneCapacity is the number of queued jobs, and within that bound;
\* each lane is in ascending arrival order without a second entry, within laneSessionCapacity.
QueuesInOrder ==
    /\ held = Cardinality({j \in Job : j[2] \in Range(jobs[j[1]])})
    /\ held <= LaneCapacity
    /\ \A s \in Session : Len(jobs[s]) <= LaneSessionCapacity /\ Ascending(jobs[s])

\* The ordering gate's purpose: no arrival of a session settles before every earlier one has,
\* whether workers or a drain pass publish them.
SettledInOrder == \A j \in settled : \A n \in 1 .. j[2] : <<j[1], n>> \in settled

Publishing(j) ==
    {w \in Worker : pc[w] = "publish" /\ <<at[w], cur[w]>> = j}
    \cup {p \in {"pass"} : pass = "publish" /\ file = j[1] /\ NextLine(j[2])}

\* The seen set gives a delivery to one handler at a time: a worker and a drain pass never publish
\* the same delivery at once, and what it marks as in progress is exactly what someone publishes.
OnePublisher ==
    \A j \in Job : Cardinality(Publishing(j)) = IF j \in working THEN 1 ELSE 0

\* A PreCompact settle can name every accepted capture that is not published: each is in a lane or
\* in the record of unheld jobs (while the record is below its bound).
EveryPendingJobNamed ==
    \A j \in Leased \ (settled \cup accepting) : j \in unheld \/ j[2] \in Range(jobs[j[1]])

\* A listed lane is never forgotten: while one is listed, a wake signal is in the channel or in the
\* hands of someone about to pass it on or to read the list.
WakeNotLost ==
    ready # << >> =>
        \/ "wake" \in chan
        \/ pass = "signal"
        \/ \E w \in Worker : pc[w] \in {"claim", "resignal"}

\* A job given up to the WAL (dropped by the ring, refused or evicted by a lane, left at the head
\* of a parked lane) is in reach of a drain: a request is pending, a requested pass has yet to
\* open its file, or the lane's owner still has to ask.
DrainOwed ==
    \A j \in left \ settled :
        \/ "drain" \in chan \/ req \in {"asked", "cut", "resume"}
        \/ req = "pass" /\ j[1] \in todo
        \/ j[1] \in overflow \cap running
        \/ \E w \in Worker : pc[w] = "ask"

\* One handler at a time: a lane has one owner and a delivery one publisher, however joins, wakes,
\* claims, parks, forgets and drain passes interleave (dispatchLanes, seenSet).
OneHandler == OneOwner /\ OnePublisher

\* No work is forgotten: a listed lane has a wake signal on its way, and what was given up to the
\* WAL has a drain, and a PreCompact settle can name every capture that is not published
\* (dispatchLanes.wake, drainOnRequest, noteUnheld).
NothingForgotten == WakeNotLost /\ DrainOwed /\ EveryPendingJobNamed

\* Arrival order holds throughout: in the lanes' queues, within their capacities, and in what
\* settles (dispatchLanes.join, predecessorsAcknowledged).
InArrivalOrder == QueuesInOrder /\ SettledInOrder

\* No accepted delivery is stranded: every leased one settles, once publications stop failing.
EveryJobSettles == \A j \in Job : (j \in Leased) ~> (j \in settled)

\* The comment on dispatchLanes.ready: the parked lanes are listed "each at most once". A lane dropped
\* while it is listed and opened again breaks it (README, disagreements); no run checks it.
ListedOnce == \A i, k \in 1 .. Len(ready) : ready[i] = ready[k] => i = k
=============================================================================
