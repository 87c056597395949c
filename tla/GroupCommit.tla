---------------------------- MODULE GroupCommit ----------------------------
(***************************************************************************)
(* The leader/follower group-commit queue of internal/daemon/groupcommit.go*)
(* on which the WAL, the lease journal and the acknowledgement journal are *)
(* built.  A request is one call of run.  The first request to find no     *)
(* batch in flight leads: it cuts a prefix of the queue, commits it on its *)
(* own goroutine and hands leadership to the head of what queued up        *)
(* meanwhile.  Every other request parks on its own channel.               *)
(*                                                                         *)
(* q.mu is a leaf lock that is never held across the commit, so each       *)
(* critical section is one atomic step here and everything between two     *)
(* critical sections interleaves.  Closing a done channel happens outside  *)
(* the lock, one channel at a time.                                        *)
(***************************************************************************)
EXTENDS Naturals, Sequences, FiniteSets, Functions

CONSTANTS Req,       \* the calls of run
          SizeOf,    \* q.sizeOf: a request's estimated size
          MaxN,      \* q.maxN
          MaxBytes   \* q.maxBytes

ASSUME GroupCommitAssumption ==
    /\ IsFiniteSet(Req)
    /\ SizeOf \in [Req -> Nat]
    /\ MaxN \in Nat
    /\ MaxBytes \in Nat

VARIABLES at,        \* where each call is
          queue,     \* q.queue: requests not yet cut into a batch, in arrival order
          leading,   \* q.leading
          lead,      \* the requests whose gcReq.lead is set
          done,      \* the requests whose gcReq.done has been closed
          batch,     \* the batch each leader cut, <<>> before it has one
          toClose,   \* the done channels a leader's handoff has still to close
          result,    \* the request's result, "failed" until a commit resolves it
          committed  \* history: the requests in the order their batches were committed

queueVars == <<at, queue, leading, lead, done, batch, toClose, result, committed>>

Places == {"idle", "parked", "elected", "commit", "handoff", "closing", "returned"}

\* The shape of every variable of groupQueue and of the calls of run.
QueueTypeOK ==
    /\ at \in [Req -> Places]
    /\ queue \in Seq(Req)
    /\ leading \in BOOLEAN
    /\ lead \subseteq Req
    /\ done \subseteq Req
    /\ batch \in [Req -> Seq(Req)]
    /\ toClose \in [Req -> Seq(Req)]
    /\ result \in [Req -> {"failed", "ok"}]
    /\ committed \in Seq(Req)
    /\ \A r \in Req : at[r] \in {"commit", "handoff"} => batch[r] # <<>>

QueueInit ==
    /\ at = [r \in Req |-> "idle"]
    /\ queue = <<>>
    /\ leading = FALSE
    /\ lead = {}
    /\ done = {}
    /\ batch = [r \in Req |-> <<>>]
    /\ toClose = [r \in Req |-> <<>>]
    /\ result = [r \in Req |-> "failed"]
    /\ committed = <<>>

-----------------------------------------------------------------------------

\* The bytes of a set of requests, and of the first n of q, which are distinct calls.
Bytes(S) == MapThenFoldSet(+, 0, LAMBDA r : SizeOf[r], LAMBDA T : CHOOSE r \in T : TRUE, S)
Total(q, n) == Bytes({q[i] : i \in 1..n})

\* cutLocked admits the head whatever its size, and each request behind it
\* while the batch stays within both caps.
Fits(q, n) == \A k \in 2..n : k <= MaxN /\ Total(q, k) <= MaxBytes

\* The longest such prefix: Fits is closed under taking a shorter one.
IsCut(q, n) == n > 0 /\ Fits(q, n) /\ (n < Len(q) => ~Fits(q, n + 1))

\* cutLocked, run by request r over the queue q: r leads the prefix it cuts.
Cut(r, q) ==
    /\ \E n \in 0..Len(q) :
          /\ IsCut(q, n)
          /\ batch' = [batch EXCEPT ![r] = SubSeq(q, 1, n)]
          /\ queue' = SubSeq(q, n + 1, Len(q))
    /\ at' = [at EXCEPT ![r] = "commit"]

\* run's first critical section when a batch is in flight: enqueue and park.
EnqueueFollower(r) ==
    /\ at[r] = "idle"
    /\ leading
    /\ queue' = Append(queue, r)
    /\ at' = [at EXCEPT ![r] = "parked"]
    /\ UNCHANGED <<leading, lead, done, batch, toClose, result, committed>>

\* Deviation: a request enqueues behind the batch in flight but still cuts
\* one of its own (the check of q.leading dropped).
EnqueueLeaderAlways(r) ==
    /\ at[r] = "idle"
    /\ leading' = TRUE
    /\ Cut(r, Append(queue, r))
    /\ UNCHANGED <<lead, done, toClose, result, committed>>

\* run's first critical section when no batch is in flight: enqueue, take
\* leadership and cut, all under one hold of q.mu.
EnqueueLeader(r) ==
    /\ at[r] = "idle"
    /\ ~leading
    /\ leading' = TRUE
    /\ Cut(r, Append(queue, r))
    /\ UNCHANGED <<lead, done, toClose, result, committed>>

\* Deviation: a parked request gives up waiting (a timeout on the receive).
WakeEarly(r) ==
    /\ at[r] = "parked"
    /\ at' = [at EXCEPT ![r] = IF r \in lead THEN "elected" ELSE "returned"]
    /\ UNCHANGED <<queue, leading, lead, done, batch, toClose, result, committed>>

\* A parked request's receive on its done channel returns.  A released
\* request returns its result; an elected one goes on to lead.
Wake(r) ==
    /\ at[r] = "parked"
    /\ r \in done
    /\ at' = [at EXCEPT ![r] = IF r \in lead THEN "elected" ELSE "returned"]
    /\ UNCHANGED <<queue, leading, lead, done, batch, toClose, result, committed>>

\* An elected request re-takes q.mu and cuts the batch it heads.
CutElected(r) ==
    /\ at[r] = "elected"
    /\ Cut(r, queue)
    /\ UNCHANGED <<leading, lead, done, toClose, result, committed>>

\* commit over the leader's batch.  It resolves the items its durability
\* point covered; a commit that fails, returns early or panics resolves only
\* some of them, or none, and the deferred handoff runs all the same.
Commit(r) ==
    /\ at[r] = "commit"
    /\ \E resolved \in SUBSET Range(batch[r]) :
          result' = [x \in Req |-> IF x \in resolved THEN "ok" ELSE result[x]]
    /\ committed' = committed \o batch[r]
    /\ at' = [at EXCEPT ![r] = "handoff"]
    /\ UNCHANGED <<queue, leading, lead, done, batch, toClose>>

\* Deviation: the elected request is never woken (close(next.done) missing).
HandoffNoWake(r) ==
    /\ at[r] = "handoff"
    /\ at' = [at EXCEPT ![r] = "closing"]
    /\ toClose' = [toClose EXCEPT ![r] = Tail(batch[r])]
    /\ IF queue # <<>>
       THEN lead' = lead \cup {Head(queue)} /\ UNCHANGED leading
       ELSE leading' = FALSE /\ UNCHANGED lead
    /\ UNCHANGED <<queue, done, batch, result, committed>>

\* Deviation: the most recent request is elected instead of the oldest.
HandoffLast(r) ==
    /\ at[r] = "handoff"
    /\ at' = [at EXCEPT ![r] = "closing"]
    /\ IF queue # <<>>
       THEN /\ lead' = lead \cup {queue[Len(queue)]}
            /\ toClose' = [toClose EXCEPT ![r] = Append(Tail(batch[r]), queue[Len(queue)])]
            /\ UNCHANGED leading
       ELSE /\ leading' = FALSE
            /\ toClose' = [toClose EXCEPT ![r] = Tail(batch[r])]
            /\ UNCHANGED lead
    /\ UNCHANGED <<queue, done, batch, result, committed>>

\* handoff's critical section: elect the head of the queue, or stop leading.
\* The batch's other members and the elected request are released after it.
Handoff(r) ==
    /\ at[r] = "handoff"
    /\ at' = [at EXCEPT ![r] = "closing"]
    /\ IF queue # <<>>
       THEN /\ lead' = lead \cup {Head(queue)}
            /\ toClose' = [toClose EXCEPT ![r] = Append(Tail(batch[r]), Head(queue))]
            /\ UNCHANGED leading
       ELSE /\ leading' = FALSE
            /\ toClose' = [toClose EXCEPT ![r] = Tail(batch[r])]
            /\ UNCHANGED lead
    /\ UNCHANGED <<queue, done, batch, result, committed>>

\* handoff's closes, outside the lock.
CloseDone(r) ==
    /\ at[r] = "closing"
    /\ toClose[r] # <<>>
    /\ done' = done \cup {Head(toClose[r])}
    /\ toClose' = [toClose EXCEPT ![r] = Tail(@)]
    /\ UNCHANGED <<at, queue, leading, lead, batch, result, committed>>

\* The leader's own run returns, or its panic goes on, after the last close.
Return(r) ==
    /\ at[r] = "closing"
    /\ toClose[r] = <<>>
    /\ at' = [at EXCEPT ![r] = "returned"]
    /\ UNCHANGED <<queue, leading, lead, done, batch, toClose, result, committed>>

Step(r) == \/ EnqueueFollower(r) \/ EnqueueLeader(r) \/ Wake(r) \/ CutElected(r)
           \/ Commit(r) \/ Handoff(r) \/ CloseDone(r) \/ Return(r)

\* Every call has returned.
Finished == (\A r \in Req : at[r] = "returned") /\ UNCHANGED queueVars

QueueNext == (\E r \in Req : Step(r)) \/ Finished

QueueSpec == QueueInit /\ [][QueueNext]_queueVars

\* A goroutine that can run is eventually scheduled.
QueueFairness == \A r \in Req : WF_queueVars(Step(r) /\ at[r] # "idle")

QueueFairSpec == QueueSpec /\ QueueFairness

-----------------------------------------------------------------------------

\* Leadership is one token: the requests that are committing, or that a
\* handoff has elected and that have not cut their batch yet.
Leaders == {r \in Req : \/ at[r] \in {"elected", "commit", "handoff"}
                        \/ at[r] = "parked" /\ r \in lead}

\* No two batches are ever being cut or committed at once, and leadership is
\* never lost while a request waits: somebody holds it exactly while
\* q.leading is set, and a request that queues up always finds it set.
OneLeader ==
    /\ \A r, s \in Leaders : r = s
    /\ leading <=> Leaders # {}
    /\ queue # <<>> => leading

\* The batch being committed, <<>> when there is none.
InFlight == IF \E r \in Req : at[r] = "commit"
            THEN batch[CHOOSE r \in Req : at[r] = "commit"] ELSE <<>>

\* A leader commits the batch that its own request heads, and no request is
\* committed twice or left out: the requests committed, in flight and queued
\* are, each once, all the requests that ever arrived, and a request returns
\* only after the batch that holds it was committed.
EachCommittedOnce ==
    /\ \A r \in Req : at[r] \in {"commit", "handoff"} => Head(batch[r]) = r
    /\ LET all == committed \o InFlight \o queue IN
          /\ Len(all) = Cardinality(Range(all))
          /\ Range(all) = {r \in Req : at[r] # "idle"}
    /\ \A r \in Req : at[r] = "returned" => r \in Range(committed)

\* No batch exceeds the caps unless it is a single oversize request.
BatchWithinCaps ==
    \A r \in Req : Len(batch[r]) > 1 =>
        /\ Len(batch[r]) <= MaxN
        /\ Total(batch[r], Len(batch[r])) <= MaxBytes

\* Batches are sound: what arrives is committed once, by a leader whose request heads the batch, and
\* no batch exceeds the caps (cutLocked, handoff).
BatchesSound == EachCommittedOnce /\ BatchWithinCaps

\* A result is final when run returns: the leader never resolves a request
\* whose caller has already read its result.
ResultFinal == [][\A r \in Req : at[r] = "returned" => result'[r] = result[r]]_queueVars

\* Nobody waits for ever: every call of run returns, whatever its batch's
\* commit did, because the handoff is deferred and always elects the head.
EveryRunReturns == \A r \in Req : at[r] # "idle" ~> at[r] = "returned"

=============================================================================
