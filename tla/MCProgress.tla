----------------------------- MODULE MCProgress -----------------------------
(* What the daemon's goroutines bring to an end, for TLC: the calls that wait *)
(* for a batch to be committed (GroupCommit), the calls that wait at the GC   *)
(* gate (GCGate), the calls of the journal that wait for one another over a   *)
(* rotation (SegmentRotation), a shutdown (DaemonLifecycle), and the taking   *)
(* of what hooks spooled (HookDelivery).  The five share no variable, so one  *)
(* behaviour takes the steps of one of them (part) and leaves the others in   *)
(* their initial state.  Each liveness property assumes the fairness of its   *)
(* own part.                                                                  *)
EXTENDS GCGate, GroupCommit, TLC

CONSTANTS r1, r2, r3,
          short, long, idle,
          Delivery, Deniable, Caller, Rollover, TornStaging, MaxErrors, MaxPasses, None,
          Worker, Client, MaxRequests, MaxWedged, MayBreak,
          Hook, MaxFaults, MaxFlips

VARIABLES part,
          leaseFile, ackFile, denied, frozen, dir, carry, log, base, head, authority, store,
          generations, mode, segment, leases, acks, rotating, rotator, retiring, call, gpc,
          view, gacks, kept, errors, passes, granted, acked, owed,
          run, stop, ctx, held, taken, worker, ends, gate, server, conn, sock, op, requests,
          started, outlasted,
          hook, srv, daemon, claim, starter, wal, spool, pub, unkept, behind, hot, record, flip, start,
          redrain, watch, kick, kicked, entry, faults, flips

\* Three calls of run, one of them larger than a batch.
Requests == {r1, r2, r3}
Sizes == (r1 :> 2) @@ (r2 :> 1) @@ (r3 :> 5)

\* Two session ends ask for one kind of pass, one with a short deadline and one with none; the
\* idle scheduler asks for another kind.
Calls == {short, long, idle}
Kinds == [c \in Calls |-> IF c = idle THEN "quota" ELSE "end"]
Deadlines == [c \in Calls |-> IF c = long THEN 0 ELSE 1]

OneSession == [d \in Delivery |-> 1]

Rotation == INSTANCE SegmentRotation WITH
    SessionOf <- OneSession, MaxFaults <- MaxErrors, faults <- errors
Life == INSTANCE DaemonLifecycle WITH asked <- requests
Deliver == INSTANCE HookDelivery

rotationVars == <<leaseFile, ackFile, denied, frozen, dir, carry, log, base, head,
                  authority, store, generations, mode, segment, leases, acks, rotating,
                  rotator, retiring, call, gpc, view, gacks, kept, errors, passes, granted,
                  acked, owed>>
lifeVars == <<run, stop, ctx, held, taken, worker, ends, gate, server, conn, sock, op,
              requests, started, outlasted>>
deliverVars == <<hook, srv, daemon, claim, starter, wal, spool, pub, unkept, behind, hot, record, flip,
                 start, redrain, watch, kick, kicked, entry, faults, flips>>
parts == <<vars, queueVars, rotationVars, lifeVars, deliverVars, part>>

PartInit ==
    /\ part \in {"queue", "gate", "rotation", "daemon", "hooks"}
    /\ Init
    /\ QueueInit
    /\ Rotation!Init
    /\ Life!Init
    /\ Deliver!Init

PartNext ==
    \/ /\ part = "queue"
       /\ QueueNext
       /\ UNCHANGED <<vars, rotationVars, lifeVars, deliverVars, part>>
    \/ /\ part = "gate"
       /\ Next
       /\ UNCHANGED <<queueVars, rotationVars, lifeVars, deliverVars, part>>
    \/ /\ part = "rotation"
       /\ Rotation!Next
       /\ UNCHANGED <<vars, queueVars, lifeVars, deliverVars, part>>
    \/ /\ part = "daemon"
       /\ Life!Next
       /\ UNCHANGED <<vars, queueVars, rotationVars, deliverVars, part>>
    \/ /\ part = "hooks"
       /\ Deliver!Next
       /\ UNCHANGED <<vars, queueVars, rotationVars, lifeVars, part>>

PartSpec == PartInit /\ [][PartNext]_parts

(* Every call of run returns, whatever its batch's commit did, because the    *)
(* handoff is deferred and always elects the head (run, handoff).             *)
EveryCommitReturns == part = "queue" /\ QueueFairness => EveryRunReturns

(* Every call of GC returns: the gate is handed on, whatever ends a pass or a *)
(* wait (serializeGC).                                                        *)
EveryCollectionReturns == part = "gate" /\ Fairness => EveryCallReturns

(* Every lease and acknowledgement call returns, although a rotation makes    *)
(* new calls wait and waits for those it found (rotate).                      *)
EveryJournalCallReturns == part = "rotation" /\ Rotation!Fairness => Rotation!EveryCallReturns

(* A shutdown that was asked for ends: Run returns and the project's lock is  *)
(* released, whatever startup, drains and connections were doing (Stop).      *)
ShutdownCompletes == part = "daemon" /\ Life!Fairness => Life!ShutdownCompletes

(* A line a hook spooled beside a serving daemon, because of its answer or of *)
(* the spool mode, is taken by a drain (watchClientSpools,                    *)
(* redrainOnceServing).                                                       *)
SpooledIsTaken == part = "hooks" /\ Deliver!Fairness => Deliver!SpooledIsTaken
=============================================================================
