------------------------------- MODULE MCDrain -------------------------------
(* How an accepted line gets to be settled and its files to be removed, for    *)
(* TLC: the drain of a spool segment (SpoolProgress) and the dispatch of       *)
(* leased deliveries (DispatchLanes).  The two share no variable, so one       *)
(* behaviour takes the steps of one of them (part) and leaves the other in     *)
(* its initial state.  Each liveness property assumes the fairness of its part.*)
EXTENDS SpoolProgress

CONSTANTS Session, Worker, None, MaxArrival, RingCapacity, LaneCapacity,
          LaneSessionCapacity, UnheldCapacity, MaxFailures, MaxCopies, MaxForgets

VARIABLES part,
          last, accepting, ring, lanes, jobs, running, woken, overflow, signalled, held,
          ready, unheld, chan, working, settled, wpc, at, cur, pass, todo, wfile, upTo,
          released, req, budget, left

Lanes == INSTANCE DispatchLanes WITH pc <- wpc, file <- wfile

laneVars == <<last, accepting, ring, lanes, jobs, running, woken, overflow, signalled, held,
              ready, unheld, chan, working, settled, wpc, at, cur, pass, todo, wfile, upTo,
              released, req, budget, left>>
parts == <<vars, laneVars, part>>

PartInit ==
    /\ part \in {"spool", "lanes"}
    /\ Init
    /\ Lanes!Init

PartNext ==
    \/ /\ part = "spool"
       /\ Next
       /\ UNCHANGED <<laneVars, part>>
    \/ /\ part = "lanes"
       /\ Lanes!Next
       /\ UNCHANGED <<vars, part>>

PartSpec == PartInit /\ [][PartNext]_parts

(* Once its session has ended and the ingest has let go of it, a segment is   *)
(* drained and removed, unless it ends in a partial line (drainFile, unlink). *)
SegmentRemoved == part = "spool" /\ Fairness => EndedSegmentRemoved

(* Every leased delivery settles once publications stop failing, given up to  *)
(* the WAL or not (dispatchLanes, drainOnRequest).                            *)
EveryJobSettles == part = "lanes" /\ Lanes!Fairness => Lanes!EveryJobSettles
==============================================================================
