----------------------------- MODULE MCRequests -----------------------------
(* What a request of the daemon may rely on, for TLC: a daemon that serves    *)
(* until it has stopped (DaemonLifecycle), the answer of a prompt             *)
(* (PromptReply), the publication of an observation (ObservationPublication), *)
(* and the store that keeps what was published over collections (StoreGC).    *)
(* The four share no variable, so one behaviour takes the steps of one of     *)
(* them (part) and leaves the others in their initial state.                  *)
EXTENDS PromptReply, TLC

CONSTANTS Worker, Client, MaxRequests, MaxWedged, MayBreak,
          PromptTool, NoPath, MaxFaults,
          Root, NChunks, Chunks, Side, Capture, Ephemeral, Quota, Holdable, MaxPuts,
          MaxPasses, MaxCrashes, None

VARIABLES part,
          run, stop, ctx, held, taken, worker, ends, gate, server, conn, sock, op, asked,
          started, outlasted,
          roots, rootsSynced, index, indexSynced, sidecar, sideSynced, tornIntent, bindings,
          committed, unavailable, uncertain, turn, mutex, author, link, faults,
          objects, fresh, dirty, catalog, stable, tail, young, pinned, markers, pc, doing,
          eph, todo, gpc, names, live, dead, at, lastDone, saved, puts, passes, crashes,
          published, collected, owed, exposed

\* Two prompts of one text and a read in one session, and a read of the same path in another.
Deliveries ==
    <<[session |-> "s1", tool |-> "prompt", name |-> "none", root |-> "ra", path |-> "none"],
      [session |-> "s1", tool |-> "prompt", name |-> "none", root |-> "ra", path |-> "none"],
      [session |-> "s2", tool |-> "Read", name |-> "t1", root |-> "rb", path |-> "p"],
      [session |-> "s1", tool |-> "Read", name |-> "t2", root |-> "rb", path |-> "p"]>>

\* Content a has a side record, and shares object 2 with it.
PairedRoot == {"a", "aside"}
PairedChunks == ("a" :> {1, 2}) @@ ("aside" :> {2})
PairedSide == ("a" :> "aside")

Captures == Permutations(Capture)

\* Bound: what is put or named beside a pass that cannot tell is followed to the end of that pass.
Overlapped == exposed # {} => passes <= 1 /\ crashes = 0

Life == INSTANCE DaemonLifecycle
Publish == INSTANCE ObservationPublication
    WITH Delivery <- Deliveries, worker <- author, Prompt <- PromptTool
Store == INSTANCE StoreGC WITH index <- catalog, held <- pinned

lifeVars == <<run, stop, ctx, held, taken, worker, ends, gate, server, conn, sock, op,
              asked, started, outlasted>>
publishVars == <<roots, rootsSynced, index, indexSynced, sidecar, sideSynced, tornIntent,
                 bindings, committed, unavailable, uncertain, turn, mutex, author, link,
                 faults>>
storeVars == <<objects, fresh, dirty, catalog, stable, tail, young, pinned, markers, pc,
               doing, eph, todo, gpc, names, live, dead, at, lastDone, saved, puts, passes,
               crashes, published, collected, owed, exposed>>
parts == <<lifeVars, promptVars, publishVars, storeVars, part>>

PartInit ==
    /\ part \in {"daemon", "prompt", "observation", "store"}
    /\ Life!Init
    /\ PromptInit
    /\ Publish!Init
    /\ Store!Init

PartNext ==
    \/ /\ part = "daemon"
       /\ Life!Next
       /\ UNCHANGED <<promptVars, publishVars, storeVars, part>>
    \/ /\ part = "prompt"
       /\ PromptNext
       /\ UNCHANGED <<lifeVars, publishVars, storeVars, part>>
    \/ /\ part = "observation"
       /\ Publish!Next
       /\ UNCHANGED <<lifeVars, promptVars, storeVars, part>>
    \/ /\ part = "store"
       /\ Store!Next
       /\ UNCHANGED <<lifeVars, promptVars, publishVars, part>>

PartSpec == PartInit /\ [][PartNext]_parts

(* A shutdown is orderly: a request that was read keeps its connection for   *)
(* its reply, the resources the daemon owns are closed after every handler   *)
(* and goroutine is gone or its join gave up on it, and when Run returns no  *)
(* lock, endpoint or worker is left, whichever goroutine stopped the daemon  *)
(* (Stop, Close, beginRequest).                                              *)
OrderlyShutdown == Life!OrderlyShutdown

(* A linked capture's record, root and supersession marks are durable; a     *)
(* delivery is the author of at most one record; and it is unavailable only  *)
(* over its own torn intent or over a target whose publication is still owed *)
(* (publishObservation, completeIntentLocked, applyIntentLocked).            *)
PublicationSound == Publish!PublicationSound

(* What was published can be read while the retention window holds it, and   *)
(* its side record with it; no indexed root refers to a swept object, also   *)
(* after a restart; a held object stays.  Excepted are the roots put or      *)
(* named beside a pass that cannot know of them (Put, gcPass, tombstones).   *)
StoreReadable == Store!StoreReadable

(* A sweep that completes, with those it resumed, has visited every object   *)
(* its live set left out: a cursor never skips one (sweep, the saved cursor).*)
CompleteSweepCollects == Store!CompleteSweepCollects
=============================================================================
