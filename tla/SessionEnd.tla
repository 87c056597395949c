----------------------------- MODULE SessionEnd -----------------------------
(***************************************************************************)
(* The end of a session: a flush is answered once it is durable and its    *)
(* session is on record as needing recovery, and ended afterwards on a     *)
(* goroutine of its own; a flush that only a drain meets is ended the same *)
(* way while the daemon serves and inside the pass otherwise; the record   *)
(* is cleared when a complete drain has seen the end finished              *)
(* (internal/daemon/session_end.go, handlers.go, drain.go).                *)
(*                                                                         *)
(* A drain call is several steps: the pass under the drainer's mutex, line *)
(* by line, then a read of the published gap state, then the retirement of *)
(* the ends that wait for a complete pass.  Settling the session's earlier *)
(* deliveries is DispatchLanes' subject; the drain it may run is one more  *)
(* drain call, as the lanes' is here.                                      *)
(***************************************************************************)
EXTENDS Naturals

CONSTANTS
    Flush,      \* flush deliveries, by their nonce
    SessionOf,  \* the session each flush ends
    MayDefer,   \* whether a hook may be caught halfway through a spool line
    MaxStarts   \* bound: daemons started

Ending == {SessionOf[f] : f \in Flush}

(* Who calls Daemon.Drain: a flush's own session end, Run's startup, the   *)
(* lanes' requester (and the idle task), Stop.                             *)
Caller == Flush \cup {"startup", "lanes", "stop"}

VARIABLES
    lines,      \* flush lines on disk not yet consumed: <<"wal" or "spool", flush>>
    observe,    \* a hook's other spool line: "none", "writing", "written"
    acked,      \* flushes on the committed frontier
    ran,        \* flushes whose SessionEnd ran to its end
    marker,     \* session-recovery.json: sessions whose end is unfinished
    hook,       \* per flush: "unsent", "durable", "answered", "spooled"
    life,       \* "down", "starting", "serving", "stopping", "draining"
    starts,     \* daemons started
    ends,       \* "open", "closed", "cancelled": the session ends' lifetime
    end,        \* per flush, the goroutine that ends its session
    seen,       \* the in-process ownership of each flush
    await,      \* endsAwaitingDrain: per session "none", "current" (the generation
                \* it holds is recoveryGen's), "stale" (a later end marked since)
    gaps,       \* what the last full pass published
    pass,       \* the pass under the drainer's mutex
    call        \* per caller, where its Drain call is

disk == <<lines, observe, acked, ran, marker>>
memory == <<ends, end, seen, await, gaps, pass, call>>
vars == <<disk, hook, life, starts, memory>>

----------------------------------------------------------------------------

NoPass == [by |-> "none", todo |-> {}, inline |-> "none", gap |-> "complete"]

Working == {f \in Flush : seen[f] = "working"}

Fresh ==
    /\ ends' = "open"
    /\ end' = [f \in Flush |-> "none"]
    /\ seen' = [f \in Flush |-> "free"]
    /\ await' = [s \in Ending |-> "none"]
    /\ gaps' = "unobserved"
    /\ pass' = NoPass
    /\ call' = [c \in Caller |-> "idle"]

Init ==
    /\ lines = {}
    /\ observe = "none"
    /\ acked = {}
    /\ ran = {}
    /\ marker = {}
    /\ hook = [f \in Flush |-> "unsent"]
    /\ life = "down"
    /\ starts = 0
    /\ ends = "open"
    /\ end = [f \in Flush |-> "none"]
    /\ seen = [f \in Flush |-> "free"]
    /\ await = [s \in Ending |-> "none"]
    /\ gaps = "unobserved"
    /\ pass = NoPass
    /\ call = [c \in Caller |-> "idle"]

(* markRecoveryNeeded: the marker is rewritten and its generation raised.  *)
Mark(s) ==
    /\ marker' = marker \cup {s}
    /\ await' = [await EXCEPT ![s] = IF @ = "current" THEN "stale" ELSE @]

----------------------------------------------------------------------------
(* The hooks.                                                              *)

(* A hook that cannot reach the daemon, or does not get its ACK in time,   *)
(* leaves a copy of the flush in its client spool.                         *)
HookSpools(f) ==
    /\ hook[f] \in {"unsent", "durable"}
    /\ hook' = [hook EXCEPT ![f] = "spooled"]
    /\ lines' = lines \cup {<<"spool", f>>}
    /\ UNCHANGED <<observe, acked, ran, marker, life, starts, memory>>

HookWrites ==
    /\ \/ observe = "none" /\ MayDefer /\ observe' = "writing"
       \/ observe = "writing" /\ observe' = "written"
    /\ UNCHANGED <<lines, acked, ran, marker, hook, life, starts, memory>>

(* handleFlush, first half: acceptSessionEnd appends and leases the line.  *)
AcceptLine(f) ==
    /\ life \in {"serving", "stopping"} /\ hook[f] = "unsent"
    /\ hook' = [hook EXCEPT ![f] = "durable"]
    /\ lines' = lines \cup {<<"wal", f>>}
    /\ UNCHANGED <<observe, acked, ran, marker, life, starts, memory>>

(* handleFlush, second half: startSessionEnd takes the ownership, counts   *)
(* the end in unless Stop has closed the gate, and records the session as  *)
(* needing recovery, all before the answer.                                *)
StartEnd(f) ==
    /\ life \in {"serving", "stopping"} /\ hook[f] = "durable"
    /\ hook' = [hook EXCEPT ![f] = "answered"]
    /\ IF seen[f] # "free"
         THEN UNCHANGED <<marker, await, end, seen>>
         ELSE /\ Mark(SessionOf[f])
              /\ IF ends = "open"
                   THEN /\ end' = [end EXCEPT ![f] = "begin"]
                        /\ seen' = [seen EXCEPT ![f] = "working"]
                   ELSE UNCHANGED <<end, seen>>
    /\ UNCHANGED <<lines, observe, acked, ran, life, starts, ends, gaps,
                   pass, call>>

----------------------------------------------------------------------------
(* A session end on its own goroutine: endSession with an own flush.       *)

EndBegins(f) ==
    /\ end[f] = "begin"
    /\ Mark(SessionOf[f])
    /\ end' = [end EXCEPT ![f] = "serve"]
    /\ UNCHANGED <<lines, observe, acked, ran, hook, life, starts, ends, seen,
                   gaps, pass, call>>

(* SessionEnd answers its context: cancelled, it is cut short.             *)
EndServes(f) ==
    /\ end[f] = "serve"
    /\ Mark(SessionOf[f])
    /\ \/ ran' = ran \cup {f}
       \/ ends = "cancelled" /\ UNCHANGED ran
    /\ end' = [end EXCEPT ![f] = "finish"]
    /\ UNCHANGED <<lines, observe, acked, hook, life, starts, ends, seen, gaps, pass, call>>

(* Deviation: the flush is acknowledged under no context.                  *)
EndFinishesUncut(f) ==
    /\ end[f] = "finish"
    /\ acked' = acked \cup {f}
    /\ seen' = [seen EXCEPT ![f] = "done"]
    /\ Mark(SessionOf[f])
    /\ end' = [end EXCEPT ![f] = "drain"]
    /\ call' = [call EXCEPT ![f] = "waiting"]
    /\ UNCHANGED <<lines, observe, ran, hook, life, starts, ends, gaps, pass>>

(* finishOwnFlush: the flush reaches the committed frontier, or the write  *)
(* fails, as it always does under an ended context, and it stays pending.  *)
(* Then the end's own drain.                                               *)
EndFinishes(f) ==
    /\ end[f] = "finish"
    /\ \/ /\ ends # "cancelled"
          /\ acked' = acked \cup {f}
          /\ seen' = [seen EXCEPT ![f] = "done"]
       \/ /\ UNCHANGED acked
          /\ seen' = [seen EXCEPT ![f] = "free"]
    /\ Mark(SessionOf[f])
    /\ end' = [end EXCEPT ![f] = "drain"]
    /\ call' = [call EXCEPT ![f] = "waiting"]
    /\ UNCHANGED <<lines, observe, ran, hook, life, starts, ends, gaps, pass>>

(* The end's last step, on the gap state as it stands once its drain has   *)
(* returned: complete clears the record, replayable gaps wait for a later  *)
(* complete pass, anything else leaves the record for a restart.           *)
EndReturns(f) ==
    /\ end[f] = "drain" /\ call[f] \in {"returned", "failed"}
    /\ end' = [end EXCEPT ![f] = "none"]
    /\ call' = [call EXCEPT ![f] = "idle"]
    /\ LET s == SessionOf[f] IN
       IF call[f] = "failed" \/ gaps \notin {"complete", "replayable"}
         THEN UNCHANGED <<marker, await>>
         ELSE IF gaps = "complete"
         THEN /\ marker' = marker \ {s}
              /\ await' = [await EXCEPT ![s] = "none"]
         ELSE /\ await' = [await EXCEPT ![s] = "current"]
              /\ UNCHANGED marker
    /\ UNCHANGED <<lines, observe, acked, ran, hook, life, starts, ends, seen,
                   gaps, pass>>

----------------------------------------------------------------------------
(* Daemon.Drain.                                                           *)

(* The requester of the lanes' drains, and the idle task.                  *)
LanesAsk ==
    /\ life = "serving" /\ call["lanes"] = "idle"
    /\ lines # {} \/ observe # "none" \/ \E s \in Ending : await[s] # "none"
    /\ call' = [call EXCEPT !["lanes"] = "waiting"]
    /\ UNCHANGED <<disk, hook, life, starts, ends, end, seen, await, gaps, pass>>

PassBegins(c) ==
    /\ call[c] = "waiting" /\ pass.by = "none"
    /\ call' = [call EXCEPT ![c] = "passing"]
    /\ pass' = [by |-> c, todo |-> lines, inline |-> "none",
                gap |-> IF observe = "writing" THEN "replayable" ELSE "complete"]
    /\ observe' = IF observe = "written" THEN "none" ELSE observe
    /\ UNCHANGED <<lines, acked, ran, marker, hook, life, starts, ends, end, seen,
                   await, gaps>>

(* endDrainedFlush: only while the daemon serves, with the ends' gate open *)
(* and never from a drain a session end runs itself.                       *)
MayHandOver(c) == c = "lanes" /\ ends = "open"

(* processOne on a line that needs no publication: it is acknowledged, or  *)
(* its end is running and it is left for a later pass.                     *)
PassAbsorbs(l) ==
    /\ pass.by # "none" /\ pass.inline = "none" /\ l \in pass.todo
    /\ \/ /\ l[2] \in acked \/ seen[l[2]] = "done"
          /\ lines' = lines \ {l}
          /\ pass' = [pass EXCEPT !.todo = @ \ {l}]
       \/ /\ l[2] \notin acked /\ seen[l[2]] = "working"
          /\ pass' = [pass EXCEPT !.todo = @ \ {l},
                                  !.gap = IF @ = "complete" THEN "replayable" ELSE @]
          /\ UNCHANGED lines
    /\ UNCHANGED <<observe, acked, ran, marker, hook, life, starts, ends, end, seen,
                   await, gaps, call>>

(* dispatchPending on a flush nobody owns: handed to an end of its own, or *)
(* replayed inside the pass.                                               *)
PassTakes(l) ==
    /\ pass.by # "none" /\ pass.inline = "none" /\ l \in pass.todo
    /\ l[2] \notin acked /\ seen[l[2]] = "free"
    /\ seen' = [seen EXCEPT ![l[2]] = "working"]
    /\ IF MayHandOver(pass.by)
         THEN /\ end' = [end EXCEPT ![l[2]] = "begin"]
              /\ pass' = [pass EXCEPT !.todo = @ \ {l},
                                      !.gap = IF @ = "complete" THEN "replayable" ELSE @]
              /\ UNCHANGED <<marker, await>>
         ELSE /\ Mark(SessionOf[l[2]])
              /\ pass' = [pass EXCEPT !.inline = l[2]]
              /\ UNCHANGED end
    /\ UNCHANGED <<lines, observe, acked, ran, hook, life, starts, ends, gaps, call>>

(* endSession replayed by a drain: SessionEnd runs and the drain           *)
(* acknowledges the line, or the line's deadline cuts it short and the     *)
(* pass stops on an unacknowledged line.                                   *)
InlineEnds ==
    LET f == pass.inline  s == SessionOf[f] IN
    /\ f # "none"
    /\ \/ /\ marker' = marker \cup {s}
          /\ await' = [await EXCEPT ![s] = "current"]
          /\ ran' = ran \cup {f}
          /\ acked' = acked \cup {f}
          /\ seen' = [seen EXCEPT ![f] = "done"]
          /\ pass' = [pass EXCEPT !.inline = "none"]
       \/ /\ Mark(s)
          /\ seen' = [seen EXCEPT ![f] = "free"]
          /\ pass' = [pass EXCEPT !.inline = "none", !.todo = {}, !.gap = "failed"]
          /\ UNCHANGED <<ran, acked>>
    /\ UNCHANGED <<lines, observe, hook, life, starts, ends, end, gaps, call>>

(* The pass publishes its gap state and releases the mutex.                *)
PassEnds ==
    /\ pass.by # "none" /\ pass.inline = "none" /\ pass.todo = {}
    /\ gaps' = pass.gap
    /\ call' = [call EXCEPT ![pass.by] = IF pass.gap = "failed" THEN "failed" ELSE "passed"]
    /\ pass' = NoPass
    /\ UNCHANGED <<disk, hook, life, starts, ends, end, seen, await>>

(* Drain reads the gap state again, outside the mutex.                     *)
DrainReads(c) ==
    /\ call[c] = "passed"
    /\ call' = [call EXCEPT ![c] = IF gaps = "complete" THEN "retiring" ELSE "returned"]
    /\ UNCHANGED <<disk, hook, life, starts, ends, end, seen, await, gaps, pass>>

(* retireEndsAwaitingDrain: every end that waits has its record cleared    *)
(* unless a later end of its session has marked it since.                  *)
DrainRetires(c) ==
    /\ call[c] = "retiring"
    /\ marker' = marker \ {s \in Ending : await[s] = "current"}
    /\ await' = [s \in Ending |-> "none"]
    /\ call' = [call EXCEPT ![c] = "returned"]
    /\ UNCHANGED <<lines, observe, acked, ran, hook, life, starts, ends, end, seen,
                   gaps, pass>>

LanesReturn ==
    /\ call["lanes"] \in {"returned", "failed"}
    /\ call' = [call EXCEPT !["lanes"] = "idle"]
    /\ UNCHANGED <<disk, hook, life, starts, ends, end, seen, await, gaps, pass>>

----------------------------------------------------------------------------
(* The daemon's life.                                                      *)

Start ==
    /\ life = "down" /\ starts < MaxStarts
    /\ life' = "starting"
    /\ starts' = starts + 1
    /\ call' = [call EXCEPT !["startup"] = "waiting"]
    /\ UNCHANGED <<disk, hook, ends, end, seen, await, gaps, pass>>

Serve ==
    /\ life = "starting" /\ call["startup"] \in {"returned", "failed"}
    /\ life' = "serving"
    /\ call' = [call EXCEPT !["startup"] = "idle"]
    /\ UNCHANGED <<disk, hook, starts, ends, end, seen, await, gaps, pass>>

(* stopSessionEnds' first half, at Stop's start.                           *)
StopBegins ==
    /\ life = "serving"
    /\ life' = "stopping"
    /\ ends' = "closed"
    /\ UNCHANGED <<disk, hook, starts, end, seen, await, gaps, pass, call>>

GraceOver ==
    /\ life = "stopping" /\ ends = "closed"
    /\ ends' = "cancelled"
    /\ UNCHANGED <<disk, hook, life, starts, end, seen, await, gaps, pass, call>>

(* The lanes' requester and the ends are joined before Stop's own drain.   *)
StopDrains ==
    /\ life = "stopping"
    /\ call["lanes"] = "idle" /\ \A f \in Flush : end[f] = "none"
    /\ life' = "draining"
    /\ call' = [call EXCEPT !["stop"] = "waiting"]
    /\ UNCHANGED <<disk, hook, starts, ends, end, seen, await, gaps, pass>>

(* Exit after a clean stop, or a crash anywhere: only the disk survives,   *)
(* and a hook still waiting for its answer spools.                         *)
Exit ==
    /\ \/ life = "draining" /\ call["stop"] \in {"returned", "failed"}
       \/ life # "down" /\ starts < MaxStarts
    /\ life' = "down"
    /\ Fresh
    /\ UNCHANGED <<disk, hook, starts>>

----------------------------------------------------------------------------

EndStep(f) == EndBegins(f) \/ EndServes(f) \/ EndFinishes(f) \/ EndReturns(f)

PassStep ==
    \/ \E l \in pass.todo : PassAbsorbs(l) \/ PassTakes(l)
    \/ InlineEnds
    \/ PassEnds

DrainStep(c) == PassBegins(c) \/ DrainReads(c) \/ DrainRetires(c)

Next ==
    \/ \E f \in Flush : HookSpools(f) \/ AcceptLine(f) \/ StartEnd(f) \/ EndStep(f)
    \/ HookWrites \/ LanesAsk \/ LanesReturn
    \/ PassStep
    \/ \E c \in Caller : DrainStep(c)
    \/ Start \/ Serve \/ StopBegins \/ GraceOver \/ StopDrains \/ Exit

Spec == Init /\ [][Next]_vars

----------------------------------------------------------------------------

TypeOK ==
    /\ lines \subseteq {"wal", "spool"} \X Flush
    /\ acked \subseteq Flush /\ ran \subseteq Flush
    /\ marker \subseteq Ending
    /\ ends \in {"open", "closed", "cancelled"}
    /\ end \in [Flush -> {"none", "begin", "serve", "finish", "drain"}]
    /\ seen \in [Flush -> {"free", "working", "done"}]
    /\ await \in [Ending -> {"none", "current", "stale"}]
    /\ pass.by \in Caller \cup {"none"}

(* A flush reaches the committed frontier only when its session really was *)
(* ended: an end cut short by a shutdown's cancellation or by a drain's    *)
(* deadline leaves the flush pending.                                      *)
AckedWasEnded == acked \subseteq ran

(* An answered flush is never lost: it is on the frontier or its line is   *)
(* still on disk for a drain, whatever crashed in between.                 *)
AnsweredIsReplayable ==
    \A f \in Flush :
        hook[f] \in {"answered", "spooled"} => f \in acked \/ \E k \in {"wal", "spool"} : <<k, f>> \in lines

(* One process never ends a session twice at once for one flush: the copy  *)
(* a drain replays and the end on its own goroutine exclude each other.    *)
OneEndPerFlush ==
    \A f \in Flush :
        /\ end[f] \in {"begin", "serve", "finish"} => pass.inline # f /\ f \in Working

(* From its answer until its session has been ended a flush is on record   *)
(* as needing recovery.                                                    *)
OnRecordUntilEnded ==
    \A f \in Flush :
        hook[f] = "answered" /\ f \notin acked => SessionOf[f] \in marker

(* A session is ended once and for real: the drain's copy and the end on   *)
(* its own goroutine exclude each other, only an end that ran to its end   *)
(* acknowledges its flush, and until then an answered flush's line stays   *)
(* on disk (startSessionEnd, launchSessionEnd).                            *)
EndedForReal == OneEndPerFlush /\ AckedWasEnded /\ AnsweredIsReplayable
============================================================================
