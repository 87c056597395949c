-------------------------- MODULE DaemonLifecycle --------------------------
(***************************************************************************)
(* One daemon from Run to its exit: the startup that Run performs under    *)
(* startupMu, its own goroutines (runWG), the accept loop with its         *)
(* connection handlers, the session ends, and the Stop that may begin at   *)
(* any moment of it, on any goroutine, and must still leave the project    *)
(* free for the next daemon (internal/daemon/daemon.go, session_end.go,    *)
(* internal/ipc/server.go).                                                *)
(*                                                                         *)
(* A step is one critical section or one blocking call.  The drainer's     *)
(* mutex is held for a whole pass, so "draining" is a state of its holder. *)
(* What a request does besides starting a stop or a session end is another *)
(* module's subject.                                                       *)
(***************************************************************************)
EXTENDS Naturals, FiniteSets

CONSTANTS
    Worker,      \* Run's goroutines: "hotPath", "laneDrain", "spoolWatch", "redrain"
    Client,      \* connections to the endpoint, one request at a time each
    MaxRequests, \* bound: requests a connection carries
    MaxWedged,   \* bound: handlers that never return
    MayBreak     \* whether the accept loop may fail for a reason of the host's

VARIABLES
    run,         \* where Run is
    stop,        \* where Stop's once-only cleanup is
    ctx,         \* [caller |-> the caller's context ended, run |-> runCtx ended,
                 \*  published |-> d.runCancel is set]
    held,        \* what the process holds: "lock", "state.bin", "owned"
    taken,       \* what Stop read once startup was over: "server", "lock"
    worker,      \* Run's goroutines
    ends,        \* per connection, the session end its flush started
    gate,        \* sessionEnds: "open", "closed" (grace running), "cancelled"
    server,      \* [at |-> none/open/closing/closed, serve |-> the accept loop]
    conn,        \* per connection, where its handler is
    sock,        \* connections whose socket the server has not closed
    op,          \* per connection, the request last sent
    asked,       \* per connection, requests sent
    started,     \* serveOp's gate: "shut", "open", "served" (firstServed too)
    outlasted    \* history: the handlers and the ends whose join gave up on them

vars == <<run, stop, ctx, held, taken, worker, ends, gate, server, conn, sock,
          op, asked, started, outlasted>>

Op == {"observe", "flush", "admin.shutdown"}

----------------------------------------------------------------------------

Startup == {"publish", "resolve", "lock", "check", "workers", "listen",
            "joinFail", "state", "drain", "draining", "finish"}

Returned == run \in {"returned", "abandoned"}

(* d.stopped is closed.  "asked" is an admin.shutdown whose goroutine has   *)
(* not called Stop yet.                                                    *)
StopBegun == stop \notin {"idle", "asked"}

(* drainer.Drain's mutex, held for a whole pass by whoever drains.         *)
DrainFree ==
    /\ run # "draining"
    /\ stop # "draining"
    /\ \A w \in Worker : worker[w] # "draining"
    /\ \A c \in Client : ends[c] # "draining"

InFlight == {"gated", "handling", "handled", "wedged"}

Registered == {c \in Client : conn[c] \in InFlight \cup {"reading"}}

Closing == server.at \in {"closing", "closed"}

Init ==
    /\ run = "idle"
    /\ stop = "idle"
    /\ ctx = [caller |-> FALSE, run |-> FALSE, published |-> FALSE]
    /\ held = {"owned"}
    /\ taken = {}
    /\ worker = [w \in Worker |-> "none"]
    /\ ends = [c \in Client |-> "none"]
    /\ gate = "open"
    /\ server = [at |-> "none", serve |-> "none"]
    /\ conn = [c \in Client |-> "none"]
    /\ sock = {}
    /\ op = [c \in Client |-> "observe"]
    /\ asked = [c \in Client |-> 0]
    /\ started = "shut"
    /\ outlasted = [handlers |-> {}, ends |-> {}]

----------------------------------------------------------------------------
(* Run.                                                                    *)

(* Run's return ends the process: its deferred calls cancel runCtx, open   *)
(* the request gate and release startupMu.                                 *)
Return ==
    /\ run' = "returned"
    /\ ctx' = [ctx EXCEPT !.run = TRUE]
    /\ started' = IF started = "shut" /\ server.at # "none" THEN "open" ELSE started

UncRun == UNCHANGED <<stop, taken, ends, gate, conn, sock, op, asked, outlasted>>

RunBegin ==
    /\ run = "idle"
    /\ run' = "publish"
    /\ UNCHANGED <<ctx, held, worker, server, started>>
    /\ UncRun

RunPublish ==
    /\ run = "publish"
    /\ run' = "resolve"
    /\ ctx' = [ctx EXCEPT !.published = TRUE]
    /\ UNCHANGED <<held, worker, server, started>>
    /\ UncRun

(* An address that does not resolve ends Run before it owns anything.      *)
RunResolve ==
    /\ run = "resolve"
    /\ \/ run' = "lock" /\ UNCHANGED <<ctx, started>>
       \/ Return
    /\ UNCHANGED <<held, worker, server>>
    /\ UncRun

RunLock ==
    /\ run = "lock"
    /\ \/ run' = "check" /\ held' = held \cup {"lock"} /\ UNCHANGED <<ctx, started>>
       \/ Return /\ UNCHANGED held
    /\ UNCHANGED <<worker, server>>
    /\ UncRun

RunCheck ==
    /\ run = "check"
    /\ IF StopBegun
         THEN Return /\ held' = held \ {"lock"}
         ELSE run' = "workers" /\ UNCHANGED <<held, ctx, started>>
    /\ UNCHANGED <<worker, server>>
    /\ UncRun

(* goRun, once per goroutine, all before the endpoint exists.              *)
RunWorkers ==
    /\ run = "workers"
    /\ run' = "listen"
    /\ worker' = [w \in Worker |-> "idle"]
    /\ UNCHANGED <<held, ctx, started, server>>
    /\ UncRun

RunListen ==
    /\ run = "listen"
    /\ \/ /\ run' = "state"
          /\ server' = [at |-> "open", serve |-> "accepting"]
          /\ UNCHANGED ctx
       \/ /\ run' = "joinFail"
          /\ ctx' = [ctx EXCEPT !.run = TRUE]
          /\ UNCHANGED server
    /\ UNCHANGED <<held, started, worker>>
    /\ UncRun

RunJoinFail ==
    /\ run = "joinFail"
    /\ \A w \in Worker : worker[w] = "gone"
    /\ Return
    /\ held' = held \ {"lock"}
    /\ UNCHANGED <<worker, server>>
    /\ UncRun

RunState ==
    /\ run = "state"
    /\ run' = "drain"
    /\ held' = held \cup {"state.bin"}
    /\ UNCHANGED <<ctx, started, worker, server>>
    /\ UncRun

RunDrainBegin ==
    /\ run = "drain" /\ DrainFree
    /\ run' = "draining"
    /\ UNCHANGED <<held, ctx, started, worker, server>>
    /\ UncRun

RunDrainEnd ==
    /\ run = "draining"
    /\ run' = "finish"
    /\ UNCHANGED <<held, ctx, started, worker, server>>
    /\ UncRun

(* endStartup, then openForRequests.                                       *)
RunFinish ==
    /\ run = "finish"
    /\ run' = "open"
    /\ UNCHANGED <<held, ctx, started, worker, server>>
    /\ UncRun

RunOpen ==
    /\ run = "open"
    /\ run' = "loop"
    /\ started' = "open"
    /\ UNCHANGED <<held, ctx, worker, server>>
    /\ UncRun

(* The ctx.Done and the idle-exit arms: cancel, join Serve, then Stop.     *)
RunLeave ==
    /\ run = "loop"
    /\ run' = "joinServe"
    /\ ctx' = [ctx EXCEPT !.run = TRUE]
    /\ UNCHANGED <<held, started, worker, server>>
    /\ UncRun

RunJoinServe ==
    /\ run = "joinServe" /\ server.serve = "returned"
    /\ run' = "stopping"
    /\ UNCHANGED <<ctx, held, started, worker, server>>
    /\ UncRun

(* The serveErrCh arm: a stop already begun is awaited, otherwise this is  *)
(* a caller's cancellation or a transport failure and Run stops itself.    *)
RunServeEnded ==
    /\ run = "loop" /\ server.serve = "returned"
    /\ run' = IF StopBegun THEN "await" ELSE "stopping"
    /\ UNCHANGED <<ctx, held, started, worker, server>>
    /\ UncRun

(* stopOnce.Do: the first caller performs the cleanup, a later one waits   *)
(* for it.                                                                 *)
RunAwait ==
    /\ run \in {"stopping", "await"} /\ stop = "done"
    /\ Return
    /\ UNCHANGED <<held, worker, server>>
    /\ UncRun

(* awaitStopCleanup gives up after stopCleanupBound: the process exits with *)
(* the cleanup in flight.                                                  *)
RunGivesUp ==
    /\ run = "await" /\ stop # "done"
    /\ run' = "abandoned"
    /\ UNCHANGED <<ctx, started, held, worker, server>>
    /\ UncRun

----------------------------------------------------------------------------
(* Stop.                                                                   *)

UncStop == UNCHANGED <<run, worker, ends, conn, op, asked, started>>

Left == Client \ {c \in Client : ends[c] = "none"}

(* Called by the admin.shutdown handler's goroutine, by Run, or by the     *)
(* daemon's owner at any moment.                                           *)
StopBegin ==
    /\ ~StopBegun /\ ~Returned
    /\ stop' = "cancel"
    /\ UNCHANGED <<ctx, held, taken, gate, server, sock, outlasted>>
    /\ UncStop

StopCancel ==
    /\ stop = "cancel"
    /\ stop' = "ends"
    /\ ctx' = [ctx EXCEPT !.run = @ \/ ctx.published]
    /\ UNCHANGED <<held, taken, gate, server, sock, outlasted>>
    /\ UncStop

(* Deviation: the session ends' grace starts only when Stop comes to join  *)
(* them.                                                                   *)
StopEndsNoGrace ==
    /\ stop = "ends"
    /\ stop' = "startup"
    /\ UNCHANGED <<ctx, held, taken, gate, server, sock, outlasted>>
    /\ UncStop

(* stopSessionEnds: no end begins any more and the grace is running.       *)
StopEnds ==
    /\ stop = "ends"
    /\ stop' = "startup"
    /\ gate' = "closed"
    /\ UNCHANGED <<ctx, held, taken, server, sock, outlasted>>
    /\ UncStop

GraceOver ==
    /\ gate = "closed"
    /\ gate' = "cancelled"
    /\ UNCHANGED <<stop, ctx, held, taken, server, sock, outlasted>>
    /\ UncStop

StopStartup ==
    /\ stop = "startup" /\ run \notin Startup
    /\ stop' = "workers"
    /\ taken' = (IF server.at = "none" THEN {} ELSE {"server"}) \cup (held \cap {"lock"})
    /\ UNCHANGED <<ctx, held, gate, server, sock, outlasted>>
    /\ UncStop

StopWorkers ==
    /\ stop = "workers"
    /\ \A w \in Worker : worker[w] \in {"none", "gone"}
    /\ stop' = "joinEnds"
    /\ UNCHANGED <<ctx, held, taken, gate, server, sock, outlasted>>
    /\ UncStop

(* The ends are gone, or the grace is over and sessionEndAbandonAfter too. *)
StopJoinEnds ==
    /\ stop = "joinEnds"
    /\ Left = {} \/ gate = "cancelled"
    /\ stop' = "drain"
    /\ gate' = "cancelled"
    /\ outlasted' = [outlasted EXCEPT !.ends = Left]
    /\ UNCHANGED <<ctx, held, taken, server, sock>>
    /\ UncStop

StopDrainBegin ==
    /\ stop = "drain" /\ DrainFree
    /\ stop' = "draining"
    /\ UNCHANGED <<ctx, held, taken, gate, server, sock, outlasted>>
    /\ UncStop

(* The bounded drain, ing.Wait, stopPromptRecordings and ing.Close, the    *)
(* sketches and the metrics.                                               *)
StopDrainEnd ==
    /\ stop = "draining"
    /\ stop' = "state"
    /\ UNCHANGED <<ctx, held, taken, gate, server, sock, outlasted>>
    /\ UncStop

StopState ==
    /\ stop = "state"
    /\ stop' = "close"
    /\ held' = held \ {"state.bin"}
    /\ UNCHANGED <<ctx, taken, gate, server, sock, outlasted>>
    /\ UncStop

(* Deviation: Close closes every connection it tracks.                     *)
CloseConnsAll ==
    /\ server' = [server EXCEPT !.at = "closing"]
    /\ sock' = sock \ Registered

(* server.Close's critical section: closing is set and every idle          *)
(* connection closed; one with a request in flight is left to its reply,   *)
(* which Reply writes before closeReplyWait or not at all.                 *)
CloseConns ==
    /\ server' = [server EXCEPT !.at = "closing"]
    /\ sock' = sock \ {c \in Registered : conn[c] = "reading"}

(* Serve's context.AfterFunc.                                              *)
ServeCancelled ==
    /\ ctx.run /\ server.at = "open" /\ server.serve # "returned"
    /\ CloseConns
    /\ UNCHANGED <<stop, ctx, held, taken, gate, outlasted>>
    /\ UncStop

StopCloseServer ==
    /\ stop = "close" /\ "server" \in taken /\ server.at = "open"
    /\ CloseConns
    /\ UNCHANGED <<stop, ctx, held, taken, gate, outlasted>>
    /\ UncStop

(* Close's end, whoever began it: waitForConns saw every handler go, or     *)
(* serverCloseWait, which runs from the first Close, is over.              *)
CloseEnds ==
    /\ server.at = "closing"
    /\ server' = [server EXCEPT !.at = "closed"]
    /\ outlasted' = [outlasted EXCEPT !.handlers = {c \in Client : conn[c] \in InFlight}]
    /\ UNCHANGED <<stop, ctx, held, taken, gate, sock>>
    /\ UncStop

(* closeOnce: the second call returns when the first one does.             *)
StopClosed ==
    /\ stop = "close"
    /\ "server" \in taken => server.at = "closed"
    /\ stop' = "owned"
    /\ UNCHANGED <<ctx, held, taken, gate, server, sock, outlasted>>
    /\ UncStop

StopOwned ==
    /\ stop = "owned"
    /\ stop' = "release"
    /\ held' = held \ {"owned"}
    /\ UNCHANGED <<ctx, taken, gate, server, sock, outlasted>>
    /\ UncStop

StopRelease ==
    /\ stop = "release"
    /\ stop' = "done"
    /\ held' = held \ taken
    /\ UNCHANGED <<ctx, taken, gate, server, sock, outlasted>>
    /\ UncStop

----------------------------------------------------------------------------
(* Run's goroutines and the session ends.                                  *)

UncBack == UNCHANGED <<run, stop, ctx, held, taken, gate, server, conn, sock,
                       op, asked, started, outlasted>>

(* The lane drains and the spool watcher take the drainer's mutex without  *)
(* watching any context; the re-drain waits for the first served request.  *)
WorkerWants(w) ==
    /\ worker[w] = "idle" /\ w # "hotPath"
    /\ w = "redrain" => started = "served"
    /\ worker' = [worker EXCEPT ![w] = "waiting"]
    /\ UNCHANGED ends
    /\ UncBack

WorkerDrains(w) ==
    /\ worker[w] = "waiting" /\ DrainFree
    /\ worker' = [worker EXCEPT ![w] = "draining"]
    /\ UNCHANGED ends
    /\ UncBack

WorkerDrained(w) ==
    /\ worker[w] = "draining"
    /\ worker' = [worker EXCEPT ![w] = IF w = "redrain" THEN "gone" ELSE "idle"]
    /\ UNCHANGED ends
    /\ UncBack

WorkerGone(w) ==
    /\ worker[w] = "idle" /\ ctx.run
    /\ worker' = [worker EXCEPT ![w] = "gone"]
    /\ UNCHANGED ends
    /\ UncBack

(* endSession up to its last step, which is a drain.                       *)
EndDrains(c) ==
    /\ ends[c] = "running" /\ DrainFree
    /\ ends' = [ends EXCEPT ![c] = "draining"]
    /\ UNCHANGED worker
    /\ UncBack

(* An end may take long; cancelled, its steps answer promptly, or one      *)
(* ignores it.                                                             *)
EndReturns(c) ==
    /\ \/ ends[c] = "draining"
       \/ ends[c] \in {"running", "deaf"} /\ gate = "cancelled"
    /\ ends' = [ends EXCEPT ![c] = "none"]
    /\ UNCHANGED worker
    /\ UncBack

EndIgnores(c) ==
    /\ ends[c] = "running"
    /\ Cardinality({x \in Client : ends[x] = "deaf"}) < MaxWedged
    /\ ends' = [ends EXCEPT ![c] = "deaf"]
    /\ UNCHANGED worker
    /\ UncBack

----------------------------------------------------------------------------
(* The endpoint and its connections.                                       *)

UncConn == UNCHANGED <<run, ctx, held, taken, worker, gate, outlasted>>

Dial(c) ==
    /\ conn[c] = "none" /\ asked[c] = 0 /\ server.at = "open"
    /\ conn' = [conn EXCEPT ![c] = "dialed"]
    /\ sock' = sock \cup {c}
    /\ UNCHANGED <<stop, ends, server, op, asked>>
    /\ UNCHANGED started
    /\ UncConn

(* Serve's loop with registerConn: a connection is tracked, or refused     *)
(* because Close has begun.                                                *)
Accept(c) ==
    /\ server.serve = "accepting" /\ conn[c] = "dialed"
    /\ IF Closing
         THEN conn' = [conn EXCEPT ![c] = "gone"] /\ sock' = sock \ {c}
         ELSE conn' = [conn EXCEPT ![c] = "reading"] /\ UNCHANGED sock
    /\ UNCHANGED <<stop, ends, server, op, asked>>
    /\ UNCHANGED started
    /\ UncConn

(* Accept fails: Close closed the listener, or the transport broke.        *)
ServeLeaves ==
    /\ server.serve = "accepting"
    /\ \/ Closing
       \/ MayBreak
    /\ server' = [server EXCEPT !.serve = "waiting"]
    /\ UNCHANGED <<stop, ends, conn, sock, op, asked>>
    /\ UNCHANGED started
    /\ UncConn

(* Its own waitForConns, with a serverCloseWait of its own.                *)
ServeReturns ==
    /\ server.serve = "waiting"
    /\ server' = [server EXCEPT !.serve = "returned"]
    /\ UNCHANGED <<stop, ends, conn, sock, op, asked>>
    /\ UNCHANGED started
    /\ UncConn

(* A request is read; beginRequest refuses it once Close has begun.        *)
Request(c) ==
    /\ conn[c] = "reading" /\ c \in sock /\ asked[c] < MaxRequests
    /\ asked' = [asked EXCEPT ![c] = @ + 1]
    /\ \E o \in Op : op' = [op EXCEPT ![c] = o]
    /\ conn' = [conn EXCEPT ![c] = "gated"]
    /\ UNCHANGED <<stop, ends, server, sock>>
    /\ UNCHANGED started
    /\ UncConn

(* The read fails: the peer hung up, its idle time ran out, or Close       *)
(* closed the socket.                                                      *)
ReadEnds(c) ==
    /\ conn[c] = "reading"
    /\ conn' = [conn EXCEPT ![c] = "gone"]
    /\ sock' = sock \ {c}
    /\ UNCHANGED <<stop, ends, server, op, asked>>
    /\ UNCHANGED started
    /\ UncConn

(* serveOp waits for the startup, then dispatches: admin.shutdown starts   *)
(* its Stop, a flush its session end unless Stop has closed that gate.     *)
Dispatch(c) ==
    /\ conn[c] = "gated" /\ started # "shut"
    /\ started' = "served"
    /\ conn' = [conn EXCEPT ![c] = "handling"]
    /\ stop' = IF op[c] = "admin.shutdown" /\ stop = "idle" THEN "asked" ELSE stop
    /\ ends' = [ends EXCEPT ![c] =
                   IF op[c] = "flush" /\ gate = "open" THEN "running" ELSE @]
    /\ UNCHANGED <<server, sock, op, asked>>
    /\ UncConn

Handled(c) ==
    /\ conn[c] = "handling"
    /\ \/ conn' = [conn EXCEPT ![c] = "handled"]
       \/ /\ Cardinality({x \in Client : conn[x] = "wedged"}) < MaxWedged
          /\ conn' = [conn EXCEPT ![c] = "wedged"]
    /\ UNCHANGED <<stop, ends, server, sock, op, asked>>
    /\ UNCHANGED started
    /\ UncConn

(* The reply is written, or the peer or the deadline fails it; then        *)
(* endRequest: the handler reads on, or closes the connection when the     *)
(* write failed or Close has begun.                                        *)
Reply(c) ==
    /\ conn[c] = "handled"
    /\ \E on \in {FALSE, (c \in sock /\ ~Closing)} :
       /\ conn' = [conn EXCEPT ![c] = IF on THEN "reading" ELSE "gone"]
       /\ sock' = IF on THEN sock ELSE sock \ {c}
    /\ UNCHANGED <<stop, ends, server, op, asked>>
    /\ UNCHANGED started
    /\ UncConn

CallerCancels ==
    /\ run # "idle" /\ ~ctx.caller
    /\ ctx' = [ctx EXCEPT !.caller = TRUE, !.run = TRUE]
    /\ UNCHANGED <<run, stop, held, taken, worker, ends, gate, server, conn,
                   sock, op, asked, started, outlasted>>

----------------------------------------------------------------------------

RunStep ==
    \/ RunPublish \/ RunResolve \/ RunLock \/ RunCheck \/ RunWorkers
    \/ RunListen \/ RunJoinFail \/ RunState \/ RunDrainBegin \/ RunDrainEnd
    \/ RunFinish \/ RunOpen \/ RunJoinServe \/ RunServeEnded \/ RunAwait

StopStep ==
    \/ StopCancel \/ StopEnds \/ GraceOver \/ StopStartup \/ StopWorkers
    \/ StopJoinEnds \/ StopDrainBegin \/ StopDrainEnd \/ StopState
    \/ StopCloseServer \/ CloseEnds \/ StopClosed \/ StopOwned \/ StopRelease

ConnStep(c) == Accept(c) \/ Dispatch(c) \/ Handled(c) \/ Reply(c)

NextAlive ==
    \/ RunBegin \/ RunStep \/ RunLeave \/ RunGivesUp
    \/ StopBegin \/ StopStep
    \/ CallerCancels
    \/ ServeCancelled \/ ServeLeaves \/ ServeReturns
    \/ \E w \in Worker : \/ WorkerWants(w) \/ WorkerDrains(w)
                         \/ WorkerDrained(w) \/ WorkerGone(w)
    \/ \E c \in Client : \/ EndDrains(c) \/ EndReturns(c) \/ EndIgnores(c)
                         \/ Dial(c) \/ Request(c) \/ ReadEnds(c) \/ ConnStep(c)

Next ==
    /\ run # "abandoned"
    /\ NextAlive

Spec == Init /\ [][Next]_vars

(* Every goroutine keeps running and every timer fires; a transport failure *)
(* and the callers' choices may never come.  A goroutine at a select whose *)
(* context is done takes that arm sooner or later.  A session end is only  *)
(* known to end once it is cancelled, and not even then if it is deaf.     *)
Fairness ==
    /\ WF_vars(RunStep)
    /\ WF_vars(ctx.caller /\ RunLeave)
    /\ WF_vars((stop = "asked" \/ run = "stopping") /\ StopBegin)
    /\ WF_vars(StopStep)
    /\ WF_vars(CloseEnds)
    /\ WF_vars(GraceOver)
    /\ WF_vars(ServeCancelled)
    /\ WF_vars(Closing /\ ServeLeaves)
    /\ WF_vars(ServeReturns)
    /\ \A w \in Worker :
         SF_vars(WorkerDrains(w)) /\ WF_vars(WorkerDrained(w)) /\ SF_vars(WorkerGone(w))
    /\ \A c \in Client :
         /\ WF_vars(gate = "cancelled" /\ ends[c] # "deaf" /\ EndReturns(c))
         /\ WF_vars(c \notin sock /\ ReadEnds(c))
         /\ WF_vars(ConnStep(c))

FairSpec == Spec /\ Fairness

----------------------------------------------------------------------------
(* Properties.                                                             *)

TypeOK ==
    /\ run \in Startup \cup {"idle", "open", "loop", "joinServe", "stopping",
                           "await", "returned", "abandoned"}
    /\ ctx \in [caller : BOOLEAN, run : BOOLEAN, published : BOOLEAN]
    /\ held \subseteq {"lock", "state.bin", "owned"}
    /\ taken \subseteq {"lock", "server"}
    /\ worker \in [Worker -> {"none", "idle", "waiting", "draining", "gone"}]
    /\ ends \in [Client -> {"none", "running", "draining", "deaf"}]
    /\ gate \in {"open", "closed", "cancelled"}
    /\ sock \subseteq Client
    /\ started \in {"shut", "open", "served"}

(* A request that was read before a shutdown began can be answered: its    *)
(* connection stays open from beginRequest until its reply is written or   *)
(* the write fails, however the server's Close, reached through a          *)
(* cancelled context or from Stop, falls into it.                          *)
ReplyOutlivesClose ==
    \A c \in Client : conn[c] \in InFlight => c \in sock

(* When the resources the daemon owns are closed, the only requests and    *)
(* session ends that still use them are those that a bounded join waited   *)
(* for in vain, Close's serverCloseWait and sessionEndAbandonAfter: none   *)
(* began after its join, and none of Run's goroutines is left.             *)
QuietAtClose ==
    "owned" \notin held =>
        /\ {c \in Client : conn[c] \in InFlight} \subseteq outlasted.handlers
        /\ Left \subseteq outlasted.ends
        /\ \A w \in Worker : worker[w] \in {"none", "gone"}

(* When Run returns the daemon has finished, whichever goroutine stopped   *)
(* it and however far its startup was: no lock that keeps a successor out, *)
(* no state.bin that names a dead endpoint, no goroutine left.             *)
CleanExit ==
    run = "returned" =>
        /\ held \cap {"lock", "state.bin"} = {}
        /\ \A w \in Worker : worker[w] \in {"none", "gone"}
        /\ server.at # "open"

(* A shutdown is orderly: requests that were read keep their connection    *)
(* for the reply, what they use stays open until they are gone or their    *)
(* join gave up on them, and Run leaves nothing behind (Server.Close,      *)
(* stopSessionEnds, Stop's order, Run's return).                           *)
OrderlyShutdown == ReplyOutlivesClose /\ QuietAtClose /\ CleanExit

(* A shutdown is carried out: once the caller has cancelled Run, or any    *)
(* goroutine has begun a Stop, Run returns and the project is free, even   *)
(* when a session end ignores its cancellation and a handler never returns.*)
ShutdownCompletes ==
    (ctx.caller \/ (StopBegun /\ run # "idle")) ~> (Returned /\ "lock" \notin held) \/ run = "abandoned"

============================================================================
