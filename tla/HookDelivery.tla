---------------------------- MODULE HookDelivery ----------------------------
(***************************************************************************)
(* A hook's event on its way into the daemon: the client's send with its   *)
(* spool fallback (internal/ipc/client.go, internal/cli/hookclient.go),    *)
(* the hot-path submode and the 32-byte record that carries it to new      *)
(* clients (internal/daemon/handlers.go, registry.go, budget.go,           *)
(* internal/ipc/state.go), the startup drain and the drain after the first *)
(* served request (daemon.go), and the client-spool watcher                *)
(* (spool_watch.go).                                                       *)
(*                                                                         *)
(* Every hook is one process that sends one fire-and-forget hot-path       *)
(* request and owns one spool file.  A line of the write-ahead log or of   *)
(* a spool is named by its hook.  Publication is exactly once by the lease *)
(* journal (DeliveryJournal.tla), so pub is a set.                         *)
(***************************************************************************)
EXTENDS Naturals

CONSTANTS Hook,        \* the hook processes
          MaxFaults,   \* crashes, refused spool writes, failed drains and unrecorded requests
          MaxFlips     \* submode transitions and new sessions in a behaviour

VARIABLES hook,     \* the client's place in Send, per hook
          srv,      \* the daemon's side of the hook's connection
          daemon,   \* "down", "starting", "replayed" or "open"
          claim,    \* the spawn lock file is held
          starter,  \* the hook whose spawn started this daemon
          wal,      \* lines durable in the write-ahead log
          spool,    \* client spool files on disk
          pub,      \* deliveries published
          unkept,   \* deliveries not recorded: admission denied or failed, or recording off
          behind,    \* this daemon's startup drain failed
          hot,      \* the registry's submode, of this daemon
          record,   \* the submode in state.bin
          flip,     \* a transition on record and not announced yet
          start,    \* a new session's start: what it holds to write
          redrain,  \* the drain after the first served request
          watch,    \* the watcher: "wait", "look" or "rest"
          kick,     \* a kick is pending
          kicked,   \* the coming look follows a kick
          entry,    \* what the watcher remembers of each spool file
          faults,
          flips

client == <<hook, spool>>
life == <<daemon, claim, starter, behind>>
submode == <<hot, record, flip, start, flips>>
watcher == <<watch, kick, kicked, entry>>
vars == <<hook, srv, daemon, claim, starter, wal, spool, pub, unkept, behind, hot, record,
          flip, start, redrain, watch, kick, kicked, entry, faults, flips>>

Nobody == "none"

Init ==
    /\ hook = [h \in Hook |-> "new"]
    /\ srv = [h \in Hook |-> "none"]
    /\ daemon = "down"
    /\ claim = FALSE
    /\ starter = Nobody
    /\ wal = {}
    /\ spool = {}
    /\ pub = {} /\ unkept = {} /\ behind = FALSE
    /\ hot = "sync"
    /\ record = "absent"
    /\ flip = "none"
    /\ start = "none"
    /\ redrain = "armed"
    /\ watch = "wait"
    /\ kick = FALSE
    /\ kicked = FALSE
    /\ entry = [h \in Hook |-> "unseen"]
    /\ faults = 0
    /\ flips = 0

Up == daemon # "down"

-----------------------------------------------------------------------------
(* The client (Send). *)

\* doHook reads state.bin once and the client is built on it; a record that is
\* missing falls back to the configuration, whose submode is sync.  A hot-path
\* hook under a spool record never connects.
ReadRecord(h) ==
    /\ hook[h] = "new"
    /\ hook' = [hook EXCEPT ![h] = IF record = "spool" THEN "append" ELSE "dial"]
    /\ UNCHANGED <<srv, life, wal, spool, pub, unkept, submode, redrain, watcher, faults>>

\* The endpoint exists from the listen on, before the gate opens.
Connect(h) ==
    /\ hook[h] = "dial"
    /\ Up
    /\ hook' = [hook EXCEPT ![h] = "connected"]
    /\ srv' = [srv EXCEPT ![h] = "read"]
    /\ UNCHANGED <<life, wal, spool, pub, unkept, submode, redrain, watcher, faults>>

\* A dial fails when no daemon listens, and may fail against a busy one (the
\* connect deadline): the line is spooled first and the daemon spawned after.
ConnectFails(h) ==
    /\ hook[h] = "dial"
    /\ hook' = [hook EXCEPT ![h] = "appendSpawn"]
    /\ UNCHANGED <<srv, life, wal, spool, pub, unkept, submode, redrain, watcher, faults>>

\* awaitACK: the ACK ends the send, the NAK and a closed connection spool.
ReadAnswer(h) ==
    /\ hook[h] = "connected"
    /\ srv[h] \in {"ack", "nak", "gone"}
    /\ hook' = [hook EXCEPT ![h] = IF srv[h] = "ack" THEN "acked" ELSE "append"]
    /\ UNCHANGED <<srv, life, wal, spool, pub, unkept, submode, redrain, watcher, faults>>

(* Deviation: a request whose ACK did not come in time counts as delivered. *)
AckDeadlineTrusts(h) ==
    /\ hook[h] = "connected"
    /\ hook' = [hook EXCEPT ![h] = "acked"]
    /\ UNCHANGED <<srv, life, wal, spool, pub, unkept, submode, redrain, watcher, faults>>

\* The ACK deadline passes: the line is spooled whatever the daemon does with it.
AckDeadline(h) ==
    /\ hook[h] = "connected"
    /\ hook' = [hook EXCEPT ![h] = "append"]
    /\ UNCHANGED <<srv, life, wal, spool, pub, unkept, submode, redrain, watcher, faults>>

\* appendToSpool.
Append(h) ==
    /\ hook[h] \in {"append", "appendSpawn"}
    /\ spool' = spool \union {h}
    /\ hook' = [hook EXCEPT ![h] = IF hook[h] = "append" THEN "spooled" ELSE "spawn"]
    /\ UNCHANGED <<srv, life, wal, pub, unkept, submode, redrain, watcher, faults>>

\* A spool write that fails is a counted, announced drop; the hook goes on.
AppendFails(h) ==
    /\ hook[h] \in {"append", "appendSpawn"}
    /\ faults < MaxFaults
    /\ hook' = [hook EXCEPT ![h] = IF hook[h] = "append" THEN "dropped" ELSE "droppedSpawn"]
    /\ faults' = faults + 1
    /\ UNCHANGED <<srv, life, wal, spool, pub, unkept, submode, redrain, watcher>>

\* lazySpawn: one client holds the spawn lock; a daemon started while another
\* runs loses the single-writer lock and exits, which changes nothing here.
LazySpawn(h) ==
    /\ hook[h] \in {"spawn", "droppedSpawn"}
    /\ hook' = [hook EXCEPT ![h] = IF hook[h] = "spawn" THEN "spooled" ELSE "dropped"]
    /\ claim' = (claim \/ ~Up)
    /\ starter' = IF ~claim /\ ~Up THEN h ELSE starter
    /\ UNCHANGED <<srv, daemon, behind, wal, spool, pub, unkept, submode, redrain, watcher, faults>>

-----------------------------------------------------------------------------
(* The daemon's startup, requests and end. *)

\* Run up to the accept loop: the fresh registry is in sync, state.bin is
\* written from it and the spawn lock removed; the watcher is started.
Listen ==
    /\ daemon = "down"
    /\ claim
    /\ daemon' = "starting"
    /\ claim' = FALSE
    /\ hot' = "sync"
    /\ record' = "sync"
    /\ UNCHANGED <<hook, srv, starter, behind, wal, spool, pub, unkept, flip, start, redrain,
                   watcher, faults, flips>>

InFlight == wal \ (pub \union unkept)

\* A drain publishes every line on disk but the spooled copies of deliveries a
\* worker holds, which it defers, and retires the ones admission denies; a settled
\* line's spool file is removed.
DrainOf(lines) ==
    /\ \E denied \in SUBSET ((lines \intersect spool) \ (wal \union pub)) :
          /\ pub' = pub \union (lines \ (denied \union unkept))
          /\ unkept' = unkept \union denied
    /\ spool' = spool \ lines

Drain(deferred) == DrainOf((wal \union spool) \ deferred)

\* A pass that fails or is cut off by its deadline has settled some of them.
DrainFails(deferred) ==
    /\ faults < MaxFaults
    /\ \E lines \in SUBSET ((wal \union spool) \ deferred) : DrainOf(lines)

\* The startup drain: nothing is in flight before the gate opens.  A failed one is
\* logged and the startup goes on.
StartupDrain ==
    /\ daemon = "starting"
    /\ daemon' = "replayed"
    /\ \/ Drain({}) /\ UNCHANGED <<behind, faults>>
       \/ DrainFails({}) /\ behind' = TRUE /\ faults' = faults + 1
    /\ UNCHANGED <<hook, srv, claim, starter, wal, submode, redrain, watcher>>

\* openForRequests, after the rest of the startup.
Open ==
    /\ daemon = "replayed"
    /\ daemon' = "open"
    /\ UNCHANGED <<hook, srv, claim, starter, behind, wal, spool, pub, unkept, submode, redrain,
                   watcher, faults>>

\* The answer of dispatchOp to a request that was handled: a NAK while the registry is
\* in spool submode.
Handled == IF hot = "spool" THEN "nak" ELSE "ack"

\* dispatchOp of a hot-path request: the first one releases the second drain and each one
\* kicks the watcher.  A line is durable before its answer; a delivery that admission
\* denies or fails is acknowledged with nothing persisted, whatever the submode, and so is
\* one that arrives while recording is off; an Accept that fails is a NAK, its line perhaps
\* in the log.
Serve(h) ==
    /\ srv[h] = "read"
    /\ daemon = "open"
    /\ \/ /\ wal' = wal \union {h}
          /\ srv' = [srv EXCEPT ![h] = Handled]
          /\ UNCHANGED <<unkept, faults>>
       \/ /\ faults < MaxFaults /\ faults' = faults + 1
          /\ \E answer \in {"ack", Handled} : srv' = [srv EXCEPT ![h] = answer]
          /\ unkept' = unkept \union {h}
          /\ UNCHANGED wal
       \/ /\ faults < MaxFaults /\ faults' = faults + 1
          /\ srv' = [srv EXCEPT ![h] = "nak"]
          /\ wal' \in {wal, wal \union {h}}
          /\ UNCHANGED unkept
    /\ redrain' = IF redrain = "armed" THEN "due" ELSE redrain
    /\ kick' = TRUE
    /\ UNCHANGED <<client, life, pub, submode, watch, kicked, entry>>

\* The publication lanes settle a line of the log (DispatchLanes.tla); a line
\* the spooled copy published first is already in pub.
Publish(h) ==
    /\ h \in InFlight
    /\ daemon = "open"
    /\ pub' = pub \union {h}
    /\ UNCHANGED <<client, srv, life, wal, unkept, submode, redrain, watcher, faults>>

\* redrainOnceServing.
Redrain ==
    /\ redrain = "due"
    /\ daemon = "open"
    /\ redrain' = "done"
    /\ \/ Drain(InFlight) /\ UNCHANGED faults
       \/ DrainFails(InFlight) /\ faults' = faults + 1
    /\ UNCHANGED <<hook, srv, life, wal, submode, watcher>>

\* The idle drain, minutes after the last request: the backstop.
IdleDrain ==
    /\ daemon = "open"
    /\ spool # {}
    /\ Drain(InFlight)
    /\ UNCHANGED <<hook, srv, life, wal, submode, redrain, watcher, faults>>

Dies ==
    /\ daemon' = "down"
    /\ starter' = Nobody /\ behind' = FALSE
    /\ srv' = [h \in Hook |-> IF srv[h] = "none" THEN "none" ELSE "gone"]
    /\ flip' = "none"
    /\ start' = "none"
    /\ redrain' = "armed"
    /\ watch' = "wait"
    /\ kick' = FALSE
    /\ kicked' = FALSE
    /\ entry' = [h \in Hook |-> "unseen"]

\* A clean stop drains, for stopDrainBound, and removes state.bin.
Stop ==
    /\ daemon = "open"
    /\ \A h \in Hook : srv[h] # "read"
    /\ Dies
    /\ \/ Drain({}) /\ UNCHANGED faults
       \/ DrainFails({}) /\ faults' = faults + 1
    /\ record' = "absent"
    /\ UNCHANGED <<hook, claim, wal, hot, flips>>

\* A crash leaves state.bin as it was last written.
Crash ==
    /\ Up
    /\ faults < MaxFaults
    /\ Dies
    /\ faults' = faults + 1
    /\ UNCHANGED <<client, claim, wal, pub, unkept, hot, record, flips>>

-----------------------------------------------------------------------------
(* The submode: breach detector, registry and record. *)

\* applyHotPathTransition: persistHotMode puts the new submode on record ...
PersistHotMode(to) ==
    /\ daemon = "open"
    /\ flip = "none"
    /\ flips < MaxFlips
    /\ hot # to
    /\ flip' = to
    /\ record' = to
    /\ flips' = flips + 1
    /\ UNCHANGED <<client, srv, life, wal, pub, unkept, hot, start, redrain, watcher, faults>>

\* ... and only then the registry announces it.
SetHotMode ==
    /\ flip # "none"
    /\ hot' = flip
    /\ flip' = "none"
    /\ UNCHANGED <<client, srv, life, wal, pub, unkept, record, start, flips, redrain, watcher, faults>>

\* A brand-new session's start: registry.Ensure resets the submode to sync ...
EnsureNew ==
    /\ daemon = "open"
    /\ start = "none"
    /\ flips < MaxFlips
    /\ hot' = "sync"
    /\ start' = "ensured"
    /\ flips' = flips + 1
    /\ UNCHANGED <<client, srv, life, wal, pub, unkept, record, flip, redrain, watcher, faults>>

\* ... currentState reads the submode back after the contract run ...
ReadBack ==
    /\ start = "ensured"
    /\ start' = hot
    /\ UNCHANGED <<client, srv, life, wal, pub, unkept, hot, record, flip, flips, redrain, watcher, faults>>

\* ... and WriteState puts what was read on record.
WriteBack ==
    /\ start \in {"sync", "spool"}
    /\ record' = start
    /\ start' = "none"
    /\ UNCHANGED <<client, srv, life, wal, pub, unkept, hot, flip, flips, redrain, watcher, faults>>

-----------------------------------------------------------------------------
(* The client-spool watcher. *)

\* Run's idle tick kicks the watcher only in spool submode, when no hook's
\* request does.
IdleTick ==
    /\ daemon = "open"
    /\ hot = "spool"
    /\ ~kick
    /\ kick' = TRUE
    /\ UNCHANGED <<client, srv, life, wal, pub, unkept, submode, redrain, watch, kicked, entry, faults>>

WatchWakes ==
    /\ Up
    /\ watch = "wait"
    /\ kick
    /\ kick' = FALSE
    /\ kicked' = TRUE
    /\ watch' = "look"
    /\ UNCHANGED <<client, srv, life, wal, pub, unkept, submode, redrain, entry, faults>>

\* A file seen for the first time is only noted; one that stood unchanged since
\* the last look is settled, and due until the retry horizon.
Due == {h \in spool : entry[h] \in {"seen", "tried"}}
Unsettled == {h \in spool : entry[h] = "unseen"}

Passed == IF Due = {} THEN {} ELSE spool \ InFlight

EntryAfter(h) ==
    IF h \notin spool \ Passed THEN "unseen"
    ELSE CASE entry[h] = "unseen" -> "seen"
           [] entry[h] \in {"seen", "tried"} -> "tried"
           [] entry[h] = "given" -> "given"

(* Deviation: no second look follows a kick. *)
MoreLooksUnkicked ==
    \/ Unsettled # {}
    \/ \E h \in spool \ Passed : entry[h] \in {"seen", "tried"}

\* Another look is wanted after a kick (the trailing look: a late ACK spools
\* after its request was served), for a new file, and for one to retry.
MoreLooks ==
    \/ kicked
    \/ Unsettled # {}
    \/ \E h \in spool \ Passed : entry[h] \in {"seen", "tried"}

\* lookAtClientSpools, with the pass it runs when a file is due.
Look ==
    /\ watch = "look"
    /\ DrainOf(Passed)
    /\ entry' = [h \in Hook |-> EntryAfter(h)]
    /\ watch' = IF MoreLooks THEN "rest" ELSE "wait"
    /\ kicked' = FALSE
    /\ UNCHANGED <<hook, srv, life, wal, submode, redrain, kick, faults>>

\* The hook's ACK deadline is milliseconds and the rest is seconds: a copy whose
\* request was served lands before the rest is over.
Landing(h) == srv[h] \in {"ack", "nak"} /\ hook[h] \in {"connected", "append"}

RestOver ==
    /\ watch = "rest"
    /\ \A h \in Hook : ~Landing(h)
    /\ watch' = "look"
    /\ kicked' = kick
    /\ kick' = FALSE
    /\ UNCHANGED <<client, srv, life, wal, pub, unkept, submode, redrain, entry, faults>>

\* A file whose passes cannot consume it is left to the idle drain at the horizon.
HorizonReached(h) ==
    /\ watch = "rest"
    /\ entry[h] = "tried"
    /\ h \in InFlight
    /\ entry' = [entry EXCEPT ![h] = "given"]
    /\ UNCHANGED <<client, srv, life, wal, pub, unkept, submode, redrain, watch, kick, kicked, faults>>

-----------------------------------------------------------------------------
ClientStep(h) ==
    \/ ReadRecord(h)
    \/ Connect(h)
    \/ ConnectFails(h)
    \/ ReadAnswer(h)
    \/ AckDeadline(h)
    \/ Append(h)
    \/ AppendFails(h)
    \/ LazySpawn(h)

Next ==
    \/ \E h \in Hook : ClientStep(h) \/ Serve(h) \/ Publish(h) \/ HorizonReached(h)
    \/ Listen \/ StartupDrain \/ Open \/ Redrain \/ IdleDrain \/ Stop \/ Crash
    \/ \E to \in {"sync", "spool"} : PersistHotMode(to)
    \/ SetHotMode \/ EnsureNew \/ ReadBack \/ WriteBack
    \/ IdleTick \/ WatchWakes \/ Look \/ RestOver

Spec == Init /\ [][Next]_vars

\* A hook's process runs to its end, the daemon's goroutines are scheduled and
\* its idle ticker fires; nothing obliges the idle drain, which waits for
\* minutes of silence that may never come.
Fairness ==
    /\ \A h \in Hook : WF_vars(ReadAnswer(h)) /\ WF_vars(AckDeadline(h)) /\ WF_vars(Append(h))
    /\ \A h \in Hook : WF_vars(Serve(h)) /\ WF_vars(Publish(h))
    /\ WF_vars(IdleTick) /\ WF_vars(WatchWakes) /\ WF_vars(Look) /\ WF_vars(RestOver)
    /\ WF_vars(SetHotMode)

FairSpec == Spec /\ Fairness

-----------------------------------------------------------------------------
TypeOK ==
    /\ hook \in [Hook -> {"new", "dial", "connected", "append", "appendSpawn", "spawn",
                          "acked", "spooled", "dropped", "droppedSpawn"}]
    /\ srv \in [Hook -> {"none", "read", "ack", "nak", "gone"}]
    /\ daemon \in {"down", "starting", "replayed", "open"}
    /\ claim \in BOOLEAN
    /\ starter \in Hook \union {Nobody}
    /\ {wal, spool, pub, unkept} \subseteq SUBSET Hook /\ behind \in BOOLEAN
    /\ hot \in {"sync", "spool"}
    /\ record \in {"absent", "sync", "spool"}
    /\ flip \in {"none", "sync", "spool"}
    /\ start \in {"none", "ensured", "sync", "spool"}
    /\ redrain \in {"armed", "due", "done"}
    /\ watch \in {"wait", "look", "rest"}
    /\ kick \in BOOLEAN /\ kicked \in BOOLEAN
    /\ entry \in [Hook -> {"unseen", "seen", "tried", "given"}]

(***************************************************************************)
(* Whatever the daemon does with a hook's event - serves it, answers too   *)
(* late, fails to log it, dies under it - a hook that ended without a      *)
(* counted drop left it where a later drain finds it, or it is published,  *)
(* or the daemon decided not to keep it (admission denied or failed, or    *)
(* recording off): an acknowledged event is in the log or was so refused,  *)
(* and any other is in its spool file besides (Send's fallbacks,           *)
(* dispatchOp, acceptHotPathEvent).                                        *)
(***************************************************************************)
NeverLost ==
    \A h \in Hook :
        /\ hook[h] = "acked" => h \in wal \union unkept
        /\ hook[h] \in {"spawn", "spooled"} => h \in wal \union spool \union pub \union unkept

(***************************************************************************)
(* The event that causes a cold start is settled by the time the daemon it *)
(* started takes requests, or it is still in its spool file because the    *)
(* startup drain failed: the client spools before it spawns, and the       *)
(* startup drain comes before the gate opens (Send step 5, Run).           *)
(***************************************************************************)
ColdStartReplayed ==
    \A h \in Hook :
        daemon = "open" /\ starter = h =>
            \/ h \in pub \union unkept
            \/ behind /\ h \in spool
            \/ hook[h] \in {"dropped", "droppedSpawn"}

(***************************************************************************)
(* A hook's event is kept: somewhere a drain finds it unless the daemon    *)
(* refused it, and settled first when it started the daemon (Send, Run).   *)
(***************************************************************************)
EventKept == NeverLost /\ ColdStartReplayed

(***************************************************************************)
(* A spooled copy of a request this daemon served, or one spooled in spool *)
(* submode, is taken by the watcher without waiting for an idle project -  *)
(* unless its delivery stays in flight past the retry horizon (the kick of *)
(* every served request, the trailing look, the idle tick's kick).         *)
(***************************************************************************)
SpooledIsTaken ==
    \A h \in Hook :
        LET owed == srv[h] \in {"ack", "nak"} \/ hot = "spool"
        IN  (h \in spool /\ daemon = "open" /\ owed)
                ~> (h \notin spool \/ entry[h] = "given" \/ daemon # "open" \/ ~owed)
=============================================================================
