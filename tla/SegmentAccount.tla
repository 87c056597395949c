--------------------------- MODULE SegmentAccount ---------------------------
(* The scheduler's token account and the segments it closes                   *)
(* (internal/daemon/scheduler_runtime.go, scheduler_tap.go,                   *)
(* scheduler_state.go, scheduler_frontier.go), with what the observer does to *)
(* the segment log (internal/observer/session.go, internal/store/segments.go) *)
(* and the registry's part of a bind (internal/daemon/registry.go).           *)
(*                                                                            *)
(* A delivery's handler runs before its commit, so a delivery is applied at   *)
(* least once: by the worker, again when its commit fails, and again by the   *)
(* drain of a daemon started after a crash.  The account must count it once.  *)
(* Tokens are bags of deliveries, so that an account that counts one delivery *)
(* twice is told apart from one that counts two.  Anchors, the detector and   *)
(* the decisions are left out: the detector only says whether a delivery      *)
(* declares a changepoint.  A session has at most one open segment.           *)
EXTENDS Naturals, Sequences, FiniteSets, FiniteSetsExt

CONSTANTS
    Work,        \* the tool uses of each session, in arrival order
    Declares,    \* those at which the detector may declare a changepoint
    Boundary,    \* those whose signals name a task boundary
    Missed,      \* sessions whose start may find no daemon that answers
    MaxMishaps,  \* bound: failures, crashes and idle persists
    MaxStarts    \* bound: starts of sessions

VARIABLES
    open,      \* the start turn of each session's open segment, if it has one
    closed,    \* the segments closed by the scheduler, in the order of the log
    doc,       \* state/scheduler.json
    recorded,  \* tool uses whose record the store holds
    next,      \* the first delivery of each session that is not committed
    acct,      \* schedRuntime: session, openSegTokens, maxTurn, applied, unboundFolds
    reg,       \* the registry's view of each session
    holds,     \* sessions whose open segment the observer holds
    pc, owes,  \* the handler of each session's delivery, and the close it was handed
    ask,       \* the replayed start being bound: the session bound when it looked
    running,   \* sessions the host runs
    spooled,   \* the start of each session in a hook's spool: none, fresh, or old
    folded,    \* deliveries folded into an account, less those that were given up with one
    stale,     \* deliveries whose close the document does not tell of (NoneStale)
    mishaps, starts  \* what was spent of the bounds

vars == <<open, closed, doc, recorded, next, acct, reg, holds, pc, owes, ask, running, spooled,
          folded, stale, mishaps, starts>>

Working == DOMAIN Work
DeliveriesOf(s) == {Work[s][i] : i \in DOMAIN Work[s]}
Delivery == UNION {DeliveriesOf(s) : s \in Working}
First(s) == Work[s][next[s]]
\* A delivery's turn is its place in its session.
TurnOf(s, d) == CHOOSE i \in DOMAIN Work[s] : Work[s][i] = d
\* The observer's turn.
Reached(s) == Max({0} \cup {TurnOf(s, d) : d \in DeliveriesOf(s) \cap recorded})

Nowhere == "none"
Zero == [d \in Delivery |-> 0]
One(d) == [Zero EXCEPT ![d] = 1]
Plus(a, b) == [d \in Delivery |-> a[d] + b[d]]
Minus(a, b) == [d \in Delivery |-> IF a[d] > b[d] THEN a[d] - b[d] ELSE 0]
Meet(a, b) == [d \in Delivery |-> Min({a[d], b[d]})]
In(a) == {d \in Delivery : a[d] > 0}

NoClose == [at |-> 0, carry |-> Zero, for |-> 0]
NoEntry == [obs |-> 0, held |-> FALSE, owed |-> NoClose]
NoDoc == [sess |-> Nowhere, tokens |-> Zero, turn |-> 0, ids |-> [s \in Working |-> 0]]
Unbound == [sess |-> Nowhere, tokens |-> Zero, turn |-> 0,
            applied |-> [s \in Working |-> NoEntry], folds |-> [s \in Working |-> 0]]
NoAsk == [sess |-> Nowhere, saw |-> Nowhere]

\* unsaved: in a segment closed since the document was written.  again: those that a crash or a
\* bind left neither the account nor the document to recognize.
NoneStale == [unsaved |-> {}, again |-> {}]

Mishap == mishaps < MaxMishaps /\ mishaps' = mishaps + 1

Init ==
    /\ open = [s \in Working |-> {}] /\ closed = <<>> /\ doc = NoDoc
    /\ recorded = {} /\ next = [s \in Working |-> 1]
    /\ acct = Unbound /\ reg = [s \in Working |-> "unseen"] /\ holds = {}
    /\ pc = [s \in Working |-> "idle"] /\ owes = [s \in Working |-> NoClose]
    /\ ask = NoAsk /\ running = {} /\ spooled = [s \in Working |-> "none"] /\ folded = {}
    /\ stale = NoneStale /\ mishaps = 0 /\ starts = 0

-----------------------------------------------------------------------------
(* closeSessionSegmentLocked.                                                 *)

Closable(a, s, at) == s \in Working /\ \E start \in open[s] : start <= at

\* How it ends: the segment closed and its successor opened, closed with no successor, or not
\* closed.  With nothing to close it does nothing and reports no error.
Outcomes(a, s, at) == IF Closable(a, s, at) THEN {"made", "half", "failed"} ELSE {"made"}
SpendsOn(how) == IF how = "made" THEN UNCHANGED mishaps ELSE Mishap

\* The close of account a's segment of session s, for the changepoint that delivery d declared.
Closes(a, s, at, d, how) ==
    IF Closable(a, s, at) /\ how # "failed"
    THEN /\ closed' = Append(closed, [sess |-> s, tokens |-> a.tokens, for |-> d])
         /\ stale' = [stale EXCEPT !.unsaved = @ \cup In(a.tokens)]
         /\ open' = [open EXCEPT ![s] = IF how = "made" THEN {at + 1} ELSE {}]
         /\ holds' = IF how = "made" THEN holds ELSE holds \ {s}
    ELSE UNCHANGED <<closed, open, holds, stale>>

AfterClose(a, s, at, how) ==
    IF Closable(a, s, at) /\ how # "failed" THEN [a EXCEPT !.tokens = Zero] ELSE a

-----------------------------------------------------------------------------
(* Binding.                                                                   *)

Kept == UNION {In(closed[i].tokens) : i \in DOMAIN closed}

\* An account is given up, at a crash or by resetSessionLocked: what its document and the segments
\* do not hold is counted no more, and the document does not tell of the closes made since.
GivesUp ==
    LET saved == IF doc.sess = acct.sess THEN In(doc.tokens) ELSE {} IN
    /\ stale' = [stale EXCEPT !.again = @ \cup stale.unsaved]
    /\ folded' = folded \ (In(acct.tokens) \ (saved \cup Kept))

Restored(s) == IF doc.sess = s THEN doc ELSE NoDoc

\* bindSessionLocked of a session that is not the bound one: resetSessionLocked, with
\* releaseAccountLocked, then loadStateLocked, with restoreAppliedLocked.
Bound(s) ==
    LET r == Restored(s) IN
    [sess |-> s, tokens |-> r.tokens, turn |-> r.turn, folds |-> [q \in Working |-> 0],
     applied |-> [q \in Working |->
        [obs |-> IF acct.applied[q].obs = 0 THEN r.ids[q] ELSE acct.applied[q].obs,
         held |-> r.ids[q] # 0, owed |-> NoClose]]]

\* Deviation: the merge counts a delivery that both halves hold twice.
InBothNone(s) == {}

\* The deliveries applied unbound that the restored account names.
InBoth(s) == {acct.folds[q] : q \in {p \in Working : acct.folds[p] = Restored(s).ids[p]}} \ {0}

\* bindUnboundLocked: the restored account, and what was applied bound to no session.
Merged(s) ==
    LET b == Bound(s)
        twice == [d \in Delivery |-> IF d \in InBoth(s) THEN 1 ELSE 0]
    IN  [b EXCEPT !.tokens = Plus(@, Minus(acct.tokens, twice)),
                  !.turn = Max({@, acct.turn}),
                  !.applied = [q \in Working |->
                      [@[q] EXCEPT !.held = @ \/ acct.applied[q].held]]]

-----------------------------------------------------------------------------
(* A delivery of a session: the observer's half of its handler, then the tap. *)

Goto(s, to) == pc' = [pc EXCEPT ![s] = to]

\* The inner seam publishes the record, unless that fails; the tap then asks whether the runtime is
\* bound (bindOnFirstHook).
Observe(s, published) ==
    /\ pc[s] = "idle"
    /\ next[s] <= Len(Work[s])
    /\ IF published THEN UNCHANGED mishaps ELSE First(s) \notin recorded /\ Mishap
    /\ recorded' = IF published THEN recorded \cup {First(s)} ELSE recorded
    /\ Goto(s, IF acct.sess = Nowhere /\ reg[s] = "live" THEN "bind" ELSE "tap")
    /\ UNCHANGED <<open, closed, doc, next, acct, reg, holds, owes, ask, running, spooled, folded, stale,
                   starts>>

\* bindOnFirstHook, once the registry held the session live.
FirstHook(s) ==
    /\ pc[s] = "bind"
    /\ acct' = IF acct.sess = Nowhere THEN Merged(s) ELSE acct
    /\ Goto(s, "tap")
    /\ UNCHANGED <<open, closed, doc, recorded, next, reg, holds, owes, ask, running, spooled,
                   folded, stale, mishaps, starts>>

\* owedFor: the changepoint close that failed, else the boundary the signals name.
OwedFor(d, at, failed) ==
    CASE failed -> [at |-> at, carry |-> One(d), for |-> d]
      [] ~failed /\ d \in Boundary -> [at |-> at, carry |-> Zero, for |-> 0]
      [] OTHER -> NoClose

\* claimDeliveryLocked: the delivery is not the last one applied for its session.
Claimed(s, d) == acct.applied[s].obs # d

\* applyToolUse: the claim, the observation and its changepoint close, the fold, the close owed.
Apply(s, declared, how) ==
    LET d == First(s)
        at == TurnOf(s, d)
        a == IF declared THEN AfterClose(acct, acct.sess, at, how) ELSE acct
        owed == OwedFor(d, at, declared /\ how # "made")
    IN  /\ pc[s] = "tap"
        /\ d \in recorded
        /\ Claimed(s, d)
        /\ declared => d \in Declares
        /\ how \in IF declared THEN Outcomes(acct, acct.sess, at) ELSE {"made"}
        /\ SpendsOn(how)
        /\ IF declared THEN Closes(acct, acct.sess, at, d, how)
           ELSE UNCHANGED <<closed, open, holds, stale>>
        /\ acct' = [a EXCEPT
              !.tokens = Plus(@, One(d)), !.turn = Max({@, at}),
              !.folds[s] = IF acct.sess = Nowhere /\ @ = 0 THEN d ELSE @,
              !.applied[s] = [obs |-> d, held |-> TRUE, owed |-> owed]]
        /\ owes' = [owes EXCEPT ![s] = owed]
        /\ folded' = folded \cup {d}
        /\ Goto(s, "owe")
        /\ UNCHANGED <<doc, recorded, next, reg, ask, running, spooled, starts>>

\* A recognized replay, or a delivery whose record the store does not hold (anchorUnrecorded):
\* nothing is applied, and a replay of the applied delivery is handed the close it owes.
PassOver(s) ==
    LET d == First(s) IN
    /\ pc[s] = "tap"
    /\ ~Claimed(s, d) \/ d \notin recorded
    /\ owes' = [owes EXCEPT ![s] =
                   IF acct.applied[s].obs = d THEN acct.applied[s].owed ELSE NoClose]
    /\ Goto(s, "owe")
    /\ UNCHANGED <<open, closed, doc, recorded, next, acct, reg, holds, ask, running, spooled,
                   folded, stale, mishaps, starts>>

\* What the delivery folded after the close's point, which stays out of it.
Carried(c) == Meet(c.carry, acct.tokens)

\* closeOwed: nothing once the close is made or a later delivery of the session is applied.  Then
\* the delivery's acknowledgement is committed, or that fails and the delivery is replayed.
CloseOwed(s, how, replay) ==
    LET c == owes[s]
        e == acct.applied[s]
        due == c # NoClose /\ e.obs = First(s) /\ e.owed # NoClose
        less == [acct EXCEPT !.tokens = Minus(@, Carried(c))]
        a == AfterClose(less, acct.sess, c.at, how)
    IN  /\ pc[s] = "owe"
        /\ how \in IF due THEN Outcomes(less, acct.sess, c.at) ELSE {"made"}
        /\ IF replay THEN Mishap ELSE SpendsOn(how)
        /\ IF due
           THEN /\ Closes(less, acct.sess, c.at, c.for, how)
                /\ acct' = [a EXCEPT !.tokens = Plus(@, Carried(c)),
                                     !.applied[s].owed = IF how = "made" THEN NoClose ELSE @]
           ELSE UNCHANGED <<closed, open, holds, stale, acct>>
        /\ next' = IF replay THEN next ELSE [next EXCEPT ![s] = @ + 1]
        /\ owes' = [owes EXCEPT ![s] = NoClose]
        /\ Goto(s, "idle")
        /\ UNCHANGED <<doc, recorded, reg, ask, running, spooled, folded, starts>>

-----------------------------------------------------------------------------
(* Starts and ends of sessions, compactions, and the idle persist.            *)

\* onSessionStart: the open segment is adopted, or one is opened at the observer's turn.
Ensures(s) ==
    /\ open' = [open EXCEPT ![s] = IF @ = {} THEN {Reached(s)} ELSE @]
    /\ holds' = holds \cup {s}

Registers(s) == reg' = [reg EXCEPT ![s] = "live"]

\* A start left in the spool is overtaken by a later start or end of its session.
Overtakes(s) == spooled' = [spooled EXCEPT ![s] = IF @ = "fresh" THEN "old" ELSE @]

\* A live SessionStart: the registry, the observer, then the bind (BindSession).
SessionStart(s) ==
    /\ s \notin running
    /\ starts < MaxStarts /\ starts' = starts + 1
    /\ running' = running \cup {s}
    /\ Registers(s)
    /\ Ensures(s)
    /\ acct' = IF acct.sess = s THEN acct ELSE Bound(s)
    /\ IF acct.sess = s THEN UNCHANGED <<folded, stale>> ELSE GivesUp
    /\ Overtakes(s)
    /\ UNCHANGED <<closed, doc, recorded, next, pc, owes, ask, mishaps>>

\* The host starts a session, and no answer of the daemon reaches the hook.
SessionStartSpooled(s) ==
    /\ s \in Missed \ running
    /\ starts < MaxStarts /\ starts' = starts + 1
    /\ running' = running \cup {s}
    /\ spooled' = [spooled EXCEPT ![s] = "fresh"]
    /\ UNCHANGED <<open, closed, doc, recorded, next, acct, reg, holds, pc, owes, ask, folded, stale,
                   mishaps>>

\* A drain replays the start: the route notes whether it is current (CurrentAt) and registers the
\* session, the observer ensures its segment, and the tap looks at the binding
\* (bindOnReplayedStart) without keeping its lock.
ReplayStart(s) ==
    LET current == reg[s] # "unseen" /\ spooled[s] = "fresh"
        taken == acct.sess \notin {Nowhere, s} /\ reg[acct.sess] = "live"
    IN  /\ spooled[s] # "none" /\ ask = NoAsk
        /\ spooled' = [spooled EXCEPT ![s] = "none"]
        /\ Registers(s)
        /\ Ensures(s)
        /\ ask' = IF current /\ ~taken THEN [sess |-> s, saw |-> acct.sess] ELSE NoAsk
        /\ UNCHANGED <<closed, doc, recorded, next, acct, pc, owes, running, folded, stale, mishaps,
                       starts>>

\* bindOnReplayedStart under the lock, unless the binding has moved.
ReplayBinds ==
    LET s == ask.sess IN
    /\ ask # NoAsk
    /\ ask' = NoAsk
    /\ CASE acct.sess # ask.saw \/ acct.sess = s -> UNCHANGED <<acct, folded, stale>>
         [] acct.sess = ask.saw /\ ask.saw = Nowhere -> acct' = Merged(s) /\ UNCHANGED <<folded, stale>>
         [] OTHER -> acct' = Bound(s) /\ GivesUp
    /\ UNCHANGED <<open, closed, doc, recorded, next, reg, holds, pc, owes, running, spooled,
                   mishaps, starts>>

\* Any live hook of a running session registers it (Touch).
Touch(s) ==
    /\ s \in running /\ reg[s] = "unseen"
    /\ Registers(s)
    /\ UNCHANGED <<open, closed, doc, recorded, next, acct, holds, pc, owes, ask, running,
                   spooled, folded, stale, mishaps, starts>>

\* saveStateLocked: the account and the identities it holds.
Snapshot ==
    [sess |-> acct.sess, tokens |-> acct.tokens, turn |-> acct.turn,
     ids |-> [s \in Working |-> IF acct.applied[s].held THEN acct.applied[s].obs ELSE 0]]

\* The document is written; one of another session is replaced, with what only it held.
Saves ==
    LET known(x) == {x.ids[s] : s \in Working} \ {0} IN
    /\ doc' = Snapshot
    /\ IF doc.sess = acct.sess
       THEN stale' = [stale EXCEPT !.unsaved = {}] /\ UNCHANGED folded
       ELSE /\ stale' = [unsaved |-> {}, again |-> stale.again \cup (known(doc) \ known(Snapshot))]
            /\ folded' = folded \ (In(doc.tokens) \ (In(acct.tokens) \cup Kept))

\* Persist: a runtime bound to no session writes nothing.
Persists(fails) ==
    /\ IF fails THEN Mishap ELSE UNCHANGED mishaps
    /\ IF fails \/ acct.sess = Nowhere THEN UNCHANGED <<doc, folded, stale>> ELSE Saves

\* SessionEnd: the registry, the observer's close of the segment it holds, the persist of the tap.
SessionEnd(s, fails) ==
    /\ s \in running /\ pc[s] = "idle"
    /\ running' = running \ {s}
    /\ reg' = [reg EXCEPT ![s] = IF @ = "live" THEN "ended" ELSE @]
    /\ open' = IF s \in holds THEN [open EXCEPT ![s] = {}] ELSE open
    /\ holds' = holds \ {s}
    /\ Persists(fails)
    /\ Overtakes(s)
    /\ UNCHANGED <<closed, recorded, next, acct, pc, owes, ask, starts>>

\* PreCompact (CloseSegmentForCompaction): the bound session's segment is closed at the highest
\* turn observed, unless nothing is counted in it; a runtime bound to nothing is bound first.
PreCompact(s, how) ==
    LET a == IF acct.sess = Nowhere THEN Merged(s) ELSE acct IN
    /\ s \in running
    /\ acct.sess \in {s, Nowhere}
    /\ how \in IF a.tokens = Zero THEN {"made"} ELSE Outcomes(a, s, a.turn)
    /\ SpendsOn(how)
    /\ IF a.tokens = Zero THEN UNCHANGED <<closed, open, holds, stale>> ELSE Closes(a, s, a.turn, 0, how)
    /\ acct' = AfterClose(a, s, a.turn, how)
    /\ UNCHANGED <<doc, recorded, next, reg, pc, owes, ask, running, spooled, folded, starts>>

IdlePersist ==
    /\ acct.sess # Nowhere
    /\ Mishap
    /\ Saves
    /\ UNCHANGED <<open, closed, recorded, next, acct, reg, holds, pc, owes, ask, running,
                   spooled, starts>>

\* The daemon is killed, and another starts, bound to no session; the observer's state file may
\* have named the segments it held.
Crash(saved) ==
    /\ Mishap
    /\ acct' = Unbound
    /\ reg' = [s \in Working |-> "unseen"]
    /\ holds' = IF saved THEN holds ELSE {}
    /\ pc' = [s \in Working |-> "idle"] /\ owes' = [s \in Working |-> NoClose]
    /\ ask' = NoAsk /\ GivesUp
    /\ UNCHANGED <<open, closed, doc, recorded, next, running, spooled, starts>>

Next ==
    \/ \E s \in Working, b \in BOOLEAN : Observe(s, b) \/ SessionEnd(s, b)
    \/ \E s \in Working :
          \/ FirstHook(s) \/ PassOver(s) \/ Touch(s)
          \/ SessionStart(s) \/ SessionStartSpooled(s) \/ ReplayStart(s)
    \/ \E s \in Working, how \in {"made", "half", "failed"} :
          \/ PreCompact(s, how)
          \/ \E b \in BOOLEAN : Apply(s, b, how) \/ CloseOwed(s, how, b)
    \/ ReplayBinds \/ IdlePersist
    \/ \E saved \in BOOLEAN : Crash(saved)

Spec == Init /\ [][Next]_vars

-----------------------------------------------------------------------------
Bag == [Delivery -> Nat]

TypeOK ==
    /\ \A s \in Working : Cardinality(open[s]) <= 1
    /\ \A i \in DOMAIN closed : closed[i].tokens \in Bag
    /\ acct.tokens \in Bag /\ doc.tokens \in Bag
    /\ acct.sess \in Working \cup {Nowhere}
    /\ pc \in [Working -> {"idle", "bind", "tap", "owe"}]

\* The context's size is the bound session's closed segments and the open account
\* (recomputeContextTokensLocked).
Counted(d) ==
    acct.tokens[d] + MapThenSumSet(LAMBDA i : closed[i].tokens[d],
                                   {i \in DOMAIN closed : closed[i].sess = acct.sess})

(* However often a delivery is handled, the context's size counts its tokens  *)
(* once, in the open account or in one of the bound session's segments        *)
(* (applied, unboundFolds).  Excepted is what a crash or a bind left without  *)
(* its close's record: a delivery in a segment closed after the document was  *)
(* last written, which the document restores or its replay folds again, and   *)
(* one whose identity went with a document another session's replaced.        *)
FoldedOnce == \A d \in Delivery \ stale.again : Counted(d) <= 1

(* What was folded is in the open account, in the document or in a closed     *)
(* segment: no merge, late close or restore loses it.  Excepted is what only  *)
(* an account held that a crash or the bind of another session gave up, or    *)
(* only a document that another session's replaced, until a replay folds it   *)
(* again (resetSessionLocked, saveStateLocked).                               *)
NothingDropped == folded \subseteq In(acct.tokens) \cup In(doc.tokens) \cup Kept

(* A changepoint's segment ends before the delivery that declared it, also    *)
(* when a replay makes the close (owedClose.carry).                           *)
ChangepointBefore ==
    \A i \in DOMAIN closed : closed[i].for # 0 => closed[i].tokens[closed[i].for] = 0

(* The account is right for every delivery: the three above.                 *)
AccountSound == FoldedOnce /\ NothingDropped /\ ChangepointBefore
=============================================================================
