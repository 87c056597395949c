--------------------------- MODULE CompactAnswer ---------------------------
(***************************************************************************)
(* How the daemon answers the SessionStart that follows a compaction       *)
(* (daemon/session_start_compact.go, daemon/rehydrate_service.go).         *)
(*                                                                         *)
(* The route starts the rehydration and the session's bookkeeping beside   *)
(* each other and waits for the rehydration until the answer is due.  A    *)
(* ticket decides who was first: the rehydration that offers its text, or  *)
(* the route that gives up on it and sends a note in its place.  The       *)
(* rehydration writes the drop report after that decision and has to say   *)
(* what the model received.  A start whose hook gave up comes a second     *)
(* time, replayed from the spool.  Events of the session wait for the      *)
(* bookkeeping, and a stopping daemon refuses the work it has not started. *)
(*                                                                         *)
(* A start is a pair of a compaction of the one session (1 is the first)   *)
(* and the way its request came.                                           *)
(***************************************************************************)
EXTENDS Naturals

CONSTANTS
    MaxCompact,   \* how many compactions the session has
    Event         \* later events of the session

ASSUME CompactAnswerAssumption == MaxCompact \in Nat

Compaction == 1 .. MaxCompact
Start == Compaction \X {"live", "replay"}
Nothing == [of |-> <<0, "live">>, says |-> "nothing"]

VARIABLES
    route,      \* the route: idle, starting, waiting, and then what it answered
    ticket,     \* compactTicket.state with failed and undelivered
    work,       \* the rehydration: none, refused, building, what it records, done
    books,      \* the bookkeeping goroutine of the start
    holders,    \* compactGate.holders of the session's gate (0: no gate)
    hook,       \* what the hook of a compaction has: none, waiting, answered, gaveUp
    report,     \* the drop report most recently recorded
    event,      \* an event: idle, waits at the gate, runs, ran; with the books it owes
    closed      \* promptClosed: Stop refuses new work and cancels promptCtx

answerVars == <<route, ticket, work, books, holders, hook, report, event, closed>>

Quiet == [state |-> "idle", after |-> {}, cut |-> FALSE]

Answers == {"rehydration", "note", "empty"}

AnswerInit ==
    /\ route = [s \in Start |-> "idle"]
    /\ ticket = [s \in Start |-> [state |-> "pending", carries |-> "nothing"]]
    /\ work = [s \in Start |-> "none"]
    /\ books = [s \in Start |-> "none"]
    /\ holders = 0
    /\ hook = [c \in Compaction |-> "none"]
    /\ report = Nothing
    /\ event = [e \in Event |-> Quiet]
    /\ closed = FALSE

-----------------------------------------------------------------------------
(* The ticket: the first of settle and abandon decides. *)

\* Deviation: a rehydration that comes too late settles the ticket all the same.
SettledLate(t, carries) ==
    IF t.state = "delivered" THEN t ELSE [state |-> "delivered", carries |-> carries]

settle(t, carries) ==
    IF t.state = "pending" THEN [state |-> "delivered", carries |-> carries] ELSE t

abandon(t, why) ==
    IF t.state = "pending" THEN [state |-> "abandoned", carries |-> why] ELSE t

-----------------------------------------------------------------------------
(* The host and its hook. *)

\* The host compacts again only once it is done with the start before.
HookAsks(c) ==
    /\ hook[c] = "none"
    /\ \A b \in 1 .. c - 1 : hook[b] \in {"answered", "gaveUp"}
    /\ hook' = [hook EXCEPT ![c] = "waiting"]
    /\ UNCHANGED <<route, ticket, work, books, holders, report, event, closed>>

\* No answer in time: the hook answers by itself and spools the request.
HookGivesUp(c) ==
    /\ hook[c] = "waiting"
    /\ hook' = [hook EXCEPT ![c] = "gaveUp"]
    /\ UNCHANGED <<route, ticket, work, books, holders, report, event, closed>>

-----------------------------------------------------------------------------
(* handleSessionStart: starting the work. *)

Asked(s) == hook[s[1]] = IF s[2] = "live" THEN "waiting" ELSE "gaveUp"

\* startCompactAnswer: the ticket, which a replay abandons before any work, and
\* the rehydration, which a stopping daemon refuses.
startCompactAnswer(s) ==
    /\ route[s] = "idle"
    /\ Asked(s)
    /\ route' = [route EXCEPT ![s] = "starting"]
    /\ ticket' = IF s[2] = "replay"
                 THEN [ticket EXCEPT ![s] = abandon(@, "replayed")]
                 ELSE ticket
    /\ work' = [work EXCEPT ![s] = IF closed THEN "refused" ELSE "building"]
    /\ UNCHANGED <<books, holders, hook, report, event, closed>>

\* compactGates.begin and the bookkeeping; one that is refused opens the gate again.
begin(s) ==
    /\ route[s] = "starting"
    /\ route' = [route EXCEPT ![s] = "waiting"]
    /\ books' = [books EXCEPT ![s] = IF closed THEN "refused" ELSE "running"]
    /\ holders' = IF closed THEN holders ELSE holders + 1
    /\ UNCHANGED <<ticket, work, hook, report, event, closed>>

\* The bookkeeping returns; the last holder opens the gate for everyone at it.
BooksDone(s) ==
    /\ books[s] = "running"
    /\ books' = [books EXCEPT ![s] = "done"]
    /\ holders' = IF holders > 0 THEN holders - 1 ELSE 0
    /\ event' = IF holders' = 0
                THEN [e \in Event |-> IF event[e].state = "waits"
                                      THEN [event[e] EXCEPT !.state = "free"]
                                      ELSE event[e]]
                ELSE event
    /\ UNCHANGED <<route, ticket, work, hook, report, closed>>

-----------------------------------------------------------------------------
(* OnCompact, on its own goroutine. *)

\* A text: offered before the report is written, which then says what became of it.
OnCompactBuilds(s) ==
    LET t == settle(ticket[s], "rehydration") IN
    /\ work[s] = "building"
    /\ ticket' = [ticket EXCEPT ![s] = t]
    /\ work' = [work EXCEPT ![s] = IF t.state = "delivered" THEN "delivered" ELSE t.carries]
    /\ UNCHANGED <<route, books, holders, hook, report, event, closed>>

\* Not acting, switched off, or no text to send: an empty output; only an empty
\* text is recorded.
OnCompactEmpty(s) ==
    /\ work[s] = "building"
    /\ ticket' = [ticket EXCEPT ![s] = settle(@, "empty")]
    /\ \E next \in {"done", "blank"} : work' = [work EXCEPT ![s] = next]
    /\ UNCHANGED <<route, books, holders, hook, report, event, closed>>

\* notBuilt: an unreadable checkpoint, a failed build, a panic, or a stopping daemon.
\* The panic may also come while a report is being written.
notBuilt(s) ==
    /\ work[s] \in {"building", "delivered", "late", "replayed", "blank"}
    /\ ticket' = [ticket EXCEPT ![s] = settle(@, "failed")]
    /\ work' = [work EXCEPT ![s] = "notBuilt"]
    /\ UNCHANGED <<route, books, holders, hook, report, event, closed>>

\* record, recordUndelivered, recordNotBuilt; the write may fail.
Record(s) ==
    /\ work[s] \in {"delivered", "late", "replayed", "blank", "notBuilt"}
    /\ \/ report' = [of |-> s, says |-> work[s]]
       \/ report' = report
    /\ work' = [work EXCEPT ![s] = "done"]
    /\ UNCHANGED <<route, ticket, books, holders, hook, event, closed>>

-----------------------------------------------------------------------------
(* awaitCompactAnswer and the route's answer. *)

\* The route returns; a hook still there takes the answer.
AnswerWith(s, out) ==
    /\ route' = [route EXCEPT ![s] = out]
    /\ hook' = IF s[2] = "live" /\ hook[s[1]] = "waiting"
               THEN [hook EXCEPT ![s[1]] = "answered"]
               ELSE hook

\* result: a failed rehydration is answered with the note that names the reason.
result(t) == IF t.carries = "failed" THEN "note" ELSE t.carries

\* A replay is answered with nothing, and work that was refused with the note.
AnswerAtOnce(s) ==
    /\ route[s] = "waiting"
    /\ s[2] = "replay" \/ work[s] = "refused"
    /\ AnswerWith(s, IF s[2] = "replay" THEN "empty" ELSE "note")
    /\ UNCHANGED <<ticket, work, books, holders, report, event, closed>>

AnswerReady(s) ==
    /\ route[s] = "waiting"
    /\ s[2] = "live"
    /\ ticket[s].state = "delivered"
    /\ AnswerWith(s, result(ticket[s]))
    /\ UNCHANGED <<ticket, work, books, holders, report, event, closed>>

\* The timer, or the request's context: what was offered meanwhile still counts.
AnswerDue(s) ==
    LET t == abandon(ticket[s], "late") IN
    /\ route[s] = "waiting"
    /\ s[2] = "live" /\ work[s] # "refused"
    /\ ticket' = [ticket EXCEPT ![s] = t]
    /\ AnswerWith(s, IF t.state = "abandoned" THEN "note" ELSE result(t))
    /\ UNCHANGED <<work, books, holders, report, event, closed>>

-----------------------------------------------------------------------------
(* orderAfterCompactBookkeeping: the session's events, and Stop. *)

\* The host sends the session's next events after the hook of the start returned.
EventComes(e) ==
    /\ event[e].state = "idle"
    /\ \A c \in Compaction : hook[c] # "waiting"
    /\ event' = [event EXCEPT ![e] =
                    [state |-> IF holders = 0 THEN "free" ELSE "waits",
                     after |-> {s \in Start : route[s] \in Answers /\ books[s] = "running"},
                     cut |-> FALSE]]
    /\ UNCHANGED <<route, ticket, work, books, holders, hook, report, closed>>

\* compactGates.wait returns because the event's own context ended.
EventCut(e) ==
    /\ event[e].state = "waits"
    /\ event' = [event EXCEPT ![e] = [@ EXCEPT !.state = "free", !.cut = TRUE]]
    /\ UNCHANGED <<route, ticket, work, books, holders, hook, report, closed>>

EventRuns(e) ==
    /\ event[e].state = "free"
    /\ event' = [event EXCEPT ![e].state = "ran"]
    /\ UNCHANGED <<route, ticket, work, books, holders, hook, report, closed>>

StopWork ==
    /\ ~closed
    /\ closed' = TRUE
    /\ UNCHANGED <<route, ticket, work, books, holders, hook, report, event>>

AnswerNext ==
    \/ \E c \in Compaction : HookAsks(c) \/ HookGivesUp(c)
    \/ \E s \in Start :
        \/ startCompactAnswer(s) \/ begin(s) \/ BooksDone(s)
        \/ OnCompactBuilds(s) \/ OnCompactEmpty(s) \/ notBuilt(s) \/ Record(s)
        \/ AnswerAtOnce(s) \/ AnswerReady(s) \/ AnswerDue(s)
    \/ \E e \in Event : EventComes(e) \/ EventCut(e) \/ EventRuns(e)
    \/ StopWork

AnswerSpec == AnswerInit /\ [][AnswerNext]_answerVars

-----------------------------------------------------------------------------
AnswerTypeOK ==
    /\ route \in [Start -> {"idle", "starting", "waiting"} \cup Answers]
    /\ ticket \in [Start -> [state : {"pending", "delivered", "abandoned"},
                             carries : {"nothing", "late", "replayed", "failed", "empty", "rehydration"}]]
    /\ work \in [Start -> {"none", "refused", "building", "delivered", "late", "replayed",
                           "blank", "notBuilt", "done"}]
    /\ books \in [Start -> {"none", "refused", "running", "done"}]
    /\ holders \in Nat
    /\ hook \in [Compaction -> {"none", "waiting", "answered", "gaveUp"}]
    /\ closed \in BOOLEAN

(* What the drop report says of a compaction is what the route did: a report    *)
(* of a delivered rehydration belongs to a route that answers with it, a report *)
(* of a late one to a route that sent the note, whichever way the timer, the    *)
(* rehydration and its record interleave (compactTicket's arbitration).         *)
ReportIsTrue ==
    LET r == route[report.of] IN
    /\ report.says = "delivered" =>
        \/ r = "rehydration"
        \/ r \notin Answers /\ ticket[report.of].carries = "rehydration"
    /\ report.says = "late" => r = "note"
    /\ report.says = "replayed" => report.of[2] = "replay"

(* A live start is never answered with silence because its rehydration was      *)
(* late, failed, refused or panicked: nothing is sent only when OnCompact       *)
(* itself had nothing to send (awaitCompactAnswer).                             *)
NeverSilent ==
    \A s \in Start :
        s[2] = "live" /\ route[s] = "empty" =>
            ticket[s] = [state |-> "delivered", carries |-> "empty"]

(* An event the host sent after a compact start was answered does not run while *)
(* that start's bookkeeping does, unless its own context ended at the gate;     *)
(* a gate shared by two starts opens only with the last (compactGates).         *)
EventsAfterBooks ==
    \A e \in Event :
        event[e].state = "ran" /\ ~event[e].cut =>
            \A s \in event[e].after : books[s] = "done"

(* What a compaction reports, answers and shows to the events after it is what  *)
(* happened (compactTicket, awaitCompactAnswer, compactGates).                  *)
CompactionHonest == ReportIsTrue /\ NeverSilent /\ EventsAfterBooks
=============================================================================
