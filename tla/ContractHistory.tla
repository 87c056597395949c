-------------------------- MODULE ContractHistory --------------------------
(***************************************************************************)
(* The record that decides whether the host kept one promise: after a      *)
(* PreCompact, the session's next start carries source=compact             *)
(* (contract/history.go, contract/assertions.go, daemon/handlers.go).      *)
(*                                                                         *)
(* state/history.json holds one obligation at a time.  A PreCompact arms   *)
(* it, the next start resolves it, a prompt or an end lets it lapse.  The  *)
(* hooks that move it do not come in the order the host fired them: a hook *)
(* without an answer in time spools its request, the daemon may handle     *)
(* both the request and the copy, copies are replayed beside the live      *)
(* hooks, and a restart forgets what was only in memory.  A failure of     *)
(* this assertion degrades Qompack for the whole project, so it must not   *)
(* come from the order of the replay.                                      *)
(*                                                                         *)
(* The host is external and keeps its promise: see HostFires.  A hook's    *)
(* place in the sequence hooks is its timestamp.  Left out: a save of the  *)
(* history that fails (logged, and the handler goes on), the cap on        *)
(* WentOn's entries and the registry's eviction of idle sessions.          *)
(***************************************************************************)
EXTENDS Naturals, Sequences, FiniteSets

CONSTANTS
    Session,
    MaxHooks,      \* bound: the hooks the host fires
    MaxCopies,     \* bound: the hooks that spool their request
    MaxRestarts    \* bound: the daemon's restarts

NoSession == "none"

Starts == {"startup", "resume", "compact"}

VARIABLES
    hooks,       \* the hooks fired: session, kind, the live request and its spooled copy
    host,        \* a session at the host: off, ended, running, compacting
    history,     \* SessionHistory as saved in state/history.json
    lastStart,   \* SessionState.lastStart, the registry's, in memory
    regressed,   \* the obligation is a live PreCompact's older than one recorded before it
    blamed,      \* the failed readings, and what was out of order in each
    restarts

vars == <<hooks, host, history, lastStart, regressed, blamed, restarts>>

Hook == 1 .. Len(hooks)

Init ==
    /\ hooks = <<>>
    /\ host \in [Session -> {"off", "running"}]     \* Qompack may come to a running session
    /\ history = [awaiting |-> FALSE, lapsed |-> FALSE, at |-> 0, of |-> NoSession,
                  wentOn |-> [s \in Session |-> 0]]
    /\ lastStart = [s \in Session |-> 0]
    /\ regressed = FALSE
    /\ blamed = {}
    /\ restarts = 0

-----------------------------------------------------------------------------
(* SessionHistory's own operations. *)

NoteCompactLapse(h, s, at) ==
    IF at > 0 /\ h.awaiting /\ h.of = s /\ at > h.at
    THEN [h EXCEPT !.lapsed = TRUE]
    ELSE h

\* Deviation: a session that went on before the PreCompact is armed leaves no record.
NoteWentOnNothing(h, s, at) == h

NoteWentOn(h, s, at) ==
    IF at > h.at /\ at > h.wentOn[s] THEN [h EXCEPT !.wentOn[s] = at] ELSE h

\* Arms the obligation; what the host already sent later lapses it at once.
ArmCompactStart(h, s, at) ==
    LET armed == [h EXCEPT !.awaiting = TRUE, !.lapsed = FALSE, !.at = at, !.of = s]
        noted == NoteCompactLapse(armed, s, h.wentOn[s])
    IN [noted EXCEPT !.wentOn = [t \in Session |-> IF h.wentOn[t] <= at THEN 0 ELSE h.wentOn[t]]]

-----------------------------------------------------------------------------
(* The daemon's handlers; replayed says that the request came from a spool. *)

\* armPrecompact: a copy no later than the recorded PreCompact, or one a start has
\* followed, changes nothing.
armPrecompact(i, replayed) ==
    IF replayed /\ \/ history.at > 0 /\ i <= history.at
                   \/ lastStart[hooks[i].sess] >= i
    THEN history
    ELSE ArmCompactStart(history, hooks[i].sess, i)

handleCheckpoint(i, replayed) ==
    /\ history' = armPrecompact(i, replayed)
    /\ regressed' = IF history' = history THEN regressed ELSE i < history.at
    /\ UNCHANGED <<lastStart, blamed>>

heldBack(i, replayed) == replayed /\ history.awaiting /\ i < history.at

\* checkSessionStartSourceCompact's verdict on a start.
fails(i) ==
    /\ history.awaiting
    /\ history.of = hooks[i].sess
    /\ hooks[i].kind # "compact"
    /\ ~history.lapsed

Handled(i) == hooks[i].live = "done" \/ hooks[i].copy = "replayed"

\* A hook of the session the host fired between the PreCompact and this start is
\* one the daemon has yet to handle.
Overtakes(i) ==
    \E g \in Hook :
        /\ history.at < g /\ g < i
        /\ hooks[g].sess = hooks[i].sess
        /\ ~Handled(g)

\* handleSessionStart: the registry notes the start, RunAll resolves the obligation
\* unless it is held back, and the history keeps that the session went on.
handleSessionStart(i, replayed) ==
    LET s == hooks[i].sess
        held == heldBack(i, replayed)
        read == IF held THEN history ELSE [history EXCEPT !.awaiting = FALSE, !.lapsed = FALSE]
    IN
    /\ lastStart' = [lastStart EXCEPT ![s] = IF i > @ THEN i ELSE @]
    /\ history' = NoteWentOn(read, s, i)
    /\ blamed' = IF ~held /\ fails(i)
                 THEN blamed \cup {[start |-> i, overtakes |-> Overtakes(i), late |-> regressed \/ i < history.at]}
                 ELSE blamed
    /\ UNCHANGED regressed

\* scanSentinelForPrompt and noteCompactLapse: a prompt, or a session's end.
handleGoesOn(i) ==
    LET s == hooks[i].sess IN
    /\ history' = NoteCompactLapse(NoteWentOn(history, s, i), s, i)
    /\ UNCHANGED <<lastStart, regressed, blamed>>

Handle(i, replayed) ==
    \/ hooks[i].kind \in Starts /\ handleSessionStart(i, replayed)
    \/ hooks[i].kind = "precompact" /\ handleCheckpoint(i, replayed)
    \/ hooks[i].kind \in {"prompt", "end"} /\ handleGoesOn(i)

-----------------------------------------------------------------------------
(* The host and the way of its hooks. *)

Copies == Cardinality({i \in Hook : hooks[i].copy # "none"})

\* The host that keeps its promise: a compaction is followed by its compact start, or
\* it was cancelled, and then the session prompts, compacts again or ends before any
\* other start.
Legal(state, kind) ==
    CASE kind = "startup" -> state = "off"
      [] kind = "resume" -> state = "ended"
      [] kind = "compact" -> state = "compacting"
      [] OTHER -> state \in {"running", "compacting"}

After(kind) ==
    CASE kind = "precompact" -> "compacting"
      [] kind = "end" -> "ended"
      [] OTHER -> "running"

\* A hook finds the daemon, which serves the live requests beside each other, or
\* spools its request at once.
HostFires(s, kind) ==
    /\ Len(hooks) < MaxHooks
    /\ Legal(host[s], kind)
    /\ host' = [host EXCEPT ![s] = After(kind)]
    /\ \/ hooks' = Append(hooks, [sess |-> s, kind |-> kind, live |-> "sent", copy |-> "none"])
       \/ /\ Copies < MaxCopies
          /\ hooks' = Append(hooks, [sess |-> s, kind |-> kind, live |-> "no", copy |-> "spooled"])
    /\ UNCHANGED <<history, lastStart, regressed, blamed, restarts>>

\* No answer in time: the hook spools the request it sent, handled or not.
GivesUp(i) ==
    /\ hooks[i].live # "no" /\ hooks[i].copy = "none"
    /\ Copies < MaxCopies
    /\ hooks' = [hooks EXCEPT ![i].copy = "spooled"]
    /\ UNCHANGED <<host, history, lastStart, regressed, blamed, restarts>>

Serve(i) ==
    /\ hooks[i].live = "sent"
    /\ Handle(i, FALSE)
    /\ hooks' = [hooks EXCEPT ![i].live = "done"]
    /\ UNCHANGED <<host, restarts>>

\* The spools are files of their own, listed in host order by each pass; a copy
\* spooled after the listing comes after younger ones, so any order can happen.
Replay(i) ==
    /\ hooks[i].copy = "spooled"
    /\ Handle(i, TRUE)
    /\ hooks' = [hooks EXCEPT ![i].copy = "replayed"]
    /\ UNCHANGED <<host, restarts>>

\* The registry is gone, and with it the requests the daemon held: their hooks spool them.
Restart ==
    /\ restarts < MaxRestarts
    /\ restarts' = restarts + 1
    /\ lastStart' = [s \in Session |-> 0]
    /\ hooks' = [i \in Hook |->
                    IF hooks[i].live # "sent" THEN hooks[i]
                    ELSE [hooks[i] EXCEPT !.live = "no", !.copy = IF @ = "none" THEN "spooled" ELSE @]]
    /\ UNCHANGED <<host, history, regressed, blamed>>

Next ==
    \/ \E s \in Session, kind \in Starts \cup {"prompt", "precompact", "end"} : HostFires(s, kind)
    \/ \E i \in Hook : Serve(i) \/ GivesUp(i) \/ Replay(i)
    \/ Restart

Spec == Init /\ [][Next]_vars

-----------------------------------------------------------------------------
TypeOK ==
    /\ Len(hooks) <= MaxHooks
    /\ host \in [Session -> {"off", "ended", "running", "compacting"}]
    /\ history.awaiting \in BOOLEAN /\ history.lapsed \in BOOLEAN
    /\ history.at \in 0 .. MaxHooks /\ history.of \in Session \cup {NoSession}
    /\ lastStart \in [Session -> 0 .. MaxHooks]

(* A host that keeps its promise is blamed for a missing compact start only     *)
(* when the start that is judged overtook a hook of its session the daemon had  *)
(* not handled, or when the start or the PreCompact it is judged by is a live   *)
(* request served only after a younger PreCompact was recorded.  Lost answers,  *)
(* duplicate copies, replays in any order, live requests served beside each     *)
(* other and a restart never fail the assertion otherwise (armPrecompact,       *)
(* handleSessionStart's held-back start, NoteWentOn).                           *)
BlamedOnlyAhead == \A b \in blamed : b.overtakes \/ b.late
=============================================================================
