----------------------------- MODULE PromptReply -----------------------------
(***************************************************************************)
(* The thrash warning a prompt's reply carries: the observer queues a      *)
(* warning when a loop is seen, the daemon's reply to the next prompt      *)
(* drains it under a deadline, and a warning no hook received is re-armed  *)
(* (internal/observer/prompt.go and prompt_delivery.go, internal/daemon/   *)
(* handlers.go callObservePromptWithDeadline, promptReplyHandoff and       *)
(* settleSpooledPrompt).                                                   *)
(*                                                                         *)
(* One session.  A grammar rule is named by its identity, a warning by its *)
(* rule, and a prompt by its nonce.  The observer's session lock makes     *)
(* every observer call one step.                                           *)
(***************************************************************************)
EXTENDS Naturals

CONSTANTS Prompt,    \* the prompts of the session
          Rule,      \* the grammar's rules
          MaxUses    \* bound on a rule's reference count

ASSUME PromptReplyAssumption == "none" \notin Prompt /\ MaxUses \in Nat

VARIABLES uses,       \* the grammar's reference count per rule
          warned,     \* WarnedRules
          floor,      \* ThrashFloor; 0 holds nothing
          queue,      \* PendingThrash
          memory,     \* ReplyWarning: the prompt and the rules its reply carried
          mode,       \* the contract mode
          closed,     \* Stop has closed the recordings' gate
          call,       \* the reply call of each prompt
          handoff,    \* promptReplyHandoff of each prompt
          late,       \* prompts whose reply deadline has passed
          out,        \* what the observer's call handed back
          reply,      \* the reply as sent
          hook,       \* the hook's side
          shown,      \* rules whose warning reached the host since they were queued
          replaced,   \* rules whose memory a later reply took while its own was unsettled
          missed      \* rules a reply claimed when its prompt's spooled copy was already settled

thrash == <<uses, warned, floor, queue, memory>>
promptVars == <<uses, warned, floor, queue, memory, mode, closed, call, handoff, late, out,
          reply, hook, shown, replaced, missed>>

Nobody == [nonce |-> "none", rules |-> {}]

PromptInit ==
    /\ uses = [r \in Rule |-> 0]
    /\ warned = {}
    /\ floor = [r \in Rule |-> 0]
    /\ queue = {}
    /\ memory = Nobody
    /\ mode = "full"
    /\ closed = FALSE
    /\ call = [p \in Prompt |-> "none"]
    /\ handoff = [p \in Prompt |-> "open"]
    /\ late = {}
    /\ out = [p \in Prompt |-> {}]
    /\ reply = [p \in Prompt |-> "none"]
    /\ hook = [p \in Prompt |-> "unsent"]
    /\ shown = {}
    /\ replaced = {}
    /\ missed = {}

-----------------------------------------------------------------------------
\* The rules the grammar reports: uses counts the references from the last one
\* below thrashMinUses on.
Thrashing(u) == {r \in Rule : u[r] >= 1}

\* collectThrash queues every thrashing rule not warned of, unless it is held at
\* its floor.
Queued(u) == {r \in Thrashing(u) \ warned : floor[r] = 0 \/ u[r] > floor[r]}

\* A tool use repeats a loop, and OnToolUse collects.
Repeat(r) ==
    /\ uses[r] < MaxUses
    /\ LET u == [uses EXCEPT ![r] = @ + 1] IN
        /\ uses' = u
        /\ warned' = warned \union Queued(u)
        /\ queue' = queue \union Queued(u)
        /\ floor' = [q \in Rule |-> IF q \in Queued(u) THEN 0 ELSE floor[q]]
        /\ shown' = shown \ Queued(u)
        /\ replaced' = replaced \ Queued(u)
        /\ missed' = missed \ Queued(u)
    /\ UNCHANGED <<memory, mode, closed, call, handoff, late, out, reply, hook>>

\* rearmRules: out of WarnedRules, held at the count the grammar reports now.
Rearm(rules) ==
    /\ warned' = warned \ rules
    /\ floor' = [r \in Rule |-> IF r \in rules THEN uses[r] ELSE floor[r]]

-----------------------------------------------------------------------------
(* The daemon's reply. *)

\* handleObservePrompt has made the prompt durable and starts the reply call.  A
\* reply whose budget is spent, or that may not act, can carry nothing; none is
\* started once Stop has closed the gate.
Ask(p) ==
    /\ hook[p] = "unsent"
    /\ \E spent \in BOOLEAN :
        /\ hook' = [hook EXCEPT ![p] = "waiting"]
        /\ late' = IF spent THEN late \union {p} ELSE late
        /\ handoff' = [handoff EXCEPT ![p] = IF spent \/ mode # "full" THEN "abandoned" ELSE "open"]
        /\ call' = [call EXCEPT ![p] = IF closed THEN "none" ELSE "running"]
        /\ reply' = [reply EXCEPT ![p] = IF closed \/ spent THEN "empty" ELSE "none"]
    /\ UNCHANGED <<thrash, mode, closed, out, shown, replaced, missed>>

\* The hook still has to learn what a reply carried, or a drain to settle it.
Unsettled(p) == hook[p] \in {"waiting", "spooled"}

\* promptReplyOutput: nothing to say outside full mode or with an empty queue; a
\* refused claim re-arms the queue; a granted one drains it into the reply and
\* remembers under which nonce.
Observe(p) ==
    /\ call[p] = "running"
    /\ call' = [call EXCEPT ![p] = "done"]
    /\ IF mode # "full" \/ queue = {}
         THEN UNCHANGED <<warned, floor, queue, memory, handoff, out, replaced, missed>>
         ELSE IF handoff[p] = "abandoned"
         THEN /\ Rearm(queue)
              /\ queue' = {}
              /\ UNCHANGED <<memory, handoff, out, replaced, missed>>
         ELSE /\ handoff' = [handoff EXCEPT ![p] = "claimed"]
              /\ out' = [out EXCEPT ![p] = queue]
              /\ memory' = [nonce |-> p, rules |-> queue]
              /\ replaced' = IF memory # Nobody /\ Unsettled(memory.nonce)
                               THEN replaced \union memory.rules ELSE replaced
              /\ missed' = IF hook[p] = "settled" THEN missed \union queue ELSE missed
              /\ queue' = {}
              /\ UNCHANGED <<warned, floor>>
    /\ UNCHANGED <<uses, mode, closed, late, reply, hook, shown>>

Carries(p) == IF out[p] = {} THEN "empty" ELSE "warning"

\* The call's result arrives before the deadline.
Answer(p) ==
    /\ reply[p] = "none"
    /\ call[p] = "done"
    /\ reply' = [reply EXCEPT ![p] = Carries(p)]
    /\ UNCHANGED <<thrash, mode, closed, call, handoff, late, out, hook, shown, replaced, missed>>

Deadline(p) ==
    /\ hook[p] # "unsent"
    /\ late' = late \union {p}
    /\ UNCHANGED <<thrash, mode, closed, call, handoff, out, reply, hook, shown, replaced, missed>>

(* Deviation: the wait ends without settling the race with the claim. *)
WaitEndsAlone(p) ==
    /\ hook[p] # "unsent"
    /\ reply[p] = "none"
    /\ p \in late
    /\ reply' = [reply EXCEPT ![p] = "empty"]
    /\ UNCHANGED <<thrash, mode, closed, call, late, out, hook, shown, replaced, missed, handoff>>

\* The wait's deadline: abandoned unless the observer has claimed the reply, which
\* is then waited for and carries what it handed over.
WaitEnds(p) ==
    /\ hook[p] # "unsent"
    /\ reply[p] = "none"
    /\ p \in late
    /\ IF handoff[p] = "claimed"
         THEN /\ call[p] = "done"
              /\ reply' = [reply EXCEPT ![p] = Carries(p)]
              /\ UNCHANGED handoff
         ELSE /\ reply' = [reply EXCEPT ![p] = "empty"]
              /\ handoff' = [handoff EXCEPT ![p] = "abandoned"]
    /\ UNCHANGED <<thrash, mode, closed, call, late, out, hook, shown, replaced, missed>>

-----------------------------------------------------------------------------
(* The hook and the drain. *)

HookReads(p) ==
    /\ hook[p] = "waiting"
    /\ reply[p] # "none"
    /\ hook' = [hook EXCEPT ![p] = "answered"]
    /\ shown' = IF reply[p] = "warning" THEN shown \union out[p] ELSE shown
    /\ UNCHANGED <<thrash, mode, closed, call, handoff, late, out, reply, replaced, missed>>

\* The hook's own wait ends, as a rule after the daemon's deadline, which runs from the stamp of the
\* hook's first statement; but from the request's arrival when the daemon cannot trust the stamp.
HookGivesUp(p) ==
    /\ hook[p] = "waiting"
    /\ hook' = [hook EXCEPT ![p] = "spooled"]
    /\ UNCHANGED <<thrash, mode, closed, call, handoff, late, out, reply, shown, replaced, missed>>

\* settleSpooledPrompt: a drain settles the spooled copy of the prompt, and
\* PromptReplySpooled re-arms what the live reply carried.
Settle(p) ==
    /\ hook[p] = "spooled"
    /\ hook' = [hook EXCEPT ![p] = "settled"]
    /\ IF memory.nonce = p
         THEN Rearm(memory.rules) /\ memory' = Nobody /\ queue' = queue \ memory.rules
         ELSE UNCHANGED <<warned, floor, queue, memory>>
    /\ UNCHANGED <<uses, mode, closed, call, handoff, late, out, reply, shown, replaced, missed>>

\* The contract degrades and recovers; Stop closes the recordings' gate.
SetMode ==
    /\ mode' \in {"full", "passive"} \ {mode}
    /\ UNCHANGED <<thrash, closed, call, handoff, late, out, reply, hook, shown, replaced, missed>>

CloseGate ==
    /\ ~closed
    /\ closed' = TRUE
    /\ UNCHANGED <<thrash, mode, call, handoff, late, out, reply, hook, shown, replaced, missed>>

PromptNext ==
    \/ \E r \in Rule : Repeat(r)
    \/ \E p \in Prompt :
        \/ Ask(p) \/ Observe(p) \/ Answer(p) \/ Deadline(p) \/ WaitEnds(p)
        \/ HookReads(p) \/ HookGivesUp(p) \/ Settle(p)
    \/ SetMode
    \/ CloseGate

PromptSpec == PromptInit /\ [][PromptNext]_promptVars

-----------------------------------------------------------------------------
PromptTypeOK ==
    /\ uses \in [Rule -> 0..MaxUses]
    /\ floor \in [Rule -> 0..MaxUses]
    /\ warned \subseteq Rule /\ queue \subseteq Rule
    /\ memory.rules \subseteq Rule
    /\ call \in [Prompt -> {"none", "running", "done"}]
    /\ handoff \in [Prompt -> {"open", "claimed", "abandoned"}]
    /\ reply \in [Prompt -> {"none", "empty", "warning"}]
    /\ hook \in [Prompt -> {"unsent", "waiting", "answered", "spooled", "settled"}]

(***************************************************************************)
(* A loop is never silenced by a reply nobody received: a rule marked as   *)
(* warned of is still queued, or its warning was shown, or the reply that  *)
(* carries it is with a hook or awaits the settling of that hook's spooled *)
(* copy.  Only two replies may lose it: one whose memory a later reply of  *)
(* the session took, and one claimed after its hook had given up and a     *)
(* drain had settled the copy (promptReplyHandoff's race,                  *)
(* rearmUndelivered, PromptReplySpooled).                                  *)
(***************************************************************************)
NotSilenced ==
    \A r \in warned :
        \/ r \in queue \union shown \union replaced \union missed
        \/ \E p \in Prompt : r \in out[p] /\ Unsettled(p) /\ memory.nonce = p
=============================================================================
