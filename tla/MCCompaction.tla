---------------------------- MODULE MCCompaction ----------------------------
(* What a compaction goes through, for TLC: the checkpoint seal, the settling  *)
(* of the captures a PreCompact seal must cover, the answer of the compacted   *)
(* SessionStart, and the hook history its contract assertion reads.  The four  *)
(* share no variable, so one behaviour takes the steps of one of them (part)   *)
(* and leaves the others in their initial state.                               *)
EXTENDS CheckpointSeal, CompactAnswer, TLC

CONSTANTS Capture, MaxGiveUps, MaxHooks, MaxCopies, MaxRestarts

VARIABLES part,
          line, lease, job, acked, readable, archived, giveUps, settling,
          hooks, host, arms, lastStart, regressed, blamed, restarts

Settle == INSTANCE PreCompactSettle
History == INSTANCE ContractHistory WITH history <- arms

settleVars == <<line, lease, job, acked, readable, archived, giveUps, settling>>
historyVars == <<hooks, host, arms, lastStart, regressed, blamed, restarts>>
parts == <<vars, settleVars, answerVars, historyVars, part>>

Names == Permutations(Session) \cup Permutations(Capture)

\* What the lanes do after the seal is not followed.
BeforeSeal == settling.at # "sealed"

\* Bound: copies, restarts and live requests waiting beside each other, two in all.
Disorder ==
    History!Copies + restarts + Cardinality({i \in History!Hook : hooks[i].live = "sent"}) <= 2

PartInit ==
    /\ part \in {"seal", "settle", "answer", "history"}
    /\ Init
    /\ Settle!Init
    /\ AnswerInit
    /\ History!Init
    /\ part # "settle" => \A c \in Capture : line[c] = "none" /\ lease[c] = 0 /\ c \notin archived
    /\ part # "history" => \A s \in Session : host[s] = "off"

PartNext ==
    \/ /\ part = "seal"
       /\ Next
       /\ UNCHANGED <<settleVars, answerVars, historyVars, part>>
    \/ /\ part = "settle"
       /\ Settle!Next
       /\ UNCHANGED <<vars, answerVars, historyVars, part>>
    \/ /\ part = "answer"
       /\ AnswerNext
       /\ UNCHANGED <<vars, settleVars, historyVars, part>>
    \/ /\ part = "history"
       /\ History!Next
       /\ UNCHANGED <<vars, settleVars, answerVars, part>>

PartSpec == PartInit /\ [][PartNext]_parts

(* A capture spooled or leased when the PreCompact came is in the store when  *)
(* the checkpoint is sealed or counted in its drop report, except a lease the *)
(* journal could not name and one archived unsettled that nothing in this     *)
(* daemon's memory names (settleBeforeSeal, unsettledLeases).                 *)
NeverSilentlyMissing == Settle!NeverSilentlyMissing

(* A host that keeps its promise is blamed for a missing compact start only   *)
(* when the judged start overtook an unhandled hook of its session, or when   *)
(* it or its PreCompact was served live after a younger PreCompact.           *)
BlamedOnlyAhead == History!BlamedOnlyAhead
=============================================================================
