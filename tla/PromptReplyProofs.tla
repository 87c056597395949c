------------------------- MODULE PromptReplyProofs -------------------------
(***************************************************************************)
(* A loop is never silenced by a reply nobody received, for any prompts    *)
(* and rules.                                                              *)
(***************************************************************************)
EXTENDS PromptReply, TLAPS

\* The shape of the calls' variables.
CallTypes ==
    /\ call \in [Prompt -> {"none", "running", "done"}]
    /\ handoff \in [Prompt -> {"open", "claimed", "abandoned"}]
    /\ reply \in [Prompt -> {"none", "empty", "warning"}]
    /\ hook \in [Prompt -> {"unsent", "waiting", "answered", "spooled", "settled"}]
    /\ out \in [Prompt -> SUBSET Rule]
    /\ queue \subseteq Rule

\* A call that may still claim its reply has sent none; one that has handed rules
\* over has claimed it, and its reply carries them.
HandoffShape(p) ==
    /\ hook[p] = "unsent" => call[p] = "none"
    /\ call[p] # "done" => out[p] = {}
    /\ call[p] = "running" /\ handoff[p] # "abandoned"
         => hook[p] \in {"waiting", "spooled", "settled"} /\ reply[p] = "none"
    /\ out[p] # {} => handoff[p] = "claimed" /\ reply[p] # "empty" /\ hook[p] # "unsent"

\* The observer remembers what the last claimed reply was handed.
MemoryShape == memory = Nobody \/ (memory.nonce \in Prompt /\ memory.rules = out[memory.nonce])

ReplyInv ==
    /\ CallTypes
    /\ \A p \in Prompt : HandoffShape(p)
    /\ MemoryShape
    /\ NotSilenced

LEMMA ReplyInvInit == PromptInit => ReplyInv
BY DEF PromptInit, ReplyInv, CallTypes, HandoffShape, MemoryShape, NotSilenced

LEMMA ReplyInvStep ==
    ASSUME ReplyInv, [PromptNext]_promptVars
    PROVE  ReplyInv'
<1> USE PromptReplyAssumption DEF ReplyInv, CallTypes, HandoffShape, MemoryShape, NotSilenced, Unsettled
<1>1. ASSUME NEW r \in Rule, Repeat(r) PROVE ReplyInv'
  BY <1>1 DEF Repeat, Queued, Thrashing
<1>2. ASSUME NEW p \in Prompt, Ask(p) PROVE ReplyInv'
  BY <1>2 DEF Ask, thrash
<1>3. ASSUME NEW p \in Prompt, Observe(p) PROVE ReplyInv'
  BY <1>3 DEF Observe, Rearm, Nobody
<1>4. ASSUME NEW p \in Prompt, Answer(p) PROVE ReplyInv'
  BY <1>4 DEF Answer, Carries, thrash
<1>5. ASSUME NEW p \in Prompt, Deadline(p) PROVE ReplyInv'
  BY <1>5 DEF Deadline, thrash
<1>6. ASSUME NEW p \in Prompt, WaitEnds(p) PROVE ReplyInv'
  BY <1>6 DEF WaitEnds, Carries, thrash
<1>7. ASSUME NEW p \in Prompt, HookReads(p) PROVE ReplyInv'
  BY <1>7 DEF HookReads, thrash
<1>8. ASSUME NEW p \in Prompt, HookGivesUp(p) PROVE ReplyInv'
  BY <1>8 DEF HookGivesUp, thrash
<1>9. ASSUME NEW p \in Prompt, Settle(p) PROVE ReplyInv'
  BY <1>9 DEF Settle, Rearm, Nobody
<1>10. CASE SetMode \/ CloseGate \/ UNCHANGED promptVars
  BY <1>10 DEF SetMode, CloseGate, promptVars, thrash
<1> QED
  BY <1>1, <1>2, <1>3, <1>4, <1>5, <1>6, <1>7, <1>8, <1>9, <1>10 DEF PromptNext

\* For any prompts and rules: a rule marked as warned of is still queued, its warning was shown or lost
\* to a later reply's memory or to a claim after the settling, or the reply that carries it is with a hook or awaits that hook's spooled
\* copy (promptReplyHandoff, rearmUndelivered, PromptReplySpooled).
THEOREM NotSilencedAlways == PromptSpec => []NotSilenced
<1>1. ReplyInv => NotSilenced
  BY DEF ReplyInv
<1>2. ReplyInv /\ [PromptNext]_promptVars => ReplyInv'
  BY ReplyInvStep
<1> QED
  BY <1>1, <1>2, ReplyInvInit, PTL DEF PromptSpec
=============================================================================
