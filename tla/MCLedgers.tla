----------------------------- MODULE MCLedgers -----------------------------
(* What the daemon keeps of a session's work and gives back, for TLC: the     *)
(* elimination ledger (NegKnow), the scheduler's token account with the       *)
(* segments it closes (SegmentAccount), the grammar of the actions            *)
(* (Sequitur), and the records a rebuilt context carries (PayloadBudget).     *)
(* They share no variable, so one behaviour takes the steps of one of them    *)
(* (part) and leaves the others in their initial state.  The account is       *)
(* checked for one session with two tool uses and two mishaps (Single), and   *)
(* for two sessions with one tool use each and none (Pair).                   *)
EXTENDS Naturals, Sequences, FiniteSets

CONSTANTS Version, OnStale, MaxCalls, MaxClock, MaxIngests, MaxFaults,
          Declares, Boundary, MaxStarts,
          Terminal, MaxInput, MaxReloads,
          Ceiling, MaxTokens, MinTokens, SkillTokens, Budget, Surplus

VARIABLES part,
          log, synced, named, cache, mem, ver, now, ing, qry, ref, acked, loose, left,
          open, closed, doc, recorded, next, acct, reg, holds, pc, owes, ask, running, spooled,
          folded, stale, mishaps, starts,
          g, input, own, settled, reloads,
          request, result

\* An elimination told by a model that rests on a file, and one heard that rests on none.
Asks == {[told |-> TRUE, sess |-> "s1", scope |-> "session", key |-> "k1", rests |-> TRUE],
         [told |-> FALSE, sess |-> "s2", scope |-> "project", key |-> "k1", rests |-> FALSE]}
Questions == {[sess |-> "s1", scope |-> "session", key |-> "k1"]}

OneSession == [s \in {"s1"} |-> <<1, 2>>]
TwoSessions == [s \in {"s1", "s2"} |-> IF s = "s1" THEN <<1>> ELSE <<2>>]

\* Snapshots handed over: two rules and a sequence of at most two symbols each, cyclic ones included.
Symbols == {[val |-> "a", ref |-> 0], [val |-> "", ref |-> 1], [val |-> "", ref |-> 2]}
Bodies == UNION {[1 .. n -> Symbols] : n \in 0 .. 2}
Handed == UNION {[rules : [R -> Bodies], seq : Bodies, next : 1 .. 3] : R \in SUBSET {1, 2}}

\* Records of tier 1 that fit, that do not, and that no payload could hold, and records of the shares.
Rec(id, n, fixed) == [id |-> id, cost |-> [tok |-> n, chars |-> n],
                      bare |-> [tok |-> n, chars |-> n], fixed |-> fixed]
Pins == {<<>>, <<Rec("i1", 3, TRUE)>>, <<Rec("i1", 50, TRUE), Rec("i2", 2, TRUE)>>}
Originals == {<<>>, <<Rec("original", 2, TRUE)>>, <<Rec("original", 50, TRUE)>>}
Deltas == {<<>>, <<Rec("e1", 50, FALSE), Rec("e2", 2, FALSE)>>,
           <<Rec("e1", 4, FALSE), Rec("e2", 2, FALSE), Rec("e3", 1, FALSE)>>}
Eliminated == {<<>>, <<Rec("x1", 2, FALSE), Rec("x2", 3, FALSE), Rec("note", 1, TRUE)>>}
Decided == {<<>>, <<Rec("d1", 2, FALSE), Rec("d2", 2, FALSE)>>}
Pointer == [Rec("p1", 5, FALSE) EXCEPT !.bare = [tok |-> 2, chars |-> 2]]
Others == {<<<<>>, <<>>>>, <<<<Pointer>>, <<>>>>,
           <<<<>>, <<Rec("s1", 2, FALSE), Rec("s2", 1, FALSE)>>>>}
Records(i, o, e, x, d, k) ==
    [invariants |-> i, intent |-> o \o e, eliminations |-> x, decisions |-> d, work |-> <<>>,
     pointers |-> k[1], instructions |-> <<>>, skills |-> k[2], report |-> <<>>,
     retrieval |-> <<Rec("r", 2, TRUE)>>]
Asked == {[all |-> Records(i, o, e, x, d, k), budget |-> b, surplus |-> s, drops |-> <<>>,
           lost |-> o = <<>> /\ e # <<>>] :
             i \in Pins, o \in Originals, e \in Deltas, x \in Eliminated, d \in Decided,
             k \in Others, b \in Budget, s \in Surplus}

Ledger == INSTANCE NegKnow WITH Ask <- Asks, Question <- Questions
Single == INSTANCE SegmentAccount WITH Work <- OneSession, Missed <- {"s1"}, MaxMishaps <- 2
Pair == INSTANCE SegmentAccount WITH Work <- TwoSessions, Missed <- {"s2"}, MaxMishaps <- 0
Grammar == INSTANCE Sequitur WITH Foreign <- Handed
Payload == INSTANCE PayloadBudget WITH Requests <- Asked

ledgerVars == <<log, synced, named, cache, mem, ver, now, ing, qry, ref, acked, loose, left>>
accountVars == <<open, closed, doc, recorded, next, acct, reg, holds, pc, owes, ask, running,
                 spooled, folded, stale, mishaps, starts>>
grammarVars == <<g, input, own, settled, reloads>>
payloadVars == <<request, result>>
parts == <<ledgerVars, accountVars, grammarVars, payloadVars, part>>

PartInit ==
    /\ part \in {"ledger", "single", "pair", "grammar", "payload"}
    /\ Ledger!Init
    /\ IF part = "pair" THEN Pair!Init ELSE Single!Init
    /\ Grammar!Init
    /\ IF part = "payload" THEN Payload!Init ELSE request = <<>> /\ result = <<>>

PartNext ==
    \/ /\ part = "ledger"
       /\ Ledger!Next
       /\ UNCHANGED <<accountVars, grammarVars, payloadVars, part>>
    \/ /\ part = "single"
       /\ Single!Next
       /\ UNCHANGED <<ledgerVars, grammarVars, payloadVars, part>>
    \/ /\ part = "pair"
       /\ Pair!Next
       /\ UNCHANGED <<ledgerVars, grammarVars, payloadVars, part>>
    \/ /\ part = "grammar"
       /\ Grammar!Next
       /\ UNCHANGED <<ledgerVars, accountVars, payloadVars, part>>
    \/ /\ part = "payload"
       /\ Payload!Build
       /\ UNCHANGED <<ledgerVars, accountVars, grammarVars, part>>

PartSpec == PartInit /\ [][PartNext]_parts

(* What the ledger answers and acknowledges is true: no query answers absent  *)
(* for a recorded elimination or active for one whose file had changed, and   *)
(* what it acknowledged or holds in memory is in its log, unless an           *)
(* unfinished line swallowed it or a power loss took what was answered        *)
(* without a sync (Query, Record, syncAcknowledged).                          *)
LedgerHonest == Ledger!LedgerHonest

(* However often a delivery is handled, over failed closes, rebinds and       *)
(* crashes, the scheduler's account counts its tokens once, drops none, and   *)
(* ends a changepoint's segment before it.  Excepted are what a crash or      *)
(* another session's bind took from an account that alone held it, and what a *)
(* document older than its close gives back a second time (applyToolUse,      *)
(* closeOwed, bindUnboundLocked).                                             *)
AccountSound == IF part = "pair" THEN Pair!AccountSound ELSE Single!AccountSound

(* The grammar stands for exactly the actions it was given, every rule is     *)
(* used twice, its digram index names real places, and no pair of different   *)
(* symbols occurs twice in what it induced (Append, enforceRuleUtility,       *)
(* Restore).                                                                  *)
GrammarSound == Grammar!GrammarSound

(* The payload keeps its caps at every budget, shows or names every record,   *)
(* takes tier 1 as one prefix of its order, shows nothing without what makes  *)
(* it honest, and says that something is missing (BuildWithStats).            *)
PayloadSound == part = "payload" => Payload!PayloadSound
=============================================================================
