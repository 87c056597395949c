------------------------------- MODULE GCGate -------------------------------
(***************************************************************************)
(* The serializer of garbage-collection passes, internal/store/gcgate.go.  *)
(* Every session end and the idle scheduler call GC on one store; a call   *)
(* that finds a pass running waits and is answered only by a pass that     *)
(* started after it arrived.  One follow-up pass answers every waiting     *)
(* call of its kind.                                                       *)
(*                                                                         *)
(* A Call is one call of FSStore.GC.  g.mu is held for each critical       *)
(* section and never across a pass, so a critical section is one step.     *)
(* The queue is the set of the waiting calls with the order of their       *)
(* arrival.  What a pass does to the store is the subject of StoreGC; here *)
(* it takes its snapshot and ends in one of the ways serves tells apart.   *)
(***************************************************************************)
EXTENDS Naturals, FiniteSets

CONSTANTS Call,      \* the calls of GC
          kind,      \* each call's gcPolicyKey: what two calls must share to share a pass
          deadline   \* each call's GCPolicy.Deadline, 0 for none

ASSUME GCGateAssumption ==
    /\ IsFiniteSet(Call)
    /\ DOMAIN kind = Call
    /\ deadline \in [Call -> Nat]

VARIABLES pc,        \* where each call is
          ended,     \* the calls whose context has ended
          running,   \* {} or {0}: g.running
          seq,       \* g.seq
          turn,      \* a waiting call's place in the arrival order of g.queue
          floor,     \* gcWaiter.floor
          fate,      \* gcWaiter.fate, "none" for a call that does not wait
          pass,      \* the number of the pass a call runs
          asked,     \* history: the calls made so far, so that their garbage exists
          marked,    \* history: the calls the last snapshot saw
          late,      \* history: the served calls that their pass's snapshot saw
          last       \* history: how the last pass ended, "none" while one runs

vars == <<pc, ended, running, seq, turn, floor, fate, pass,
          asked, marked, late, last>>

history == <<asked, marked, late, last>>

PC == {"idle", "entered", "waiting", "starts", "passes", "returned"}
Fate == {"none", "waiting", "elected", "served", "withdrawn"}
Outcome == {"collected", "truncated", "cancelled", "failed", "panicked"}

\* g.queue, as a set.
Waiting == {c \in Call : fate[c] = "waiting"}

\* The state's types; the queue is ordered, two calls never share a place.
TypeOK ==
    /\ pc \in [Call -> PC]
    /\ ended \subseteq Call
    /\ running \subseteq {0}
    /\ seq \in Nat
    /\ turn \in [Call -> Nat]
    /\ floor \in [Call -> Nat]
    /\ fate \in [Call -> Fate]
    /\ pass \in [Call -> Nat]
    /\ asked \subseteq Call
    /\ marked \subseteq Call
    /\ late \subseteq Call
    /\ last \in Outcome \union {"none"}
    /\ \A c, d \in Waiting : turn[c] = turn[d] => c = d

Init ==
    /\ pc = [c \in Call |-> "idle"]
    /\ ended = {}
    /\ running = {}
    /\ seq = 0
    /\ turn = [c \in Call |-> 0]
    /\ floor = [c \in Call |-> 0]
    /\ fate = [c \in Call |-> "none"]
    /\ pass = [c \in Call |-> 0]
    /\ asked = {}
    /\ marked = {}
    /\ late = {}
    /\ last = "none"

-----------------------------------------------------------------------------

\* A Deadline that is not positive is the longest of all.
Longer(a, b) == IF a = 0 THEN b # 0 ELSE b # 0 /\ a > b

\* The caller's context ends: Stop, or a bound of the caller's own.
EndContext(c) ==
    /\ c \notin ended
    /\ pc[c] \notin {"idle", "returned"}
    /\ ended' = ended \union {c}
    /\ UNCHANGED <<pc, running, seq, turn, floor, fate, pass, history>>

\* GC is called on a context that has not ended; an ended one is refused
\* before it reaches the gate.
Enter(c) ==
    /\ pc[c] = "idle"
    /\ pc' = [pc EXCEPT ![c] = "entered"]
    /\ asked' = asked \union {c}
    /\ UNCHANGED <<ended, running, seq, turn, floor, fate, pass, marked, late, last>>

\* No pass is running: the call runs its own at once.
Uncontended(c) ==
    /\ pc[c] = "entered"
    /\ running = {}
    /\ running' = {0}
    /\ seq' = seq + 1
    /\ pass' = [pass EXCEPT ![c] = seq + 1]
    /\ pc' = [pc EXCEPT ![c] = "starts"]
    /\ UNCHANGED <<ended, turn, floor, fate, history>>

\* A pass is running: the call joins the end of the queue.
Queue(c) ==
    /\ pc[c] = "entered"
    /\ running # {}
    /\ \E n \in 1..(Cardinality(Call) + 1) :
        /\ \A w \in Waiting : turn[w] < n
        /\ n = 1 \/ \E w \in Waiting : turn[w] = n - 1
        /\ turn' = [turn EXCEPT ![c] = n]
    /\ floor' = [floor EXCEPT ![c] = seq]
    /\ fate' = [fate EXCEPT ![c] = "waiting"]
    /\ pc' = [pc EXCEPT ![c] = "waiting"]
    /\ UNCHANGED <<ended, running, seq, pass, history>>

\* The call returns to its caller and what it held is gone.
Returns(c) ==
    /\ pc' = [pc EXCEPT ![c] = "returned"]
    /\ fate' = [fate EXCEPT ![c] = "none"]
    /\ turn' = [turn EXCEPT ![c] = 0]
    /\ floor' = [floor EXCEPT ![c] = 0]

\* ctx.Done is chosen by the select and the gate has decided nothing yet.
Withdraw(c) ==
    /\ pc[c] = "waiting"
    /\ c \in ended
    /\ fate[c] = "waiting"
    /\ Returns(c)
    /\ UNCHANGED <<ended, running, seq, pass, history>>

\* Deviation: a withdrawn call is not woken.
ResumeServed(c) ==
    /\ pc[c] = "waiting"
    /\ fate[c] = "served"
    /\ Returns(c)
    /\ late' = late \ {c}
    /\ UNCHANGED <<ended, running, seq, pass, asked, marked, last>>

\* The gate has answered or withdrawn the call.
Resume(c) ==
    /\ pc[c] = "waiting"
    /\ fate[c] \in {"served", "withdrawn"}
    /\ Returns(c)
    /\ late' = late \ {c}
    /\ UNCHANGED <<ended, running, seq, pass, asked, marked, last>>

\* An elected call runs its pass, even on an ended context.
ResumeElected(c) ==
    /\ pc[c] = "waiting"
    /\ fate[c] = "elected"
    /\ pc' = [pc EXCEPT ![c] = "starts"]
    /\ UNCHANGED <<ended, running, seq, turn, floor, fate, pass, history>>

\* The pass starts and takes its snapshot: everything asked for so far is
\* collectible for it.
Mark(c) ==
    /\ pc[c] = "starts"
    /\ pc' = [pc EXCEPT ![c] = "passes"]
    /\ marked' = asked
    /\ last' = "none"
    /\ UNCHANGED <<ended, running, seq, turn, floor, fate, pass, asked, late>>

\* The ways call c's pass can end.
MayEnd(c, o) ==
    CASE o = "truncated" -> deadline[c] # 0
      [] o = "cancelled" -> c \in ended
      [] OTHER -> TRUE

\* gcOutcome.serves.
Serves(c, o, w) ==
    /\ o \notin {"panicked", "cancelled"}
    /\ kind[c] = kind[w]
    /\ ~(o = "truncated" /\ Longer(deadline[w], deadline[c]))

\* Deviation: a call that arrived during the pass is answered by it.
ServedWhileRunning(c, o) == {w \in Waiting : floor[w] <= pass[c] /\ Serves(c, o, w)}

\* The waiting calls that call c's pass answers.
Served(c, o) == {w \in Waiting : floor[w] < pass[c] /\ Serves(c, o, w)}

\* Deviation: the oldest call of the chosen kind starts the pass.
ElectableOldest(q) ==
    {w \in q : \A v \in q : turn[w] <= turn[v]}

\* electLocked's choice from the live calls q: of the oldest call's kind, the
\* longest Deadline, the oldest of those on a tie.
Electable(q) ==
    {w \in q : \E first \in q :
        /\ \A v \in q : turn[first] <= turn[v]
        /\ kind[w] = kind[first]
        /\ \A v \in q : kind[v] = kind[first] =>
              /\ ~Longer(deadline[v], deadline[w])
              /\ deadline[v] = deadline[w] => turn[w] <= turn[v]}

\* The calls the gate keeps waiting once those in s are answered: electLocked
\* withdraws those whose context has ended.
Left(s) == (Waiting \ s) \ ended

\* The fates when call c's pass ends with o and the calls in e (one or none)
\* are elected.
Fates(c, o, e) ==
    [v \in Call |->
        IF v \in Served(c, o) THEN "served"
        ELSE IF v \in e THEN "elected"
        ELSE IF v \in Waiting \intersect ended THEN "withdrawn"
        ELSE IF v = c THEN "none"
        ELSE fate[v]]

\* finishGCPass for call c: the calls its pass serves are answered, and the
\* next pass is elected or the gate opens.
HandOn(c, o) ==
    /\ late' = late \union (Served(c, o) \intersect marked)
    /\ \/ /\ Left(Served(c, o)) = {}
          /\ fate' = Fates(c, o, {})
          /\ running' = {}
          /\ pass' = [pass EXCEPT ![c] = 0]
          /\ seq' = seq
       \/ \E w \in Electable(Left(Served(c, o))) :
          /\ fate' = Fates(c, o, {w})
          /\ running' = {0}
          /\ pass' = [pass EXCEPT ![c] = 0, ![w] = seq + 1]
          /\ seq' = seq + 1

\* runGCPass: the pass ends and hands the gate on, also when it panics.
Finish(c) ==
    /\ pc[c] = "passes"
    /\ \E o \in Outcome :
        /\ MayEnd(c, o)
        /\ last' = o
        /\ HandOn(c, o)
    /\ pc' = [pc EXCEPT ![c] = "returned"]
    /\ turn' = [turn EXCEPT ![c] = 0]
    /\ floor' = [floor EXCEPT ![c] = 0]
    /\ UNCHANGED <<ended, asked, marked>>

Next ==
    \E c \in Call :
        \/ EndContext(c) \/ Enter(c) \/ Uncontended(c) \/ Queue(c)
        \/ Withdraw(c) \/ Resume(c) \/ ResumeElected(c) \/ Mark(c) \/ Finish(c)

Spec == Init /\ [][Next]_vars

\* Goroutines that can run do run, and a pass ends: every loop of a pass is
\* bounded by what is on disk.  A context need not end.
Fairness ==
    \A c \in Call :
        WF_vars(Uncontended(c) \/ Queue(c) \/ Withdraw(c) \/ Resume(c)
                \/ ResumeElected(c) \/ Mark(c) \/ Finish(c))

FairSpec == Spec /\ Fairness

-----------------------------------------------------------------------------

\* A call that holds the gate: it runs a pass or has been elected to.
Holds(c) ==
    pc[c] \in {"starts", "passes"} \/ (pc[c] = "waiting" /\ fate[c] = "elected")

\* Passes never overlap, the gate is held exactly by the call that runs the
\* pass, and nothing waits while it is open: "It is true exactly while one
\* request is inside runGCPass; nothing waits while it is false."
GateHeld ==
    /\ \A c, d \in Call : Holds(c) /\ Holds(d) => c = d
    /\ running # {} <=> \E c \in Call : Holds(c)
    /\ running = {} => Waiting = {}

\* A call that another call's pass answered was answered by a pass that took
\* its snapshot after the call was made, so that what its caller had made
\* collectible was visible to it.
AnsweredByLaterPass ==
    \A c \in Call : fate[c] = "served" => c \in late

\* A pass that ended for no reason of its starter's own (not cancelled, not
\* panicked) leaves nobody waiting who had asked for its kind of pass before
\* it started: a burst of session ends costs the running pass and one more.
NobodyLeftBehind ==
    [][\A c, w \in Call :
          (/\ pc[c] = "passes" /\ pc'[c] = "returned"
           /\ last' \in {"collected", "truncated", "failed"}
           /\ fate[w] = "waiting" /\ kind[w] = kind[c] /\ floor[w] < pass[c])
          => fate'[w] = "served"]_vars

\* No kind of pass overtakes an older one: the elected call has the kind of
\* the oldest call that is still waiting.
OldestKindFirst ==
    [][\A w, v \in Call :
          (/\ fate[w] = "waiting" /\ fate'[w] = "elected"
           /\ fate[v] = "waiting" /\ fate'[v] = "waiting" /\ turn[v] < turn[w])
          => \E u \in Call : /\ fate[u] = "waiting" /\ fate'[u] \in {"waiting", "elected"}
                             /\ kind[u] = kind[w] /\ turn[u] <= turn[v]]_vars

\* The gate is sound: one holder while anybody waits, and no answer from a pass that started too
\* early (serializeGC, finishGCPass, serves).
GateSound == GateHeld /\ AnsweredByLaterPass

\* The gate is handed on fairly: a pass answers all it can, and the oldest waiting kind comes next
\* (finishGCPass, electLocked).
HandedOnFairly == NobodyLeftBehind /\ OldestKindFirst

\* Every call that asked for a pass returns, whatever passes panic and
\* whatever contexts end.
EveryCallReturns ==
    \A c \in Call : pc[c] = "entered" ~> pc[c] = "returned"
=============================================================================
