---------------------------- MODULE GCGateProofs ----------------------------
(***************************************************************************)
(* The gate of garbage collection passes, for any calls, kinds and         *)
(* deadlines.                                                              *)
(***************************************************************************)
EXTENDS GCGate, TLAPS

\* What a call's fate says of where it is.
Stages ==
    \A c \in Call :
        /\ fate[c] \in {"waiting", "served", "withdrawn"} => pc[c] = "waiting"
        /\ fate[c] = "elected" => pc[c] \in {"waiting", "starts", "passes"}
        /\ pc[c] = "waiting" => fate[c] # "none"
        /\ pc[c] # "idle" => c \in asked

\* The pass that holds the gate is the last one numbered.
HolderNumber == \A c \in Call : Holds(c) => pass[c] = seq

\* A call that queued before a pass was numbered was made before its snapshot.
SeenByPass ==
    \A c, w \in Call :
        pc[c] = "passes" /\ fate[w] = "waiting" /\ floor[w] < pass[c] => w \in marked

\* The elected call had the longest Deadline of the calls of its kind.
LongestHolds ==
    \A c, w \in Call :
        Holds(c) /\ fate[w] = "waiting" /\ kind[w] = kind[c] /\ floor[w] < pass[c]
            => ~Longer(deadline[w], deadline[c])

GateInv == /\ TypeOK /\ GateHeld /\ AnsweredByLaterPass
           /\ Stages /\ HolderNumber /\ SeenByPass /\ LongestHolds

\* An open gate that no call has reached.
LEMMA GateInit == Init => GateInv
BY DEF Init, GateInv, TypeOK, GateHeld, AnsweredByLaterPass, Stages, HolderNumber, SeenByPass,
       LongestHolds, Holds, Waiting, PC, Fate, Outcome

-----------------------------------------------------------------------------
(* The actions that leave the gate alone.                                    *)

\* A context that ends changes nothing until its call or electLocked looks at it.
LEMMA EndContextStep ==
    ASSUME GateInv, NEW c \in Call, EndContext(c) PROVE GateInv'
BY DEF GateInv, EndContext, TypeOK, GateHeld, AnsweredByLaterPass, Stages, HolderNumber, SeenByPass,
       LongestHolds, Holds, Waiting, history

\* A call of GC that has not reached the gate yet.
LEMMA EnterStep ==
    ASSUME GateInv, NEW c \in Call, Enter(c) PROVE GateInv'
<1> USE DEF GateInv, Enter, Holds, Waiting
<1>1. TypeOK'
  BY DEF TypeOK, PC
<1>2. \A x \in Call : Holds(x)' <=> Holds(x)
  BY DEF TypeOK
<1>3. GateHeld'
  BY <1>2 DEF GateHeld
<1>4. Stages'
  BY DEF TypeOK, Stages
<1>5. HolderNumber' /\ SeenByPass' /\ LongestHolds' /\ AnsweredByLaterPass'
  BY <1>2 DEF TypeOK, HolderNumber, SeenByPass, LongestHolds, AnsweredByLaterPass
<1> QED
  BY <1>1, <1>3, <1>4, <1>5

\* A snapshot sees every call made before it, and so every call queued before its pass.
LEMMA MarkStep ==
    ASSUME GateInv, NEW c \in Call, Mark(c) PROVE GateInv'
<1> USE DEF GateInv, Mark, Holds, Waiting
<1>1. TypeOK'
  BY DEF TypeOK, PC
<1>2. \A x \in Call : Holds(x)' <=> Holds(x)
  BY DEF TypeOK
<1>3. GateHeld'
  BY <1>2 DEF GateHeld
<1>4. Stages'
  BY DEF TypeOK, Stages
<1>5. SeenByPass'
  BY DEF TypeOK, SeenByPass, Stages
<1>6. HolderNumber' /\ LongestHolds' /\ AnsweredByLaterPass'
  BY <1>2 DEF TypeOK, HolderNumber, LongestHolds, AnsweredByLaterPass
<1> QED
  BY <1>1, <1>3, <1>4, <1>5, <1>6

-----------------------------------------------------------------------------
(* A call takes the gate, waits for it, or leaves the queue.                 *)

\* A call that finds the gate open takes it: nobody waited.
LEMMA UncontendedStep ==
    ASSUME GateInv, NEW c \in Call, Uncontended(c) PROVE GateInv'
<1> USE DEF GateInv, Uncontended, Waiting, history
<1>1. TypeOK'
  BY DEF TypeOK, PC
<1>2. (\A x \in Call : ~Holds(x)) /\ Waiting = {}
  BY DEF GateHeld
<1>3. \A x \in Call : Holds(x)' <=> x = c
  BY <1>2 DEF TypeOK, Holds, Stages
<1>4. GateHeld'
  BY <1>3 DEF GateHeld
<1>5. Stages'
  BY DEF TypeOK, Stages
<1>6. HolderNumber'
  BY <1>3 DEF TypeOK, HolderNumber
<1>7. SeenByPass' /\ LongestHolds'
  BY <1>2 DEF SeenByPass, LongestHolds
<1>8. AnsweredByLaterPass'
  BY DEF AnsweredByLaterPass
<1> QED
  BY <1>1, <1>4, <1>5, <1>6, <1>7, <1>8

\* A call that finds the gate held queues with the number of the last pass as its floor.
LEMMA QueueStep ==
    ASSUME GateInv, NEW c \in Call, Queue(c) PROVE GateInv'
<1> USE DEF GateInv, history
<1>0. PICK n \in 1..(Cardinality(Call) + 1) :
          (\A w \in Waiting : turn[w] < n) /\ turn' = [turn EXCEPT ![c] = n]
  BY Zenon DEF Queue
<1>a. n \in Nat
  OBVIOUS
<1>1. /\ pc[c] = "entered" /\ running # {} /\ fate[c] # "elected"
      /\ floor' = [floor EXCEPT ![c] = seq] /\ fate' = [fate EXCEPT ![c] = "waiting"]
      /\ pc' = [pc EXCEPT ![c] = "waiting"]
      /\ UNCHANGED <<ended, running, seq, pass, asked, marked, late, last>>
  BY DEF Queue, Stages
<1>2. Waiting' = Waiting \union {c}
  BY <1>1 DEF Waiting, TypeOK
<1>3. /\ turn' \in [Call -> Nat] /\ floor' \in [Call -> Nat]
      /\ fate' \in [Call -> Fate] /\ pc' \in [Call -> PC]
  BY <1>0, <1>a, <1>1 DEF TypeOK, Fate, PC
<1>4. ASSUME NEW x \in Waiting', NEW y \in Waiting', turn'[x] = turn'[y] PROVE x = y
  <2>1. c \notin Waiting
    BY <1>1 DEF Waiting, Stages
  <2>2. x \in Call /\ y \in Call /\ \A w \in Waiting : turn[w] \in Nat
    BY DEF Waiting, TypeOK
  <2> QED
    BY <1>0, <1>a, <1>2, <1>4, <2>1, <2>2 DEF TypeOK
<1>5. TypeOK'
  BY <1>1, <1>3, <1>4 DEF TypeOK
<1>6. \A x \in Call : Holds(x)' <=> Holds(x)
  BY <1>1 DEF TypeOK, Holds
<1>7. GateHeld'
  BY <1>1, <1>6 DEF GateHeld
<1>8. Stages'
  BY <1>1 DEF TypeOK, Stages
<1>9. HolderNumber' /\ AnsweredByLaterPass'
  BY <1>1, <1>6 DEF TypeOK, HolderNumber, AnsweredByLaterPass
<1>10. SeenByPass' /\ LongestHolds'
  BY <1>1, <1>6 DEF TypeOK, SeenByPass, LongestHolds, HolderNumber, Holds
<1> QED
  BY <1>5, <1>7, <1>8, <1>9, <1>10

\* A call that is withdrawn or answered leaves the queue and not the gate.
LEMMA LeaveStep ==
    ASSUME GateInv, NEW c \in Call, Withdraw(c) \/ Resume(c) PROVE GateInv'
<1> USE DEF GateInv, history
<1>1. /\ pc[c] = "waiting" /\ fate[c] # "elected" /\ Returns(c)
      /\ late \ {c} \subseteq late' /\ late' \subseteq late
      /\ UNCHANGED <<ended, running, seq, pass, asked, marked, last>>
  BY DEF Withdraw, Resume
<1>2. TypeOK'
  BY <1>1 DEF Returns, TypeOK, PC, Fate, Waiting
<1>3. \A x \in Call : Holds(x)' <=> Holds(x)
  BY <1>1 DEF Returns, TypeOK, Holds
<1>4. Waiting' \subseteq Waiting
  BY <1>1 DEF Returns, TypeOK, Waiting
<1>5. GateHeld'
  BY <1>1, <1>3, <1>4 DEF GateHeld
<1>6. Stages'
  BY <1>1 DEF Returns, TypeOK, Stages
<1>7. HolderNumber' /\ AnsweredByLaterPass'
  BY <1>1, <1>3 DEF Returns, TypeOK, HolderNumber, AnsweredByLaterPass
<1>8. SeenByPass' /\ LongestHolds'
  BY <1>1, <1>3 DEF Returns, TypeOK, SeenByPass, LongestHolds
<1> QED
  BY <1>2, <1>5, <1>6, <1>7, <1>8

\* An elected call keeps the gate it was handed.
LEMMA ResumeElectedStep ==
    ASSUME GateInv, NEW c \in Call, ResumeElected(c) PROVE GateInv'
<1> USE DEF GateInv, ResumeElected, history
<1>1. TypeOK'
  BY DEF TypeOK, PC, Waiting
<1>2. \A x \in Call : Holds(x)' <=> Holds(x)
  BY DEF TypeOK, Holds
<1>3. GateHeld'
  BY <1>2 DEF GateHeld, Waiting
<1>4. Stages'
  BY DEF TypeOK, Stages
<1>5. HolderNumber' /\ SeenByPass' /\ LongestHolds' /\ AnsweredByLaterPass'
  BY <1>2 DEF TypeOK, HolderNumber, SeenByPass, LongestHolds, AnsweredByLaterPass
<1> QED
  BY <1>1, <1>3, <1>4, <1>5

-----------------------------------------------------------------------------
(* The end of a pass.  What finishGCPass does, the queue as it leaves it.    *)

\* The pass of c ended with o; e is the elected call, if any.
Ends(c, o, e) ==
    /\ o \in Outcome /\ last' = o
    /\ e \subseteq Left(Served(c, o))
    /\ late' = late \union (Served(c, o) \intersect marked)
    /\ fate' = Fates(c, o, e)

\* How finishGCPass ends: nobody is elected, or one of the electable calls is.
LEMMA FinishCases ==
    ASSUME NEW c \in Call, Finish(c)
    PROVE  \E o \in Outcome :
              \/ /\ Ends(c, o, {}) /\ Left(Served(c, o)) = {}
                 /\ running' = {} /\ pass' = [pass EXCEPT ![c] = 0] /\ seq' = seq
              \/ \E w \in Electable(Left(Served(c, o))) :
                    /\ Ends(c, o, {w})
                    /\ running' = {0} /\ pass' = [pass EXCEPT ![c] = 0, ![w] = seq + 1]
                    /\ seq' = seq + 1
<1>1. PICK o \in Outcome : last' = o /\ HandOn(c, o)
  BY DEF Finish
<1>2. Electable(Left(Served(c, o))) \subseteq Left(Served(c, o))
  BY DEF Electable
<1>3. CASE /\ Left(Served(c, o)) = {} /\ fate' = Fates(c, o, {})
           /\ running' = {} /\ pass' = [pass EXCEPT ![c] = 0] /\ seq' = seq
  BY <1>1, <1>3 DEF HandOn, Ends
<1>4. CASE \E w \in Electable(Left(Served(c, o))) :
              /\ fate' = Fates(c, o, {w})
              /\ running' = {0} /\ pass' = [pass EXCEPT ![c] = 0, ![w] = seq + 1]
              /\ seq' = seq + 1
  BY <1>1, <1>2, <1>4, Zenon DEF HandOn, Ends
<1> QED
  BY <1>1, <1>3, <1>4, Zenon DEF HandOn

\* What becomes of every call when the pass of c ends.
Decided(c, o, e) ==
    /\ fate' \in [Call -> Fate]
    /\ fate'[c] \notin {"waiting", "served", "withdrawn", "elected"}
    /\ Waiting' = Left(Served(c, o)) \ e
    /\ \A v \in Call :
          /\ fate'[v] = "served" <=> v \in Served(c, o) \/ (v # c /\ fate[v] = "served")
          /\ fate'[v] = "elected" <=> v \in e \/ (v # c /\ fate[v] = "elected")
          /\ fate'[v] = "none" <=> v = c \/ fate[v] = "none"
          /\ fate'[v] = "withdrawn" => fate[v] \in {"waiting", "withdrawn"}

\* What the end of a pass makes of every fate.
LEMMA FatesOf ==
    ASSUME TypeOK, Stages, NEW c \in Call, pc[c] = "passes", NEW o \in Outcome, NEW e,
           Ends(c, o, e)
    PROVE  Decided(c, o, e)
<1>1. Served(c, o) \subseteq Waiting /\ e \subseteq Waiting \ Served(c, o)
  BY DEF Served, Left, Ends
<1>2. c \notin Waiting
  BY DEF Waiting, Stages
<1>3. \A v \in Call : fate'[v] = IF v \in Served(c, o) THEN "served"
                                 ELSE IF v \in e THEN "elected"
                                 ELSE IF v \in Waiting \intersect ended THEN "withdrawn"
                                 ELSE IF v = c THEN "none" ELSE fate[v]
  BY DEF Ends, Fates
<1>4. \A v \in Call : v \in Waiting <=> fate[v] = "waiting"
  BY DEF Waiting
<1>5. fate' \in [Call -> Fate]
  BY DEF Ends, Fates, TypeOK, Fate
<1>6. Waiting' = Left(Served(c, o)) \ e
  BY <1>1, <1>2, <1>3, <1>4 DEF Waiting, Left
<1> QED
  BY <1>1, <1>2, <1>3, <1>4, <1>5, <1>6 DEF Decided

\* What the end of a pass leaves, whoever is elected.
HandedOn(c, o, e) ==
    /\ pc' \in [Call -> PC] /\ turn' \in [Call -> Nat] /\ floor' \in [Call -> Nat]
    /\ fate' \in [Call -> Fate] /\ late' \subseteq Call /\ last' \in Outcome
    /\ \A x, y \in Waiting' : turn'[x] = turn'[y] => x = y
    /\ Stages' /\ AnsweredByLaterPass' /\ SeenByPass'
    /\ Waiting' = Left(Served(c, o)) \ e
    /\ \A x \in Call : Holds(x)' <=> x \in e

\* finishGCPass: the gate goes to one call that still waits, or opens with none left.
LEMMA FinishStep ==
    ASSUME GateInv, NEW c \in Call, Finish(c) PROVE GateInv'
<1> USE DEF GateInv
<1>1. /\ pc[c] = "passes" /\ pc' = [pc EXCEPT ![c] = "returned"]
      /\ turn' = [turn EXCEPT ![c] = 0] /\ floor' = [floor EXCEPT ![c] = 0]
      /\ UNCHANGED <<ended, asked, marked>>
  BY DEF Finish
<1>2. \A x \in Call : Holds(x) <=> x = c
  BY <1>1 DEF GateHeld, Holds
<1>3. pass[c] = seq
  BY <1>2 DEF HolderNumber
<1>4. ASSUME NEW o \in Outcome, NEW e, Ends(c, o, e)
      PROVE  HandedOn(c, o, e)
  <2>1. Decided(c, o, e)
    BY <1>1, <1>4, FatesOf
  <2>2. pc' \in [Call -> PC] /\ turn' \in [Call -> Nat] /\ floor' \in [Call -> Nat]
    BY <1>1 DEF TypeOK, PC
  <2>3. late' \subseteq Call /\ last' \in Outcome
    BY <1>4 DEF Ends, TypeOK
  <2>4. Waiting' \subseteq Waiting /\ Served(c, o) \subseteq Waiting /\ e \subseteq Waiting
    BY <1>4, <2>1 DEF Decided, Left, Served, Ends
  <2>5. \A x \in Call : x \in Waiting => fate[x] = "waiting" /\ pc[x] = "waiting" /\ x # c
    BY <1>1 DEF Waiting, Stages
  <2>6. \A x, y \in Waiting' : turn'[x] = turn'[y] => x = y
    <3>1. Waiting \subseteq Call
      BY DEF Waiting
    <3>2. \A x \in Waiting : turn'[x] = turn[x]
      BY <1>1, <2>5, <3>1 DEF TypeOK
    <3> QED
      BY <2>4, <3>2 DEF TypeOK
  <2>7. \A x \in Call : Holds(x)' <=> x \in e
    <3>1. \A x \in Call : x # c => pc'[x] = pc[x] /\ pc[x] \notin {"starts", "passes"}
      BY <1>1, <1>2 DEF TypeOK, Holds
    <3>2. \A x \in Call : x # c /\ pc[x] = "waiting" => fate[x] # "elected"
      BY <1>2 DEF Holds
    <3>3. pc'[c] = "returned"
      BY <1>1 DEF TypeOK
    <3> QED
      BY <2>1, <2>4, <2>5, <3>1, <3>2, <3>3 DEF Decided, Holds
  <2>8. Stages'
    <3>1. \A x \in Call : x # c => pc'[x] = pc[x]
      BY <1>1 DEF TypeOK
    <3>2. pc'[c] = "returned" /\ pc[c] = "passes"
      BY <1>1 DEF TypeOK
    <3>3. ASSUME NEW x \in Call
          PROVE  fate'[x] \in {"waiting", "served", "withdrawn"} => pc'[x] = "waiting"
      <4>1. fate'[x] = "waiting" => x \in Waiting
        BY <2>4 DEF Waiting
      <4>2. CASE x = c
        BY <2>1, <4>2 DEF Decided
      <4>3. CASE x # c
        BY <2>1, <2>4, <2>5, <3>1, <4>1, <4>3 DEF Decided, Stages
      <4> QED
        BY <4>2, <4>3
    <3>4. ASSUME NEW x \in Call
          PROVE  fate'[x] = "elected" => pc'[x] \in {"waiting", "starts", "passes"}
      BY <2>1, <2>4, <2>5, <3>1 DEF Decided, Stages
    <3>5. ASSUME NEW x \in Call PROVE pc'[x] = "waiting" => fate'[x] # "none"
      BY <2>1, <3>1, <3>2 DEF Decided, Stages
    <3>6. ASSUME NEW x \in Call PROVE pc'[x] # "idle" => x \in asked'
      BY <1>1, <3>1, <3>2 DEF Stages
    <3> QED
      BY <3>3, <3>4, <3>5, <3>6 DEF Stages
  <2>9. AnsweredByLaterPass'
    <3>1. \A x \in Served(c, o) : x \in marked
      BY <1>1, <2>4, <2>5 DEF Served, SeenByPass, Waiting
    <3> QED
      BY <1>4, <2>1, <3>1 DEF Decided, AnsweredByLaterPass, Ends
  <2>10. SeenByPass'
    BY <1>1, <1>2 DEF SeenByPass, Holds, TypeOK
  <2> QED
    BY <2>1, <2>2, <2>3, <2>6, <2>7, <2>8, <2>9, <2>10 DEF Decided, HandedOn
<1>5. PICK o \in Outcome :
          \/ /\ Ends(c, o, {}) /\ Left(Served(c, o)) = {}
             /\ running' = {} /\ pass' = [pass EXCEPT ![c] = 0] /\ seq' = seq
          \/ \E w \in Electable(Left(Served(c, o))) :
                /\ Ends(c, o, {w})
                /\ running' = {0} /\ pass' = [pass EXCEPT ![c] = 0, ![w] = seq + 1]
                /\ seq' = seq + 1
  BY FinishCases
<1>6. CASE /\ Ends(c, o, {}) /\ Left(Served(c, o)) = {}
           /\ running' = {} /\ pass' = [pass EXCEPT ![c] = 0] /\ seq' = seq
  <2>1. HandedOn(c, o, {})
    BY <1>4, <1>6
  <2>2. seq' \in Nat /\ pass' \in [Call -> Nat]
    BY <1>6 DEF TypeOK
  <2>3. TypeOK'
    BY <1>1, <1>6, <2>1, <2>2 DEF HandedOn, TypeOK
  <2>4. GateHeld' /\ HolderNumber' /\ LongestHolds'
    BY <1>6, <2>1 DEF HandedOn, GateHeld, HolderNumber, LongestHolds
  <2> QED
    BY <2>1, <2>3, <2>4 DEF HandedOn
<1>7. CASE \E w \in Electable(Left(Served(c, o))) :
              /\ Ends(c, o, {w})
              /\ running' = {0} /\ pass' = [pass EXCEPT ![c] = 0, ![w] = seq + 1]
              /\ seq' = seq + 1
  <2>0. PICK w \in Electable(Left(Served(c, o))) :
              /\ Ends(c, o, {w})
              /\ running' = {0} /\ pass' = [pass EXCEPT ![c] = 0, ![w] = seq + 1]
              /\ seq' = seq + 1
    BY <1>7, Zenon
  <2>1. HandedOn(c, o, {w})
    BY <1>4, <2>0
  <2>2. w \in Call /\ w \in Left(Served(c, o))
    BY DEF Electable, Left, Waiting
  <2>3. seq' \in Nat /\ pass' \in [Call -> Nat]
    BY <2>0, <2>2 DEF TypeOK
  <2>4. TypeOK'
    BY <1>1, <2>0, <2>1, <2>3 DEF HandedOn, TypeOK
  <2>5. GateHeld'
    BY <2>0, <2>1, <2>2 DEF HandedOn, GateHeld
  <2>6. HolderNumber'
    BY <2>0, <2>1, <2>2 DEF HandedOn, HolderNumber, TypeOK
  <2>7. ASSUME NEW v \in Left(Served(c, o)), kind[v] = kind[w]
        PROVE  ~Longer(deadline[v], deadline[w])
    BY <2>7 DEF Electable
  <2>8. LongestHolds'
    BY <2>1, <2>2, <2>7 DEF HandedOn, LongestHolds, Waiting
  <2> QED
    BY <2>1, <2>4, <2>5, <2>6, <2>8 DEF HandedOn
<1> QED
  BY <1>5, <1>6, <1>7

-----------------------------------------------------------------------------
\* Every step of the gate keeps the inductive invariant.
LEMMA GateStep == GateInv /\ [Next]_vars => GateInv'
<1> SUFFICES ASSUME GateInv, [Next]_vars PROVE GateInv'
  OBVIOUS
<1>1. CASE UNCHANGED vars
  BY <1>1 DEF vars, GateInv, TypeOK, GateHeld, AnsweredByLaterPass, Stages, HolderNumber, SeenByPass,
              LongestHolds, Holds, Waiting
<1>2. ASSUME NEW c \in Call,
             \/ EndContext(c) \/ Enter(c) \/ Uncontended(c) \/ Queue(c)
             \/ Withdraw(c) \/ Resume(c) \/ ResumeElected(c) \/ Mark(c) \/ Finish(c)
      PROVE  GateInv'
  BY <1>2, EndContextStep, EnterStep, UncontendedStep, QueueStep, LeaveStep, ResumeElectedStep,
     MarkStep, FinishStep
<1> QED
  BY <1>1, <1>2 DEF Next

\* The inductive invariant holds at every moment.
LEMMA GateAlways == Spec => []GateInv
BY GateInit, GateStep, PTL DEF Spec

\* Every variable of the gate keeps its type, and no two waiting calls share a place.
THEOREM TypeCorrect == Spec => []TypeOK
<1>1. GateInv => TypeOK
  BY DEF GateInv
<1> QED
  BY <1>1, GateAlways, PTL

\* Passes never overlap and nothing waits at an open gate (serializeGC, finishGCPass).
THEOREM GateHeldAlways == Spec => []GateHeld
<1>1. GateInv => GateHeld
  BY DEF GateInv
<1> QED
  BY <1>1, GateAlways, PTL

\* Nobody is answered by a pass whose snapshot missed what it had asked for: the floor that a waiting
\* call records is enough for serves to tell.
THEOREM AnsweredByLaterPassAlways == Spec => []AnsweredByLaterPass
<1>1. GateInv => AnsweredByLaterPass
  BY DEF GateInv
<1> QED
  BY <1>1, GateAlways, PTL

-----------------------------------------------------------------------------
(* What the end of a pass may not do.                                        *)

\* Only the end of its pass lets a call that runs one return.
LEMMA OnlyFinishReturns ==
    ASSUME TypeOK, NEW c \in Call, pc[c] = "passes", pc'[c] = "returned", Next
    PROVE  Finish(c)
<1>1. PICK d \in Call :
         \/ EndContext(d) \/ Enter(d) \/ Uncontended(d) \/ Queue(d)
         \/ Withdraw(d) \/ Resume(d) \/ ResumeElected(d) \/ Mark(d) \/ Finish(d)
  BY DEF Next
<1>2. CASE d = c
  BY <1>1, <1>2 DEF EndContext, Enter, Uncontended, Queue, Withdraw, Resume, ResumeElected, Mark
<1>3. CASE d # c
  <2>1. pc'[c] = pc[c]
    BY <1>1, <1>3 DEF TypeOK, EndContext, Enter, Uncontended, Queue, Withdraw, Resume, Returns,
                      ResumeElected, Mark, Finish
  <2> QED
    BY <2>1
<1> QED
  BY <1>2, <1>3

\* A pass that ended for no reason of its own answers everybody who had asked for its kind before it
\* started, truncated or not: electLocked's choice of the longest Deadline makes it so.
THEOREM NobodyLeftBehindAlways == Spec => NobodyLeftBehind
<1>1. ASSUME GateInv, Next, NEW c \in Call, NEW w \in Call,
             pc[c] = "passes", pc'[c] = "returned",
             last' \in {"collected", "truncated", "failed"},
             fate[w] = "waiting", kind[w] = kind[c], floor[w] < pass[c]
      PROVE  fate'[w] = "served"
  <2> USE DEF GateInv
  <2>1. Finish(c)
    BY <1>1, OnlyFinishReturns
  <2>2. PICK o \in Outcome : \E e : Ends(c, o, e)
    BY <2>1, FinishCases, Zenon
  <2>3. PICK e : Ends(c, o, e)
    BY <2>2
  <2>4. ~Longer(deadline[w], deadline[c])
    BY <1>1 DEF LongestHolds, Holds
  <2>5. w \in Served(c, o)
    BY <1>1, <2>3, <2>4 DEF Served, Serves, Waiting, Ends
  <2> QED
    BY <1>1, <2>3, <2>5, FatesOf DEF Decided
<1>2. GateInv /\ [Next]_vars =>
        [\A c, w \in Call :
            (/\ pc[c] = "passes" /\ pc'[c] = "returned"
             /\ last' \in {"collected", "truncated", "failed"}
             /\ fate[w] = "waiting" /\ kind[w] = kind[c] /\ floor[w] < pass[c])
            => fate'[w] = "served"]_vars
  BY <1>1
<1> QED
  BY <1>2, GateAlways, PTL DEF Spec, NobodyLeftBehind

\* Only the end of a pass elects.
LEMMA OnlyFinishElects ==
    ASSUME TypeOK, NEW w \in Call, fate[w] = "waiting", fate'[w] = "elected", Next
    PROVE  \E c \in Call : Finish(c)
<1>1. PICK d \in Call :
         \/ EndContext(d) \/ Enter(d) \/ Uncontended(d) \/ Queue(d)
         \/ Withdraw(d) \/ Resume(d) \/ ResumeElected(d) \/ Mark(d) \/ Finish(d)
  BY DEF Next
<1>2. ~(EndContext(d) \/ Enter(d) \/ Uncontended(d) \/ ResumeElected(d) \/ Mark(d))
  BY DEF EndContext, Enter, Uncontended, ResumeElected, Mark
<1>3. ~(Queue(d) \/ Withdraw(d) \/ Resume(d))
  BY DEF TypeOK, Queue, Withdraw, Resume, Returns
<1> QED
  BY <1>1, <1>2, <1>3

\* No kind of pass overtakes an older one (electLocked).
THEOREM OldestKindFirstAlways == Spec => OldestKindFirst
<1>1. ASSUME GateInv, Next, NEW w \in Call, NEW v \in Call,
             fate[w] = "waiting", fate'[w] = "elected",
             fate[v] = "waiting", fate'[v] = "waiting", turn[v] < turn[w]
      PROVE  \E u \in Call : /\ fate[u] = "waiting" /\ fate'[u] \in {"waiting", "elected"}
                             /\ kind[u] = kind[w] /\ turn[u] <= turn[v]
  <2> USE DEF GateInv
  <2>1. PICK c \in Call : Finish(c)
    BY <1>1, OnlyFinishElects
  <2>2. PICK o \in Outcome :
          \/ Ends(c, o, {})
          \/ \E x \in Electable(Left(Served(c, o))) : Ends(c, o, {x})
    BY <2>1, FinishCases, Zenon
  <2>3. pc[c] = "passes" /\ v # c /\ w # c
    BY <1>1, <2>1 DEF Finish, Stages
  <2>4. CASE Ends(c, o, {})
    BY <1>1, <2>3, <2>4, FatesOf DEF Decided
  <2>5. CASE \E x \in Electable(Left(Served(c, o))) : Ends(c, o, {x})
    <3>1. PICK x \in Electable(Left(Served(c, o))) : Ends(c, o, {x})
      BY <2>5
    <3>2. Decided(c, o, {x})
      BY <1>1, <2>3, <3>1, FatesOf
    <3>3. w = x
      BY <1>1, <3>2 DEF Decided
    <3>4. v \in Left(Served(c, o))
      BY <1>1, <3>2 DEF Decided, Waiting
    <3>5. PICK first \in Left(Served(c, o)) :
             (\A y \in Left(Served(c, o)) : turn[first] <= turn[y]) /\ kind[x] = kind[first]
      BY DEF Electable
    <3>6. first \in Call /\ fate[first] = "waiting"
      BY DEF Left, Waiting
    <3>7. fate'[first] \in {"waiting", "elected"}
      BY <3>2, <3>6 DEF Decided, Waiting
    <3> QED
      BY <3>3, <3>4, <3>5, <3>6, <3>7
  <2> QED
    BY <2>2, <2>4, <2>5, Zenon
<1>2. GateInv /\ [Next]_vars =>
        [\A w, v \in Call :
            (/\ fate[w] = "waiting" /\ fate'[w] = "elected"
             /\ fate[v] = "waiting" /\ fate'[v] = "waiting" /\ turn[v] < turn[w])
            => \E u \in Call : /\ fate[u] = "waiting" /\ fate'[u] \in {"waiting", "elected"}
                               /\ kind[u] = kind[w] /\ turn[u] <= turn[v]]_vars
  BY <1>1
<1> QED
  BY <1>2, GateAlways, PTL DEF Spec, OldestKindFirst

\* The gate is sound for any set of calls, kinds and deadlines (serializeGC, finishGCPass, serves).
THEOREM GateSoundAlways == Spec => []GateSound
<1>1. GateHeld /\ AnsweredByLaterPass => GateSound
  BY DEF GateSound
<1> QED
  BY <1>1, GateHeldAlways, AnsweredByLaterPassAlways, PTL

\* The gate is handed on fairly for any set of calls, kinds and deadlines (finishGCPass, electLocked).
THEOREM HandedOnFairlyAlways == Spec => HandedOnFairly
  BY NobodyLeftBehindAlways, OldestKindFirstAlways DEF HandedOnFairly
=============================================================================
