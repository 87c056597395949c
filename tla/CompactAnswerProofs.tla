------------------------ MODULE CompactAnswerProofs ------------------------
(***************************************************************************)
(* The answer of a compacted SessionStart is honest, for any number of     *)
(* compactions and later events.                                           *)
(***************************************************************************)
EXTENDS CompactAnswer, FiniteSetTheorems, TLAPS

\* The shape of the starts' variables, and of the report.
StartTypes ==
    /\ route \in [Start -> {"idle", "starting", "waiting"} \cup Answers]
    /\ ticket \in [Start -> [state : {"pending", "delivered", "abandoned"},
                             carries : {"nothing", "late", "replayed", "failed", "empty", "rehydration"}]]
    /\ work \in [Start -> {"none", "refused", "building", "delivered", "late", "replayed",
                           "blank", "notBuilt", "done"}]
    /\ report = Nothing \/ report.of \in Start

\* Who settles a ticket, and with what: a live start's is settled by the rehydration or given up by the
\* route that answers with the note, a replay's is given up before the work begins.
TicketShape(s) ==
    /\ ticket[s].state = "pending" => ticket[s].carries = "nothing"
    /\ ticket[s].state = "delivered" => ticket[s].carries \in {"rehydration", "empty", "failed"}
    /\ ticket[s].state = "abandoned" => ticket[s].carries \in {"late", "replayed"}
    /\ ticket[s].carries = "late" => s[2] = "live" /\ route[s] = "note"
    /\ ticket[s].carries = "replayed" => s[2] = "replay"
    /\ s[2] = "replay" => ticket[s].state # "delivered"
    /\ s[2] = "replay" /\ route[s] # "idle" => ticket[s].state = "abandoned"

\* What the rehydration knows of the ticket.
WorkShape(s) ==
    /\ route[s] = "idle" => work[s] = "none"
    /\ work[s] \in {"none", "refused", "building"} => ticket[s].state # "delivered"
    /\ work[s] = "delivered" => ticket[s].carries = "rehydration"
    /\ work[s] = "late" => ticket[s].carries = "late"
    /\ work[s] = "replayed" => ticket[s].carries = "replayed"

\* What a live start was answered with follows from its ticket for good.
AnswerShape(s) ==
    s[2] = "live" /\ route[s] \in Answers =>
        /\ ticket[s].state = "delivered" => route[s] = result(ticket[s])
        /\ ticket[s].state = "abandoned" => route[s] = "note"
        /\ ticket[s].state = "pending" => route[s] = "note" /\ work[s] = "refused"

\* What the drop report says was read off the ticket it names.
ReportShape ==
    /\ report.says = "delivered" => report.of \in Start /\ ticket[report.of].carries = "rehydration"
    /\ report.says = "late" => report.of \in Start /\ ticket[report.of].carries = "late"
    /\ report.says = "replayed" => report.of \in Start /\ ticket[report.of].carries = "replayed"

StartInv ==
    /\ StartTypes
    /\ \A s \in Start : TicketShape(s) /\ WorkShape(s) /\ AnswerShape(s)
    /\ ReportShape

LEMMA StartInvInit == AnswerInit => StartInv
BY DEF AnswerInit, StartInv, StartTypes, TicketShape, WorkShape, AnswerShape, ReportShape, Answers,
       Nothing

LEMMA StartInvStep ==
    ASSUME StartInv, NEW s \in Start,
           \/ startCompactAnswer(s) \/ begin(s) \/ BooksDone(s)
           \/ OnCompactBuilds(s) \/ OnCompactEmpty(s) \/ notBuilt(s) \/ Record(s)
           \/ AnswerAtOnce(s) \/ AnswerReady(s) \/ AnswerDue(s)
    PROVE  StartInv'
<1> USE DEF StartInv, StartTypes, TicketShape, WorkShape, AnswerShape, ReportShape, Answers
<1>0. s[2] \in {"live", "replay"}
  BY DEF Start
<1>1. CASE startCompactAnswer(s)
  BY <1>0, <1>1 DEF startCompactAnswer, abandon
<1>2. CASE begin(s)
  BY <1>0, <1>2 DEF begin
<1>3. CASE BooksDone(s)
  BY <1>3 DEF BooksDone
<1>4. CASE OnCompactBuilds(s)
  BY <1>0, <1>4 DEF OnCompactBuilds, settle
<1>5. CASE OnCompactEmpty(s)
  BY <1>0, <1>5 DEF OnCompactEmpty, settle
<1>6. CASE notBuilt(s)
  BY <1>0, <1>6 DEF notBuilt, settle
<1>7. CASE Record(s)
  BY <1>0, <1>7 DEF Record
<1>8. CASE AnswerAtOnce(s)
  BY <1>0, <1>8 DEF AnswerAtOnce, AnswerWith
<1>9. CASE AnswerReady(s)
  BY <1>0, <1>9 DEF AnswerReady, AnswerWith, result
<1>10. CASE AnswerDue(s)
  <2>1. CASE ticket[s].state = "pending"
    <3>1. /\ ticket' = [ticket EXCEPT ![s] = [state |-> "abandoned", carries |-> "late"]]
          /\ route' = [route EXCEPT ![s] = "note"] /\ UNCHANGED <<work, report>> /\ s[2] = "live"
          /\ route[s] = "waiting"
      BY <1>10, <2>1 DEF AnswerDue, AnswerWith, abandon
    <3>2. StartTypes'
      BY <3>1
    <3>3. \A r \in Start : r # s => ticket'[r] = ticket[r] /\ route'[r] = route[r]
      BY <3>1
    <3>4. ticket'[s] = [state |-> "abandoned", carries |-> "late"] /\ route'[s] = "note"
      BY <3>1
    <3>5. \A r \in Start : TicketShape(r)' /\ WorkShape(r)' /\ AnswerShape(r)'
      BY <2>1, <3>1, <3>3, <3>4
    <3>6. ReportShape'
      BY <2>1, <3>1, <3>3
    <3> QED
      BY <3>2, <3>5, <3>6
  <2>2. CASE ticket[s].state = "delivered"
    <3>1. /\ ticket' = ticket /\ route' = [route EXCEPT ![s] = result(ticket[s])]
          /\ UNCHANGED <<work, report>> /\ s[2] = "live" /\ route[s] = "waiting"
      BY <1>10, <2>2, Zenon DEF AnswerDue, AnswerWith, abandon
    <3> QED
      BY <2>2, <3>1 DEF result
  <2>3. ticket[s].state # "abandoned"
    BY <1>10 DEF AnswerDue
  <2> QED
    BY <2>1, <2>2, <2>3, Zenon
<1> QED
  BY <1>1, <1>2, <1>3, <1>4, <1>5, <1>6, <1>7, <1>8, <1>9, <1>10, Zenon

\* The gate counts the bookkeepings that run.
Running == {s \in Start : books[s] = "running"}
GateCounts == holders = Cardinality(Running)

\* An event owes nothing to a bookkeeping that still runs, unless it waits at the gate or was cut.
EventShape(e) ==
    /\ event[e].after \subseteq {s \in Start : books[s] \in {"running", "done"}}
    /\ event[e].state \in {"free", "ran"} /\ ~event[e].cut
          => \A s \in event[e].after : books[s] = "done"

GateInv ==
    /\ books \in [Start -> {"none", "refused", "running", "done"}]
    /\ event \in [Event -> [state : {"idle", "waits", "free", "ran"}, after : SUBSET Start, cut : BOOLEAN]]
    /\ GateCounts
    /\ \A e \in Event : EventShape(e)
    /\ \A s \in Start : route[s] \in {"idle", "starting"} => books[s] = "none"

LEMMA StartFinite == IsFiniteSet(Start)
<1>1. IsFiniteSet(Compaction)
  BY CompactAnswerAssumption, FS_Interval DEF Compaction
<1>2. IsFiniteSet({"live", "replay"})
  <2>1. IsFiniteSet({"live"}) /\ {"live"} \cup {"replay"} = {"live", "replay"}
    BY FS_Singleton
  <2> QED
    BY <2>1, FS_AddElement
<1> QED
  BY <1>1, <1>2, FS_Product DEF Start

LEMMA RunningCounted ==
    /\ IsFiniteSet(Running) /\ Cardinality(Running) \in Nat
    /\ Cardinality(Running) = 0 <=> Running = {}
<1>1. Running \in SUBSET Start
  BY DEF Running
<1>2. IsFiniteSet(Running)
  BY <1>1, StartFinite, FS_Subset
<1> QED
  BY <1>2, FS_CardinalityType, FS_EmptySet

LEMMA GateInvInit == AnswerInit => GateInv
<1> SUFFICES ASSUME AnswerInit PROVE GateInv
  OBVIOUS
<1>1. Running = {} /\ holders = 0
  BY DEF AnswerInit, Running
<1>2. GateCounts
  BY <1>1, FS_EmptySet DEF GateCounts
<1>3. event \in [Event -> [state : {"idle", "waits", "free", "ran"}, after : SUBSET Start, cut : BOOLEAN]]
  BY DEF AnswerInit, Quiet
<1> QED
  BY <1>2, <1>3 DEF AnswerInit, GateInv, EventShape, Quiet, Answers

LEMMA GateInvStep ==
    ASSUME StartTypes, GateInv, [AnswerNext]_answerVars
    PROVE  GateInv'
<1> USE DEF GateInv
<1>0. route \in [Start -> {"idle", "starting", "waiting"} \cup Answers]
  BY DEF StartTypes
<1>1. ASSUME NEW s \in Start, begin(s) PROVE GateInv'
  <2>1. /\ books[s] = "none" /\ event' = event
        /\ \A r \in Start : route'[r] \in {"idle", "starting"} => r # s /\ route[r] \in {"idle", "starting"}
    BY <1>0, <1>1 DEF begin
  <2>a. \A e \in Event : s \notin event[e].after
    BY <2>1 DEF EventShape
  <2>2. CASE closed
    <3>1. books' = [books EXCEPT ![s] = "refused"] /\ holders' = holders
      BY <1>1, <2>2 DEF begin
    <3>2. Running' = Running
      BY <2>1, <3>1 DEF Running
    <3>3. \A e \in Event : EventShape(e)'
      BY <2>1, <2>a, <3>1 DEF EventShape
    <3> QED
      BY <2>1, <3>1, <3>2, <3>3 DEF GateCounts
  <2>3. CASE ~closed
    <3>1. books' = [books EXCEPT ![s] = "running"] /\ holders' = holders + 1
      BY <1>1, <2>3 DEF begin
    <3>2. Running' = Running \cup {s} /\ s \notin Running
      BY <2>1, <3>1 DEF Running
    <3>3. Cardinality(Running') = Cardinality(Running) + 1
      BY <3>2, RunningCounted, FS_AddElement, Zenon
    <3>4. \A e \in Event : EventShape(e)'
      BY <2>1, <2>a, <3>1 DEF EventShape
    <3> QED
      BY <2>1, <3>1, <3>3, <3>4 DEF GateCounts
  <2> QED
    BY <2>2, <2>3
<1>2. ASSUME NEW s \in Start, BooksDone(s) PROVE GateInv'
  <2>1. /\ books[s] = "running" /\ books' = [books EXCEPT ![s] = "done"] /\ route' = route
        /\ s \in Running
    BY <1>2 DEF BooksDone, Running
  <2>2. Running' = Running \ {s}
    BY <2>1 DEF Running
  <2>3. Cardinality(Running') = Cardinality(Running) - 1 /\ Cardinality(Running) \in Nat
    BY <2>1, <2>2, RunningCounted, FS_RemoveElement, Zenon
  <2>4. Cardinality(Running) > 0
    BY <2>1, RunningCounted
  <2>5. GateCounts'
    BY <1>2, <2>3, <2>4 DEF BooksDone, GateCounts
  <2>6. CASE holders' = 0
    <3>1. Running' = {}
      <4>1. Running' \in SUBSET Running
        BY <2>2
      <4>2. IsFiniteSet(Running') /\ Cardinality(Running') = 0
        BY <2>5, <2>6, <4>1, RunningCounted, FS_Subset DEF GateCounts
      <4> QED
        BY <4>2, FS_EmptySet
    <3>2. \A r \in Start : books'[r] # "running"
      BY <3>1 DEF Running
    <3>3. event' = [e \in Event |-> IF event[e].state = "waits"
                                    THEN [event[e] EXCEPT !.state = "free"] ELSE event[e]]
      BY <1>2, <2>6 DEF BooksDone
    <3>4. event' \in [Event -> [state : {"idle", "waits", "free", "ran"}, after : SUBSET Start, cut : BOOLEAN]]
      BY <3>3
    <3>5. \A e \in Event : EventShape(e)'
      BY <2>1, <3>2, <3>3 DEF EventShape
    <3> QED
      BY <2>1, <2>5, <3>4, <3>5
  <2>7. CASE holders' # 0
    <3>1. event' = event
      BY <1>2, <2>7 DEF BooksDone
    <3> QED
      BY <2>1, <2>5, <3>1 DEF EventShape
  <2> QED
    BY <2>6, <2>7
<1>3. ASSUME NEW e \in Event, EventComes(e) PROVE GateInv'
  <2>1. /\ UNCHANGED <<route, books, holders>>
        /\ event' = [event EXCEPT ![e] =
                      [state |-> IF holders = 0 THEN "free" ELSE "waits",
                       after |-> {s \in Start : route[s] \in Answers /\ books[s] = "running"},
                       cut |-> FALSE]]
    BY <1>3 DEF EventComes
  <2>2. GateCounts'
    BY <2>1 DEF GateCounts, Running
  <2>3. holders = 0 => {s \in Start : route[s] \in Answers /\ books[s] = "running"} = {}
    BY RunningCounted DEF GateCounts, Running
  <2>4. event' \in [Event -> [state : {"idle", "waits", "free", "ran"}, after : SUBSET Start, cut : BOOLEAN]]
    BY <2>1
  <2>5. \A f \in Event : EventShape(f)'
    BY <2>1, <2>3 DEF EventShape
  <2> QED
    BY <2>1, <2>2, <2>4, <2>5
<1>4. ASSUME NEW e \in Event, EventCut(e) \/ EventRuns(e) PROVE GateInv'
  <2>1. UNCHANGED <<route, books, holders>>
    BY <1>4 DEF EventCut, EventRuns
  <2>2. /\ \A f \in Event : f # e => event'[f] = event[f]
        /\ event'[e].after = event[e].after
        /\ event'[e].cut \/ (event'[e].cut = event[e].cut /\ event[e].state = "free")
    <3>1. CASE EventCut(e)
      BY <3>1 DEF EventCut
    <3>2. CASE EventRuns(e)
      BY <3>2 DEF EventRuns
    <3> QED
      BY <1>4, <3>1, <3>2
  <2>3. event' \in [Event -> [state : {"idle", "waits", "free", "ran"}, after : SUBSET Start, cut : BOOLEAN]]
    <3>1. CASE EventCut(e)
      BY <3>1, Zenon DEF EventCut
    <3>2. CASE EventRuns(e)
      BY <3>2 DEF EventRuns
    <3> QED
      BY <1>4, <3>1, <3>2
  <2>4. \A f \in Event : EventShape(f)'
    BY <2>1, <2>2 DEF EventShape
  <2> QED
    BY <2>1, <2>3, <2>4 DEF GateCounts, Running
<1>5. ASSUME UNCHANGED <<books, holders, event>>,
             \A s \in Start : route'[s] \in {"idle", "starting"} => route[s] \in {"idle", "starting"}
      PROVE  GateInv'
  BY <1>5 DEF GateCounts, Running, EventShape
<1>6. ASSUME NEW s \in Start,
             \/ startCompactAnswer(s) \/ OnCompactBuilds(s) \/ OnCompactEmpty(s) \/ notBuilt(s)
             \/ Record(s) \/ AnswerAtOnce(s) \/ AnswerReady(s) \/ AnswerDue(s)
      PROVE  GateInv'
  <2>1. UNCHANGED <<books, holders, event>>
    BY <1>6 DEF startCompactAnswer, OnCompactBuilds, OnCompactEmpty, notBuilt, Record, AnswerAtOnce,
       AnswerReady, AnswerDue
  <2>2. \/ route' = route
        \/ route[s] = "idle" /\ route' = [route EXCEPT ![s] = "starting"]
        \/ \E out \in {"note", "empty", "failed", "late", "replayed", "nothing", "rehydration"} :
              route' = [route EXCEPT ![s] = out]
    BY <1>6 DEF StartTypes, startCompactAnswer, OnCompactBuilds, OnCompactEmpty, notBuilt, Record,
       AnswerAtOnce, AnswerReady, AnswerDue, AnswerWith, result, abandon
  <2> QED
    BY <1>0, <1>5, <2>1, <2>2
<1> QED
  BY <1>1, <1>2, <1>3, <1>4, <1>5, <1>6 DEF AnswerNext, HookAsks, HookGivesUp, StopWork, answerVars

LEMMA AnswerInvAlways == AnswerSpec => [](StartInv /\ GateInv)
<1>1. StartInv /\ [AnswerNext]_answerVars => StartInv'
  <2> SUFFICES ASSUME StartInv, [AnswerNext]_answerVars PROVE StartInv'
    OBVIOUS
  <2>1. CASE UNCHANGED <<route, ticket, work, report>>
    BY <2>1 DEF StartInv, StartTypes, TicketShape, WorkShape, AnswerShape, ReportShape
  <2>2. ASSUME NEW c \in Compaction, HookAsks(c) \/ HookGivesUp(c)
        PROVE  UNCHANGED <<route, ticket, work, report>>
    BY <2>2 DEF HookAsks, HookGivesUp
  <2>3. ASSUME NEW e \in Event, EventComes(e) \/ EventCut(e) \/ EventRuns(e)
        PROVE  UNCHANGED <<route, ticket, work, report>>
    BY <2>3 DEF EventComes, EventCut, EventRuns
  <2>4. StopWork \/ UNCHANGED answerVars => UNCHANGED <<route, ticket, work, report>>
    BY DEF StopWork, answerVars
  <2> QED
    BY <2>1, <2>2, <2>3, <2>4, StartInvStep DEF AnswerNext
<1>2. StartInv /\ GateInv /\ [AnswerNext]_answerVars => GateInv'
  BY GateInvStep DEF StartInv
<1> QED
  BY <1>1, <1>2, StartInvInit, GateInvInit, PTL DEF AnswerSpec

\* For any number of compactions and events: the drop report says what the route did, a live start is
\* answered with nothing only if the rehydration had nothing to send, and an event that follows an
\* answered start runs after its bookkeeping (compactTicket, awaitCompactAnswer, compactGates).
THEOREM CompactionHonestAlways == AnswerSpec => []CompactionHonest
<1>1. StartInv /\ GateInv => CompactionHonest
  <2> SUFFICES ASSUME StartInv, GateInv PROVE CompactionHonest
    OBVIOUS
  <2>1. ReportIsTrue
    <3>0. \A s \in Start : s[2] \in {"live", "replay"}
      BY DEF Start
    <3> QED
      BY <3>0 DEF StartInv, StartTypes, TicketShape, WorkShape, AnswerShape, ReportShape, ReportIsTrue,
         result, Answers
  <2>2. NeverSilent
    BY DEF StartInv, StartTypes, TicketShape, AnswerShape, NeverSilent, result, Answers
  <2>3. EventsAfterBooks
    BY DEF GateInv, EventShape, EventsAfterBooks
  <2> QED
    BY <2>1, <2>2, <2>3 DEF CompactionHonest
<1> QED
  BY <1>1, AnswerInvAlways, PTL
=============================================================================
