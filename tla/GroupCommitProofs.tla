------------------------- MODULE GroupCommitProofs -------------------------
(***************************************************************************)
(* One batch at a time, for any set of callers and any caps.               *)
(***************************************************************************)
EXTENDS GroupCommit, SequenceTheorems, FiniteSetTheorems, TLAPS

\* What makes OneLeader inductive: the queue holds parked requests, each
\* once, and only its head may have been elected.
QueuedOnce == \A i, j \in 1..Len(queue) : queue[i] = queue[j] => i = j
QueuedWait == \A i \in 1..Len(queue) : at[queue[i]] \in {"parked", "elected"}
ElectedHeads == \A r \in Req : (at[r] = "elected" \/ (at[r] = "parked" /\ r \in lead))
                                  => queue # <<>> /\ queue[1] = r
IdleUnelected == \A r \in Req : at[r] = "idle" => r \notin lead

\* A request that has been cut into a batch, or is about to be released or has
\* been, is out of the queue, unless it is the elected head.
InBatch(x) == \E r \in Req : /\ at[r] \in {"commit", "handoff"}
                             /\ \E k \in 1..Len(batch[r]) : batch[r][k] = x
ToRelease(x) == \E r \in Req : \E k \in 1..Len(toClose[r]) : toClose[r][k] = x
Resolved(x) == x \in done \/ InBatch(x) \/ ToRelease(x)

ResolvedLeft == \A x \in Req : Resolved(x) =>
                    /\ at[x] # "idle"
                    /\ x \in lead \/ \A i \in 1..Len(queue) : queue[i] # x

Leadership == /\ QueueTypeOK /\ OneLeader
              /\ QueuedOnce /\ QueuedWait /\ ElectedHeads /\ IdleUnelected /\ ResolvedLeft

\* An empty queue that nobody leads.
LEMMA LeadershipInit == QueueInit => Leadership
<1> SUFFICES ASSUME QueueInit PROVE Leadership
  OBVIOUS
<1>0. leading \in BOOLEAN
  BY Zenon DEF QueueInit
<1>1. QueueTypeOK
  BY <1>0 DEF QueueInit, QueueTypeOK, Places
<1>2. Leaders = {}
  BY DEF QueueInit, Leaders
<1>3. ResolvedLeft
  BY DEF QueueInit, ResolvedLeft, Resolved, InBatch, ToRelease
<1> QED
  BY <1>1, <1>2, <1>3 DEF QueueInit, Leadership, OneLeader, QueuedOnce, QueuedWait, ElectedHeads, IdleUnelected

\* What a cut leaves: a nonempty batch and the rest of the queue, still in order.
CutBy(q, r, n) ==
    /\ batch' = [batch EXCEPT ![r] = SubSeq(q, 1, n)]
    /\ SubSeq(q, 1, n) \in Seq(Req)
    /\ SubSeq(q, 1, n) # <<>>
    /\ queue' \in Seq(Req)
    /\ Len(queue') = Len(q) - n
    /\ \A i \in 1..Len(queue') : queue'[i] = q[i + n]
    /\ at' = [at EXCEPT ![r] = "commit"]

\* cutLocked takes a nonempty prefix: the head always goes, whatever its size.
LEMMA CutShape ==
    ASSUME NEW q \in Seq(Req), NEW r \in Req, Cut(r, q)
    PROVE  \E n \in 1..Len(q) : CutBy(q, r, n)
<1>1. PICK n \in 0..Len(q) : /\ IsCut(q, n)
                             /\ batch' = [batch EXCEPT ![r] = SubSeq(q, 1, n)]
                             /\ queue' = SubSeq(q, n + 1, Len(q))
  BY Zenon DEF Cut
<1>2. n \in 1..Len(q)
  BY <1>1 DEF IsCut
<1>3. at' = [at EXCEPT ![r] = "commit"]
  BY DEF Cut
<1>4. SubSeq(q, 1, n) \in Seq(Req) /\ SubSeq(q, 1, n) # <<>>
  BY <1>2
<1>5. /\ queue' \in Seq(Req)
      /\ Len(queue') = Len(q) - n
      /\ \A i \in 1..Len(queue') : queue'[i] = q[i + n]
  BY <1>1, <1>2
<1> QED
  BY <1>1, <1>2, <1>3, <1>4, <1>5, Zenon DEF CutBy

\* Every step of run, cutLocked and handoff keeps the inductive invariant.
LEMMA LeadershipStep ==
    ASSUME Leadership, [QueueNext]_queueVars
    PROVE  Leadership'
<1> USE DEF Leadership
<1>0. \A i \in 1..Len(queue) : queue[i] \in Req
  BY DEF QueueTypeOK
<1>1. ASSUME NEW r \in Req, EnqueueFollower(r) PROVE Leadership'
  <2>1. queue \in Seq(Req) /\ queue' = Append(queue, r) /\ at[r] = "idle"
    BY <1>1 DEF EnqueueFollower, QueueTypeOK
  <2>2. QueueTypeOK'
    BY <1>1 DEF EnqueueFollower, QueueTypeOK, Places
  <2>3. Leaders' = Leaders
    BY <1>1 DEF EnqueueFollower, QueueTypeOK, Leaders, Places, IdleUnelected
  <2>4. OneLeader'
    BY <1>1, <2>3 DEF EnqueueFollower, OneLeader
  <2>5. \A i \in 1..Len(queue) : queue[i] # r
    BY <2>1 DEF QueuedWait
  <2>6. QueuedOnce'
    BY <2>1, <2>5 DEF QueuedOnce
  <2>7. QueuedWait'
    BY <1>1, <2>1, <2>5 DEF EnqueueFollower, QueueTypeOK, QueuedWait
  <2>8. queue # <<>> => queue' # <<>> /\ queue'[1] = queue[1]
    BY <2>1
  <2>9. ElectedHeads' /\ IdleUnelected'
    BY <1>1, <2>8, Zenon DEF EnqueueFollower, QueueTypeOK, ElectedHeads, IdleUnelected
  <2>10. \A x \in Req : Resolved(x)' => Resolved(x)
    BY <1>1 DEF EnqueueFollower, QueueTypeOK, Resolved, InBatch, ToRelease
  <2>a. \A i \in 1..Len(queue') : queue'[i] = r \/ (i \in 1..Len(queue) /\ queue'[i] = queue[i])
    BY <2>1
  <2>b. ~Resolved(r)
    BY <2>1 DEF ResolvedLeft
  <2>c. lead' = lead /\ \A x \in Req : at[x] # "idle" => at'[x] # "idle"
    BY <1>1 DEF EnqueueFollower, QueueTypeOK
  <2>11. ResolvedLeft'
    BY <2>10, <2>a, <2>b, <2>c DEF ResolvedLeft
  <2> QED
    BY <2>2, <2>4, <2>6, <2>7, <2>9, <2>11
<1>2. ASSUME NEW r \in Req, EnqueueLeader(r) PROVE Leadership'
  <2>1. queue = <<>> /\ Leaders = {} /\ at[r] = "idle"
    BY <1>2 DEF EnqueueLeader, OneLeader
  <2>2. Append(queue, r) = <<r>> /\ <<r>> \in Seq(Req) /\ Len(<<r>>) = 1
    BY <2>1
  <2>3. Cut(r, <<r>>)
    BY <1>2, <2>2 DEF EnqueueLeader
  <2>4. PICK n \in 1..Len(<<r>>) : CutBy(<<r>>, r, n)
    BY <2>2, <2>3, CutShape, Zenon
  <2>5. queue' = <<>>
    BY <2>4, <2>2 DEF CutBy
  <2>6. leading' \in BOOLEAN
    BY <1>2 DEF EnqueueLeader
  <2>7. QueueTypeOK'
    BY <1>2, <2>4, <2>6, Zenon DEF EnqueueLeader, QueueTypeOK, Places, CutBy
  <2>8. Leaders' = {r}
    BY <1>2, <2>1, <2>4 DEF EnqueueLeader, QueueTypeOK, Leaders, CutBy
  <2>9. OneLeader'
    BY <1>2, <2>5, <2>8 DEF EnqueueLeader, OneLeader
  <2>10. QueuedOnce' /\ QueuedWait'
    BY <2>5 DEF QueuedOnce, QueuedWait
  <2>11. ElectedHeads' /\ IdleUnelected'
    BY <1>2, <2>1, <2>4 DEF EnqueueLeader, QueueTypeOK, Leaders, ElectedHeads, IdleUnelected, CutBy
  <2>12. \A k \in 1..Len(SubSeq(<<r>>, 1, n)) : SubSeq(<<r>>, 1, n)[k] = r
    BY <2>2
  <2>13. \A x \in Req : Resolved(x)' => Resolved(x) \/ x = r
    <3>1. \A y \in Req : y # r => at'[y] = at[y] /\ batch'[y] = batch[y]
      BY <2>4 DEF QueueTypeOK, CutBy
    <3>2. batch'[r] = SubSeq(<<r>>, 1, n)
      BY <2>4 DEF QueueTypeOK, CutBy
    <3>3. \A x \in Req : InBatch(x)' => InBatch(x) \/ x = r
      BY <2>12, <3>1, <3>2 DEF InBatch
    <3>4. done' = done /\ toClose' = toClose
      BY <1>2 DEF EnqueueLeader
    <3>5. \A x \in Req : ToRelease(x)' <=> ToRelease(x)
      BY <3>4 DEF ToRelease
    <3> QED
      BY <3>3, <3>4, <3>5 DEF Resolved
  <2>14. ResolvedLeft'
    BY <2>4, <2>5, <2>13 DEF QueueTypeOK, ResolvedLeft, CutBy
  <2> QED
    BY <2>7, <2>9, <2>10, <2>11, <2>14
<1>3. ASSUME NEW r \in Req, Wake(r) PROVE Leadership'
  <2>1. QueueTypeOK'
    BY <1>3 DEF Wake, QueueTypeOK, Places
  <2>2. Leaders' = Leaders
    BY <1>3 DEF Wake, QueueTypeOK, Leaders
  <2>3. OneLeader'
    BY <1>3, <2>2 DEF Wake, OneLeader
  <2>4. QueuedOnce'
    BY <1>3 DEF Wake, QueuedOnce
  <2>5. QueuedWait'
    BY <1>0, <1>3 DEF Wake, QueueTypeOK, QueuedWait, ResolvedLeft, Resolved
  <2>6. ElectedHeads' /\ IdleUnelected'
    BY <1>3 DEF Wake, QueueTypeOK, ElectedHeads, IdleUnelected
  <2>7. \A x \in Req : Resolved(x)' => Resolved(x)
    BY <1>3 DEF Wake, QueueTypeOK, Resolved, InBatch, ToRelease
  <2>8. ResolvedLeft'
    BY <1>3, <2>7 DEF Wake, QueueTypeOK, ResolvedLeft
  <2> QED
    BY <2>1, <2>3, <2>4, <2>5, <2>6, <2>8
<1>4. ASSUME NEW r \in Req, CutElected(r) PROVE Leadership'
  <2>a. at[r] = "elected" /\ queue \in Seq(Req)
    BY <1>4 DEF CutElected, QueueTypeOK
  <2>b. queue # <<>> /\ queue[1] = r
    BY <2>a DEF ElectedHeads
  <2>c. r \in Leaders
    BY <2>a DEF Leaders
  <2>d. Leaders = {r} /\ leading
    BY <2>c DEF OneLeader
  <2>1. queue \in Seq(Req) /\ queue # <<>> /\ queue[1] = r /\ Leaders = {r} /\ leading
    BY <2>a, <2>b, <2>d
  <2>2. PICK n \in 1..Len(queue) : CutBy(queue, r, n)
    BY <1>4, <2>1, CutShape DEF CutElected
  <2>3. QueueTypeOK'
    BY <1>4, <2>2, Zenon DEF CutElected, QueueTypeOK, Places, CutBy
  <2>4. Leaders' = {r}
    BY <1>4, <2>1, <2>2 DEF CutElected, QueueTypeOK, Leaders, CutBy
  <2>5. OneLeader'
    BY <1>4, <2>1, <2>4 DEF CutElected, OneLeader
  <2>6. QueuedOnce'
    BY <2>1, <2>2, SMTT(40) DEF QueuedOnce, CutBy
  <2>7. \A i \in 1..Len(queue') : i + n \in 1..Len(queue) /\ i + n # 1 /\ queue'[i] = queue[i + n]
    BY <2>1, <2>2 DEF CutBy
  <2>8. \A i \in 1..Len(queue') : queue'[i] # r
    BY <2>1, <2>7 DEF QueuedOnce
  <2>9. QueuedWait'
    BY <1>0, <2>2, <2>7, <2>8, Zenon DEF QueuedWait, QueueTypeOK, CutBy
  <2>10. ElectedHeads' /\ IdleUnelected'
    BY <1>4, <2>1, <2>2 DEF CutElected, QueueTypeOK, Leaders, ElectedHeads, IdleUnelected, CutBy
  <2>11. \A k \in 1..Len(SubSeq(queue, 1, n)) :
             k \in 1..Len(queue) /\ k <= n /\ SubSeq(queue, 1, n)[k] = queue[k]
    BY <2>1
  <2>12. \A x \in Req : Resolved(x)' =>
             Resolved(x) \/ \E k \in 1..Len(queue) : k <= n /\ queue[k] = x
    <3>1. batch'[r] = SubSeq(queue, 1, n) /\ done' = done /\ toClose' = toClose
      BY <1>4, <2>2 DEF CutElected, QueueTypeOK, CutBy
    <3>2. \A y \in Req : y # r => at'[y] = at[y] /\ batch'[y] = batch[y]
      BY <2>2 DEF QueueTypeOK, CutBy
    <3>3. \A x \in Req : ToRelease(x)' => ToRelease(x)
      BY <3>1 DEF ToRelease
    <3>4. \A x \in Req : InBatch(x)' =>
              InBatch(x) \/ \E k \in 1..Len(queue) : k <= n /\ queue[k] = x
      BY <3>1, <3>2, <2>11 DEF InBatch
    <3> QED
      BY <3>1, <3>3, <3>4 DEF Resolved
  <2>13. ASSUME NEW x \in Req, NEW k \in 1..Len(queue), k <= n, queue[k] = x
         PROVE  at[x] # "idle" /\ \A i \in 1..Len(queue') : queue'[i] # x
    BY <2>1, <2>7, <2>13 DEF QueuedOnce, QueuedWait
  <2>14. \A x \in Req : (\A i \in 1..Len(queue) : queue[i] # x)
                          => \A i \in 1..Len(queue') : queue'[i] # x
    BY <2>7, Zenon
  <2>15. \A x \in Req : at[x] # "idle" => at'[x] # "idle"
    BY <2>2 DEF QueueTypeOK, CutBy
  <2>16. lead' = lead
    BY <1>4 DEF CutElected
  <2>17. ResolvedLeft'
    BY <2>12, <2>13, <2>14, <2>15, <2>16 DEF ResolvedLeft
  <2> QED
    BY <2>3, <2>5, <2>6, <2>9, <2>10, <2>17
<1>5. ASSUME NEW r \in Req, Commit(r) PROVE Leadership'
  <2>0. result' \in [Req -> {"failed", "ok"}] /\ committed' \in Seq(Req)
    BY <1>5 DEF Commit, QueueTypeOK
  <2>1. QueueTypeOK'
    BY <1>5, <2>0 DEF Commit, QueueTypeOK, Places
  <2>2. Leaders' = Leaders
    BY <1>5 DEF Commit, QueueTypeOK, Leaders
  <2>3. OneLeader'
    BY <1>5, <2>2 DEF Commit, OneLeader
  <2>4. QueuedOnce'
    BY <1>5 DEF Commit, QueuedOnce
  <2>5. QueuedWait'
    BY <1>0, <1>5, Zenon DEF Commit, QueueTypeOK, QueuedWait
  <2>6. ElectedHeads' /\ IdleUnelected'
    BY <1>5 DEF Commit, QueueTypeOK, ElectedHeads, IdleUnelected
  <2>7. \A x \in Req : Resolved(x)' => Resolved(x)
    BY <1>5, Zenon DEF Commit, QueueTypeOK, Resolved, InBatch, ToRelease
  <2>8. ResolvedLeft'
    BY <1>5, <2>7 DEF Commit, QueueTypeOK, ResolvedLeft
  <2> QED
    BY <2>1, <2>3, <2>4, <2>5, <2>6, <2>8
<1>6. ASSUME NEW r \in Req, Handoff(r) PROVE Leadership'
  <2>0. r \in Leaders
    BY <1>6 DEF Handoff, Leaders
  <2>1. Leaders = {r} /\ leading
    BY <2>0 DEF OneLeader
  <2>2. Tail(batch[r]) \in Seq(Req)
    BY <1>6 DEF Handoff, QueueTypeOK
  <2>3. CASE queue # <<>>
    <3>1. Head(queue) = queue[1] /\ queue[1] \in Req /\ 1 \in 1..Len(queue) /\ queue \in Seq(Req)
      BY <2>3 DEF QueueTypeOK
    <3>2. Append(Tail(batch[r]), Head(queue)) \in Seq(Req)
      BY <2>2, <3>1
    <3>3. at[queue[1]] = "parked" /\ queue[1] # r
      BY <1>6, <2>1, <3>1 DEF Handoff, QueuedWait, Leaders
    <3>4. leading' /\ leading' \in BOOLEAN /\ queue' = queue
      BY <1>6, <2>1, <2>3 DEF Handoff
    <3>. DEFINE rest == Append(Tail(batch[r]), Head(queue))
    <3>a. /\ at' = [at EXCEPT ![r] = "closing"]
          /\ lead' = lead \cup {queue[1]}
          /\ toClose' = [toClose EXCEPT ![r] = rest]
          /\ UNCHANGED <<done, batch, result, committed>>
      BY <1>6, <2>3, <3>1 DEF Handoff
    <3>. HIDE DEF rest
    <3>5. QueueTypeOK'
      BY <3>1, <3>2, <3>4, <3>a DEF QueueTypeOK, Places, rest
    <3>6. Leaders' = {queue[1]}
      BY <2>1, <3>1, <3>3, <3>a DEF QueueTypeOK, Leaders
    <3>7. OneLeader'
      BY <3>4, <3>6 DEF OneLeader
    <3>8. QueuedOnce'
      BY <3>4 DEF QueuedOnce
    <3>9. QueuedWait'
      BY <1>0, <1>6, <3>3, <3>4, Zenon DEF Handoff, QueueTypeOK, QueuedWait
    <3>10. ElectedHeads'
      BY <2>3, <3>4, <3>6 DEF ElectedHeads, Leaders
    <3>11. IdleUnelected'
      BY <1>6, <2>3, <3>1, <3>3 DEF Handoff, QueueTypeOK, IdleUnelected
    <3>12. \A k \in 1..Len(rest) : rest[k] = queue[1] \/ \E m \in 1..Len(batch[r]) : rest[k] = batch[r][m]
      <4>1. batch[r] \in Seq(Req) /\ batch[r] # <<>>
        BY <1>6 DEF Handoff, QueueTypeOK
      <4>2. /\ Tail(batch[r]) \in Seq(Req)
            /\ Len(Tail(batch[r])) = Len(batch[r]) - 1
            /\ \A k \in 1..Len(Tail(batch[r])) : Tail(batch[r])[k] = batch[r][k + 1]
        BY <4>1
      <4> DEFINE t == Tail(batch[r])
      <4> HIDE DEF t
      <4>3. \A k \in 1..Len(Append(t, queue[1])) :
               Append(t, queue[1])[k] = queue[1] \/ (k \in 1..Len(t) /\ Append(t, queue[1])[k] = t[k])
        BY <3>1, <4>2 DEF t
      <4>4. \A k \in 1..Len(t) : k + 1 \in 1..Len(batch[r]) /\ t[k] = batch[r][k + 1]
        BY <4>1, <4>2 DEF t
      <4> QED
        BY <3>1, <4>3, <4>4 DEF rest, t
    <3>13. \A x \in Req : Resolved(x)' => Resolved(x) \/ x = queue[1]
      <4>1. \A y \in Req : y # r => at'[y] = at[y] /\ toClose'[y] = toClose[y]
        BY <1>6, <3>a DEF Handoff, QueueTypeOK
      <4>2. at[r] = "handoff" /\ toClose'[r] = rest /\ batch' = batch /\ done' = done
        BY <1>6, <3>a DEF Handoff, QueueTypeOK
      <4>3. at'[r] = "closing"
        BY <1>6, <3>a DEF Handoff, QueueTypeOK
      <4>4. \A x \in Req : InBatch(x)' => InBatch(x)
        BY <4>1, <4>2, <4>3 DEF InBatch
      <4>5. \A x \in Req : ToRelease(x)' => ToRelease(x) \/ InBatch(x) \/ x = queue[1]
        BY <4>1, <4>2, <3>12, SMTT(40) DEF InBatch, ToRelease
      <4> QED
        BY <4>2, <4>4, <4>5 DEF Resolved
    <3>14. ResolvedLeft'
      BY <1>6, <3>1, <3>3, <3>4, <3>a, <3>13, SMTT(40) DEF Handoff, QueueTypeOK, ResolvedLeft
    <3> QED
      BY <3>5, <3>7, <3>8, <3>9, <3>10, <3>11, <3>14
  <2>4. CASE queue = <<>>
    <3>1. ~leading' /\ leading' \in BOOLEAN /\ queue' = queue
      BY <1>6, <2>4, Zenon DEF Handoff
    <3>2. QueueTypeOK'
      BY <1>6, <2>2, <2>4, <3>1, Zenon DEF Handoff, QueueTypeOK, Places
    <3>3. Leaders' = {}
      BY <1>6, <2>1, <2>4 DEF Handoff, QueueTypeOK, Leaders
    <3>4. OneLeader'
      BY <2>4, <3>1, <3>3 DEF OneLeader
    <3>5. QueuedOnce' /\ QueuedWait'
      BY <2>4, <3>1 DEF QueuedOnce, QueuedWait
    <3>6. ElectedHeads' /\ IdleUnelected'
      BY <1>6, <2>4, <3>3 DEF Handoff, QueueTypeOK, ElectedHeads, IdleUnelected, Leaders
    <3>7. \A k \in 1..Len(Tail(batch[r])) : \E m \in 1..Len(batch[r]) : Tail(batch[r])[k] = batch[r][m]
      BY <1>6 DEF Handoff, QueueTypeOK
    <3>8. \A x \in Req : Resolved(x)' => Resolved(x)
      <4>1. \A y \in Req : y # r => at'[y] = at[y] /\ toClose'[y] = toClose[y]
        BY <1>6, <2>4 DEF Handoff, QueueTypeOK
      <4>2. at[r] = "handoff" /\ toClose'[r] = Tail(batch[r]) /\ batch' = batch /\ done' = done
        <5>1. toClose' = [toClose EXCEPT ![r] = Tail(batch[r])]
          BY <1>6, <2>4 DEF Handoff
        <5> QED
          BY <1>6, <5>1 DEF Handoff, QueueTypeOK
      <4>3. at'[r] = "closing"
        BY <1>6, <2>4 DEF Handoff, QueueTypeOK
      <4>4. \A x \in Req : InBatch(x)' => InBatch(x)
        BY <4>1, <4>2, <4>3 DEF InBatch
      <4>5. \A x \in Req : ToRelease(x)' => ToRelease(x) \/ InBatch(x)
        <5> DEFINE t == Tail(batch[r])
        <5>1. toClose'[r] = t /\ \A k \in 1..Len(t) : \E m \in 1..Len(batch[r]) : t[k] = batch[r][m]
          BY <3>7, <4>2
        <5> HIDE DEF t
        <5> QED
          BY <4>1, <4>2, <5>1 DEF InBatch, ToRelease
      <4> QED
        BY <4>2, <4>4, <4>5 DEF Resolved
    <3>9. ResolvedLeft'
      BY <1>6, <2>4, <3>1, <3>8 DEF Handoff, QueueTypeOK, ResolvedLeft
    <3> QED
      BY <3>2, <3>4, <3>5, <3>6, <3>9
  <2> QED
    BY <2>3, <2>4
<1>7. ASSUME NEW r \in Req, CloseDone(r) PROVE Leadership'
  <2>0. toClose' \in [Req -> Seq(Req)] /\ done' \subseteq Req
    BY <1>7 DEF CloseDone, QueueTypeOK
  <2>1. QueueTypeOK'
    BY <1>7, <2>0 DEF CloseDone, QueueTypeOK, Places
  <2>2. Leaders' = Leaders
    BY <1>7 DEF CloseDone, QueueTypeOK, Leaders
  <2>3. OneLeader' /\ QueuedOnce' /\ QueuedWait' /\ ElectedHeads' /\ IdleUnelected'
    BY <1>7, <2>2 DEF CloseDone, OneLeader, QueuedOnce, QueuedWait, ElectedHeads, IdleUnelected
  <2>4. toClose[r] \in Seq(Req) /\ Head(toClose[r]) = toClose[r][1] /\ 1 \in 1..Len(toClose[r])
    BY <1>7 DEF CloseDone, QueueTypeOK
  <2>5. \A k \in 1..Len(Tail(toClose[r])) : \E m \in 1..Len(toClose[r]) : Tail(toClose[r])[k] = toClose[r][m]
    BY <2>4
  <2>6. \A x \in Req : Resolved(x)' => Resolved(x)
    BY <1>7, <2>4, <2>5, SMTT(40) DEF CloseDone, QueueTypeOK, Resolved, InBatch, ToRelease
  <2>7. ResolvedLeft'
    BY <1>7, <2>6 DEF CloseDone, ResolvedLeft
  <2> QED
    BY <2>1, <2>3, <2>7
<1>8. ASSUME NEW r \in Req, Return(r) PROVE Leadership'
  <2>1. QueueTypeOK'
    BY <1>8 DEF Return, QueueTypeOK, Places
  <2>2. Leaders' = Leaders
    BY <1>8 DEF Return, QueueTypeOK, Leaders
  <2>3. OneLeader'
    BY <1>8, <2>2 DEF Return, OneLeader
  <2>4. QueuedOnce'
    BY <1>8 DEF Return, QueuedOnce
  <2>5. QueuedWait' /\ ElectedHeads' /\ IdleUnelected'
    BY <1>8, SMTT(40) DEF Return, QueueTypeOK, QueuedWait, ElectedHeads, IdleUnelected
  <2>6. \A x \in Req : Resolved(x)' => Resolved(x)
    BY <1>8 DEF Return, QueueTypeOK, Resolved, InBatch, ToRelease
  <2>7. ResolvedLeft'
    BY <1>8, <2>6 DEF Return, QueueTypeOK, ResolvedLeft
  <2> QED
    BY <2>1, <2>3, <2>4, <2>5, <2>7
<1>9. CASE UNCHANGED queueVars
  <2>1. QueueTypeOK'
    BY <1>9 DEF queueVars, QueueTypeOK
  <2>2. Leaders' = Leaders
    BY <1>9 DEF queueVars, Leaders
  <2>3. ResolvedLeft'
    BY <1>9 DEF queueVars, ResolvedLeft, Resolved, InBatch, ToRelease
  <2> QED
    BY <1>9, <2>1, <2>2, <2>3 DEF queueVars, OneLeader, QueuedOnce, QueuedWait, ElectedHeads, IdleUnelected
<1> QED
  BY <1>1, <1>2, <1>3, <1>4, <1>5, <1>6, <1>7, <1>8, <1>9 DEF QueueNext, Step, Finished

\* The inductive invariant holds at every moment.
LEMMA LeadershipAlways == QueueSpec => []Leadership
BY LeadershipInit, LeadershipStep, PTL DEF QueueSpec

\* Every variable of the queue and of its calls keeps its type, and a batch being committed is never
\* empty.
THEOREM TypeCorrect == QueueSpec => []QueueTypeOK
<1>1. Leadership => QueueTypeOK
  BY DEF Leadership
<1> QED
  BY <1>1, LeadershipAlways, PTL

\* At most one batch is being cut or committed, somebody leads exactly while
\* q.leading is set, and no request is ever queued without a leader: for any
\* set of concurrent callers of run and any batch caps.
THEOREM OneLeaderAlways == QueueSpec => []OneLeader
<1>1. Leadership => OneLeader
  BY DEF Leadership
<1> QED
  BY <1>1, LeadershipAlways, PTL

-----------------------------------------------------------------------------
(* Results.  The members of the batch being committed, other than its        *)
(* leader, are parked and nobody has been told to release them.              *)

BatchWaits == \A r \in Req : at[r] = "commit" =>
                 \A k \in 1..Len(batch[r]) :
                    \/ batch[r][k] = r
                    \/ /\ at[batch[r][k]] = "parked" /\ batch[r][k] \notin done
                       /\ ~ToRelease(batch[r][k])

\* Every step keeps the members of a batch waiting until their leader has
\* committed it.
LEMMA BatchWaitsStep ==
    ASSUME Leadership, BatchWaits, [QueueNext]_queueVars
    PROVE  BatchWaits'
<1> USE DEF Leadership
<1>0. \A r \in Req : batch[r] \in Seq(Req) /\ \A k \in 1..Len(batch[r]) : batch[r][k] \in Req
  BY DEF QueueTypeOK
\* A step that leaves batch, done and toClose alone, and neither starts a
\* commit nor moves a parked member of a batch.
<1>a. ASSUME UNCHANGED <<batch, done, toClose>>,
             \A r \in Req : at'[r] = "commit" => at[r] = "commit",
             \A x \in Req : at[x] = "parked" /\ x \notin done => at'[x] = "parked"
      PROVE  BatchWaits'
  <2>1. \A x : ToRelease(x)' <=> ToRelease(x)
    BY <1>a DEF ToRelease
  <2> QED
    BY <1>0, <1>a, <2>1 DEF BatchWaits
<1>1. ASSUME NEW r \in Req, EnqueueFollower(r) PROVE BatchWaits'
  BY <1>1, <1>a DEF EnqueueFollower, QueueTypeOK
<1>2. ASSUME NEW r \in Req, EnqueueLeader(r) PROVE BatchWaits'
  <2>1. queue = <<>> /\ Leaders = {}
    BY <1>2 DEF EnqueueLeader, OneLeader
  <2>2. Append(queue, r) = <<r>> /\ <<r>> \in Seq(Req) /\ Len(<<r>>) = 1
    BY <2>1
  <2>3. PICK n \in 1..Len(<<r>>) : CutBy(<<r>>, r, n)
    BY <1>2, <2>2, CutShape, Zenon DEF EnqueueLeader
  <2>4. \A k \in 1..Len(SubSeq(<<r>>, 1, n)) : SubSeq(<<r>>, 1, n)[k] = r
    BY <2>2
  <2>5. batch'[r] = SubSeq(<<r>>, 1, n) /\ \A y \in Req : y # r => at'[y] = at[y]
    BY <2>3 DEF CutBy, QueueTypeOK
  <2>6. \A y \in Req : at[y] # "commit"
    BY <2>1 DEF Leaders
  <2> QED
    BY <2>4, <2>5, <2>6 DEF BatchWaits
<1>3. ASSUME NEW r \in Req, Wake(r) PROVE BatchWaits'
  BY <1>3, <1>a DEF Wake, QueueTypeOK
<1>4. ASSUME NEW r \in Req, CutElected(r) PROVE BatchWaits'
  <2>1. queue \in Seq(Req) /\ at[r] = "elected" /\ UNCHANGED <<done, toClose>>
    BY <1>4 DEF CutElected, QueueTypeOK
  <2>2. queue # <<>> /\ queue[1] = r
    BY <2>1 DEF ElectedHeads
  <2>3. \A y \in Req : y # r => at[y] # "commit"
    BY <2>1 DEF OneLeader, Leaders
  <2>4. PICK n \in 1..Len(queue) : CutBy(queue, r, n)
    BY <1>4, <2>1, CutShape DEF CutElected
  <2>5. batch'[r] = SubSeq(queue, 1, n) /\ \A y \in Req : y # r => at'[y] = at[y]
    BY <2>4 DEF CutBy, QueueTypeOK
  <2>6. \A k \in 1..Len(SubSeq(queue, 1, n)) :
            k \in 1..Len(queue) /\ SubSeq(queue, 1, n)[k] = queue[k] /\ queue[k] \in Req
    BY <2>1
  <2>7. ASSUME NEW k \in 1..Len(queue), queue[k] # r, queue[k] \in Req
        PROVE  at[queue[k]] = "parked" /\ queue[k] \notin done /\ ~ToRelease(queue[k])
    <3>1. at[queue[k]] = "parked" /\ queue[k] \notin lead
      BY <2>2, <2>7 DEF QueuedWait, ElectedHeads
    <3>2. ~Resolved(queue[k])
      BY <2>7, <3>1 DEF ResolvedLeft
    <3> QED
      BY <3>1, <3>2 DEF Resolved
  <2>8. ASSUME NEW y \in Req, at'[y] = "commit", NEW k \in 1..Len(batch'[y]), NEW x \in Req,
               x = batch'[y][k]
        PROVE  x = r \/ (at'[x] = "parked" /\ x \notin done' /\ ~ToRelease(x))
    <3>1. y = r
      BY <2>3, <2>5, <2>8
    <3>2. k \in 1..Len(queue) /\ x = queue[k]
      BY <2>5, <2>6, <2>8, <3>1
    <3>3. CASE x # r
      BY <2>1, <2>5, <2>7, <3>2, <3>3
    <3> QED
      BY <3>3
  <2>9. \A y \in Req : at'[y] = "commit" =>
            y = r /\ \A k \in 1..Len(batch'[y]) : batch'[y][k] \in Req
    BY <2>3, <2>5, <2>6
  <2>10. toClose' = toClose
    BY <2>1
  <2>11. \A x : ToRelease(x)' <=> ToRelease(x)
    BY <2>10 DEF ToRelease
  <2>12. ASSUME NEW y \in Req, at'[y] = "commit", NEW k \in 1..Len(batch'[y])
         PROVE  \E x \in Req :
                   /\ x = batch'[y][k]
                   /\ \/ x = y
                      \/ at'[x] = "parked" /\ x \notin done' /\ ~ToRelease(x)'
    BY <2>8, <2>9, <2>11, <2>12
  <2> QED
    BY <2>12 DEF BatchWaits, ToRelease
<1>5. ASSUME NEW r \in Req, Commit(r) PROVE BatchWaits'
  BY <1>5, <1>a DEF Commit, QueueTypeOK
<1>6. ASSUME NEW r \in Req, Handoff(r) PROVE BatchWaits'
  <2>1. \A y \in Req : at[y] # "commit"
    BY <1>6 DEF Handoff, OneLeader, Leaders
  <2>2. \A y \in Req : at'[y] # "commit"
    BY <1>6, <2>1 DEF Handoff, QueueTypeOK
  <2> QED
    BY <2>2 DEF BatchWaits
<1>7. ASSUME NEW r \in Req, CloseDone(r) PROVE BatchWaits'
  <2>1. /\ toClose[r] \in Seq(Req) /\ 1 \in 1..Len(toClose[r])
        /\ done' = done \cup {toClose[r][1]} /\ toClose'[r] = Tail(toClose[r])
        /\ \A y \in Req : y # r => toClose'[y] = toClose[y]
        /\ UNCHANGED <<at, batch>>
    BY <1>7 DEF CloseDone, QueueTypeOK
  <2>2. \A k \in 1..Len(Tail(toClose[r])) :
            \E m \in 1..Len(toClose[r]) : Tail(toClose[r])[k] = toClose[r][m]
    BY <2>1
  <2>3. ASSUME NEW x, ~ToRelease(x) PROVE x # toClose[r][1]
    BY <2>1, <2>3 DEF ToRelease
  <2>4. ASSUME NEW x, NEW y \in Req, NEW k \in 1..Len(toClose'[y]), toClose'[y][k] = x
        PROVE  ToRelease(x)
    <3>1. CASE y = r
      BY <2>1, <2>2, <2>4, <3>1, Zenon DEF ToRelease
    <3>2. CASE y # r
      BY <2>1, <2>4, <3>2 DEF ToRelease
    <3> QED
      BY <3>1, <3>2
  <2>5. ASSUME NEW x, ~ToRelease(x) PROVE ~ToRelease(x)'
    <3>1. SUFFICES ASSUME ToRelease(x)' PROVE FALSE
      OBVIOUS
    <3>2. PICK y \in Req : \E k \in 1..Len(toClose'[y]) : toClose'[y][k] = x
      BY <3>1 DEF ToRelease
    <3> QED
      BY <2>4, <2>5, <3>2
  <2> QED
    BY <2>1, <2>3, <2>5 DEF BatchWaits
<1>8. ASSUME NEW r \in Req, Return(r) PROVE BatchWaits'
  BY <1>8, <1>a DEF Return, QueueTypeOK
<1>9. CASE UNCHANGED queueVars
  BY <1>9, <1>a DEF queueVars, QueueTypeOK
<1> QED
  BY <1>1, <1>2, <1>3, <1>4, <1>5, <1>6, <1>7, <1>8, <1>9 DEF QueueNext, Step, Finished

\* No commit resolves a request whose caller has already read its result, for any set of callers: the
\* close of a done channel orders the leader's writes before the follower's return.
THEOREM ResultFinalAlways == QueueSpec => ResultFinal
<1>1. QueueInit => BatchWaits
  BY DEF QueueInit, BatchWaits
<1>2. ASSUME Leadership, BatchWaits, QueueNext, NEW x \in Req, at[x] = "returned"
      PROVE  result'[x] = result[x]
  <2>1. ASSUME NEW r \in Req, Commit(r) PROVE result'[x] = result[x]
    <3>1. at[r] = "commit" /\ batch[r] \in Seq(Req)
      BY <1>2, <2>1 DEF Commit, Leadership, QueueTypeOK
    <3>2. x \notin Range(batch[r])
      BY <1>2, <3>1 DEF BatchWaits, Range
    <3> QED
      BY <2>1, <3>2 DEF Commit
  <2>2. ASSUME NEW r \in Req, Step(r), ~Commit(r) PROVE result'[x] = result[x]
    BY <2>2 DEF Step, EnqueueFollower, EnqueueLeader, Wake, CutElected, Handoff, CloseDone, Return
  <2> QED
    BY <1>2, <2>1, <2>2 DEF QueueNext, Finished, queueVars
<1>3. Leadership /\ BatchWaits /\ [QueueNext]_queueVars =>
        [\A r \in Req : at[r] = "returned" => result'[r] = result[r]]_queueVars
  BY <1>2
<1>4. Leadership /\ BatchWaits /\ [QueueNext]_queueVars => BatchWaits'
  BY BatchWaitsStep
<1> QED
  BY <1>1, <1>3, <1>4, LeadershipAlways, PTL DEF QueueSpec, ResultFinal

-----------------------------------------------------------------------------
(* Batches.                                                                *)

\* A sequence that names each of its elements once.
Once(s) == \A i, j \in 1..Len(s) : s[i] = s[j] => i = j

LEMMA LenOfOnce ==
    ASSUME NEW S, NEW s \in Seq(S), Once(s)
    PROVE  Len(s) = Cardinality(Range(s))
<1>1. s \in [1..Len(s) -> Range(s)] /\ DOMAIN s = 1..Len(s) /\ Len(s) \in Nat
  BY DEF Range
<1>2. s \in Bijection(1..Len(s), Range(s))
  BY <1>1 DEF Once, Bijection, Injection, Surjection, IsInjective, Range
<1> QED
  BY <1>1, <1>2, FS_CountingElements DEF ExistsBijection

LEMMA AppendOnce ==
    ASSUME NEW S, NEW s \in Seq(S), NEW x \in S
    PROVE  /\ Range(Append(s, x)) = Range(s) \union {x}
           /\ Once(s) /\ x \notin Range(s) => Once(Append(s, x))
<1>1. /\ Append(s, x) \in Seq(S) /\ Len(Append(s, x)) = Len(s) + 1 /\ Append(s, x)[Len(s) + 1] = x
      /\ \A i \in 1..Len(s) : Append(s, x)[i] = s[i]
  OBVIOUS
<1>2. DOMAIN s = 1..Len(s) /\ DOMAIN Append(s, x) = 1..(Len(s) + 1) /\ Len(s) \in Nat
  BY <1>1
<1>3. Range(Append(s, x)) = Range(s) \union {x}
  BY <1>1, <1>2 DEF Range
<1>4. Once(s) /\ x \notin Range(s) => Once(Append(s, x))
  BY <1>1, <1>2 DEF Once, Range
<1> QED
  BY <1>3, <1>4

LEMMA ConcatAppend ==
    ASSUME NEW S, NEW s \in Seq(S), NEW t \in Seq(S), NEW x \in S
    PROVE  s \o Append(t, x) = Append(s \o t, x)
<1>1. Append(t, x) \in Seq(S) /\ s \o t \in Seq(S)
  OBVIOUS
<1>2. s \o Append(t, x) \in Seq(S) /\ Append(s \o t, x) \in Seq(S)
  BY <1>1
<1>3. Len(s \o Append(t, x)) = Len(Append(s \o t, x))
  BY <1>1
<1>4. \A i \in 1..Len(s \o Append(t, x)) : (s \o Append(t, x))[i] = Append(s \o t, x)[i]
  BY <1>1
<1> QED
  BY <1>2, <1>3, <1>4, SeqEqual

\* The same for calls.
LEMMA ReqConcat == \A s, t, u \in Seq(Req) : (s \o t) \o u = s \o (t \o u)
BY ConcatAssociative

LEMMA ReqConcatAppend == \A s, t \in Seq(Req) : \A x \in Req : s \o Append(t, x) = Append(s \o t, x)
BY ConcatAppend

LEMMA ReqAppend == \A s \in Seq(Req) : \A x \in Req : Range(Append(s, x)) = Range(s) \union {x}
BY AppendOnce

LEMMA HeadTailRange ==
    ASSUME NEW S, NEW s \in Seq(S), s # <<>>
    PROVE  Head(s) \in S /\ Head(s) \in Range(s) /\ Tail(s) \in Seq(S) /\ Range(Tail(s)) \subseteq Range(s)
<1>1. /\ Len(s) \in Nat /\ Len(s) > 0 /\ DOMAIN s = 1..Len(s) /\ Head(s) = s[1] /\ Tail(s) \in Seq(S)
      /\ Len(Tail(s)) = Len(s) - 1 /\ \A i \in 1..(Len(s) - 1) : Tail(s)[i] = s[i + 1]
  OBVIOUS
<1>2. DOMAIN Tail(s) = 1..(Len(s) - 1)
  BY <1>1
<1> QED
  BY <1>1, <1>2 DEF Range

\* The batch in flight is that of the one call that commits.
InFlightShape ==
    /\ \A r \in Req : at[r] = "commit" => InFlight = batch[r]
    /\ (\A r \in Req : at[r] # "commit") => InFlight = <<>>
    /\ InFlight \in Seq(Req)

LEMMA InFlightIs == Leadership => InFlightShape
<1> SUFFICES ASSUME Leadership PROVE InFlightShape
  OBVIOUS
<1>1. \A r, s \in Req : at[r] = "commit" /\ at[s] = "commit" => r = s
  BY DEF Leadership, OneLeader, Leaders
<1>2. ASSUME NEW r \in Req, at[r] = "commit"
      PROVE  InFlight = batch[r] /\ InFlight \in Seq(Req)
  <2>1. (CHOOSE x \in Req : at[x] = "commit") = r
    BY <1>1, <1>2
  <2>2. InFlight = batch[CHOOSE x \in Req : at[x] = "commit"]
    BY <1>2 DEF InFlight
  <2>3. batch[r] \in Seq(Req)
    BY DEF Leadership, QueueTypeOK
  <2> QED
    BY <2>1, <2>2, <2>3, Zenon
<1>3. ASSUME \A r \in Req : at[r] # "commit" PROVE InFlight = <<>> /\ InFlight \in Seq(Req)
  <2>1. InFlight = <<>>
    BY <1>3 DEF InFlight
  <2>2. <<>> \in Seq(Req)
    OBVIOUS
  <2> QED
    BY <2>1, <2>2
<1> QED
  BY <1>2, <1>3 DEF InFlightShape

\* Everything that ever arrived: committed, in flight, queued.
Arrived == committed \o InFlight \o queue

\* What makes EachCommittedOnce inductive: the elements of the sequence, and who
\* is known to be committed although the record of it is on another call.
BatchHeads == \A r \in Req : at[r] \in {"commit", "handoff"} => Head(batch[r]) = r
ArrivedAll == Once(Arrived) /\ Range(Arrived) = {r \in Req : at[r] # "idle"}
CommittedFirst ==
    /\ \A r \in Req : at[r] \in {"closing", "returned"} => r \in Range(committed)
    /\ \A r \in Req : at[r] = "handoff" => Range(batch[r]) \subseteq Range(committed)
    /\ \A r \in Req : Range(toClose[r]) \subseteq lead \union Range(committed)
    /\ done \subseteq lead \union Range(committed)

Batches == BatchHeads /\ ArrivedAll /\ CommittedFirst /\ BatchWithinCaps

LEMMA BatchesInit == QueueInit => Batches
<1> SUFFICES ASSUME QueueInit PROVE Batches
  OBVIOUS
<1>1. InFlightShape
  BY LeadershipInit, InFlightIs
<1>2. InFlight = <<>> /\ Arrived = <<>>
  BY <1>1 DEF QueueInit, Arrived, InFlightShape
<1>3. Range(<<>>) = {}
  BY DEF Range
<1>4. ArrivedAll
  BY <1>2, <1>3 DEF QueueInit, ArrivedAll, Once
<1> QED
  BY <1>3, <1>4 DEF QueueInit, Batches, BatchHeads, CommittedFirst, BatchWithinCaps

\* cutLocked moves the head of what waits into the batch in flight; no call changes its place in what
\* arrived, and the batch keeps the caps because Fits held for it as a prefix of the queue.
LEMMA CutArrives ==
    ASSUME Leadership, InFlightShape', Batches, NEW q \in Seq(Req), NEW r \in Req, Cut(r, q),
           q # <<>>, q[1] = r, \A s \in Req : at[s] # "commit",
           Once(committed \o q), Range(committed \o q) = {s \in Req : at[s] # "idle"} \union {r},
           UNCHANGED <<lead, done, toClose, committed>>
    PROVE  Batches'
<1>1. PICK n \in 0..Len(q) : /\ IsCut(q, n)
                             /\ batch' = [batch EXCEPT ![r] = SubSeq(q, 1, n)]
                             /\ queue' = SubSeq(q, n + 1, Len(q))
  BY Zenon DEF Cut
<1>2. n \in 1..Len(q)
  BY <1>1 DEF IsCut
<1>3. /\ at \in [Req -> Places] /\ at' = [at EXCEPT ![r] = "commit"]
      /\ batch \in [Req -> Seq(Req)] /\ batch'[r] = SubSeq(q, 1, n) /\ committed \in Seq(Req)
      /\ \A s \in Req : s # r => batch'[s] = batch[s] /\ at'[s] = at[s]
  BY <1>1 DEF Cut, Leadership, QueueTypeOK
<1>4. /\ SubSeq(q, 1, n) \in Seq(Req) /\ Len(SubSeq(q, 1, n)) = n
      /\ \A i \in 1..n : SubSeq(q, 1, n)[i] = q[i]
  BY <1>2
<1>5. BatchHeads'
  <2>1. Head(SubSeq(q, 1, n)) = r
    BY <1>2, <1>4
  <2> QED
    BY <1>3, <2>1, Zenon DEF Batches, BatchHeads
<1>6. ArrivedAll'
  <2>1. InFlight' = SubSeq(q, 1, n)
    BY <1>3 DEF InFlightShape
  <2>2. SubSeq(q, 1, n) \o queue' = q /\ queue' \in Seq(Req)
    BY <1>1, <1>2, ConcatAdjacentSubSeq, SubSeqFull
  <2>a. Arrived' = (committed \o SubSeq(q, 1, n)) \o queue'
    BY <2>1 DEF Arrived
  <2>3. Arrived' = committed \o q
    <3>1. (committed \o SubSeq(q, 1, n)) \o queue' = committed \o (SubSeq(q, 1, n) \o queue')
      <4>1. committed \in Seq(Req) /\ SubSeq(q, 1, n) \in Seq(Req) /\ queue' \in Seq(Req)
        BY <1>3, <1>4, <2>2
      <4> QED
        BY <4>1, ReqConcat, Zenon
    <3> QED
      BY <2>2, <2>a, <3>1, Zenon
  <2>4. {s \in Req : at'[s] # "idle"} = {s \in Req : at[s] # "idle"} \union {r}
    BY <1>3
  <2> QED
    BY <2>3, <2>4 DEF ArrivedAll
<1>7. CommittedFirst'
  BY <1>3 DEF Batches, CommittedFirst
<1>8. BatchWithinCaps'
  <2>1. {SubSeq(q, 1, n)[i] : i \in 1..n} = {q[i] : i \in 1..n}
    BY <1>4, Zenon
  <2>2. n > 1 => n <= MaxN /\ Total(q, n) <= MaxBytes
    BY <1>1, <1>2 DEF IsCut, Fits
  <2>3. Total(SubSeq(q, 1, n), n) = Total(q, n)
    BY <2>1, Zenon DEF Total
  <2> QED
    BY <1>3, <1>4, <2>2, <2>3, Zenon DEF Batches, BatchWithinCaps
<1> QED
  BY <1>5, <1>6, <1>7, <1>8 DEF Batches

\* A step that moves no call into or out of its commit leaves the batch in flight alone.
LEMMA SameFlight ==
    ASSUME InFlightShape, InFlightShape', UNCHANGED batch,
           \A r \in Req : at[r] = "commit" <=> at'[r] = "commit"
    PROVE  InFlight' = InFlight
BY DEF InFlightShape

\* Every step of run, cutLocked and handoff keeps the batches sound.
LEMMA BatchesStep ==
    ASSUME Leadership, InFlightShape, InFlightShape', Batches, [QueueNext]_queueVars
    PROVE  Batches'
<1>0. /\ at \in [Req -> Places] /\ queue \in Seq(Req) /\ committed \in Seq(Req)
      /\ batch \in [Req -> Seq(Req)] /\ toClose \in [Req -> Seq(Req)]
      /\ InFlight \in Seq(Req) /\ <<>> \in Seq(Req)
  BY DEF Leadership, QueueTypeOK, InFlightShape
<1>a. Arrived \in Seq(Req) /\ committed \o InFlight \in Seq(Req)
  BY <1>0, ConcatProperties DEF Arrived
<1>1. ASSUME NEW r \in Req, EnqueueFollower(r) PROVE Batches'
  <2>1. InFlight' = InFlight
    BY <1>0, <1>1, SameFlight DEF EnqueueFollower
  <2>2. Arrived' = Append(Arrived, r)
    <3>1. Arrived' = (committed \o InFlight) \o Append(queue, r)
      BY <1>1, <2>1 DEF EnqueueFollower, Arrived
    <3>2. (committed \o InFlight) \o Append(queue, r) = Append((committed \o InFlight) \o queue, r)
      BY <1>0, <1>a, ReqConcatAppend, Zenon
    <3> QED
      BY <3>1, <3>2 DEF Arrived
  <2>3. r \notin Range(Arrived)
    BY <1>1 DEF EnqueueFollower, Batches, ArrivedAll
  <2>4. {s \in Req : at'[s] # "idle"} = {s \in Req : at[s] # "idle"} \union {r}
    BY <1>0, <1>1 DEF EnqueueFollower
  <2>5. ArrivedAll'
    BY <1>a, <2>2, <2>3, <2>4, AppendOnce DEF Batches, ArrivedAll
  <2>6. BatchHeads' /\ CommittedFirst' /\ BatchWithinCaps'
    BY <1>0, <1>1 DEF EnqueueFollower, Batches, BatchHeads, CommittedFirst, BatchWithinCaps
  <2> QED
    BY <2>5, <2>6 DEF Batches
<1>2. ASSUME NEW r \in Req, EnqueueLeader(r) PROVE Batches'
  <2>1. queue = <<>> /\ at[r] = "idle" /\ \A s \in Req : at[s] # "commit"
    BY <1>2 DEF EnqueueLeader, Leadership, OneLeader, Leaders
  <2>2. InFlight = <<>>
    BY <2>1 DEF InFlightShape
  <2>3. Append(queue, r) = <<r>> /\ <<r>> \in Seq(Req) /\ <<r>> # <<>> /\ <<r>>[1] = r
    BY <2>1
  <2>4. Arrived = committed
    BY <1>0, <2>1, <2>2, ConcatEmptySeq DEF Arrived
  <2>5. committed \o <<r>> = Append(committed, r)
    BY <1>0
  <2>6. Once(committed \o <<r>>) /\ Range(committed \o <<r>>) = {s \in Req : at[s] # "idle"} \union {r}
    <3>1. Once(committed) /\ Range(committed) = {s \in Req : at[s] # "idle"}
      BY <2>4 DEF Batches, ArrivedAll
    <3>2. Range(Append(committed, r)) = Range(committed) \union {r} /\ Once(Append(committed, r))
      BY <1>0, <2>1, <3>1, AppendOnce
    <3> QED
      BY <2>5, <3>1, <3>2, Zenon
  <2> QED
    BY <1>2, <2>1, <2>3, <2>6, CutArrives, Zenon DEF EnqueueLeader
<1>3. ASSUME NEW r \in Req, CutElected(r) PROVE Batches'
  <2>1. queue # <<>> /\ queue[1] = r /\ at[r] = "elected" /\ \A s \in Req : at[s] # "commit"
    BY <1>3 DEF CutElected, Leadership, ElectedHeads, OneLeader, Leaders
  <2>2. InFlight = <<>>
    BY <2>1 DEF InFlightShape
  <2>3. Arrived = committed \o queue
    BY <1>0, <2>2, ConcatEmptySeq DEF Arrived
  <2>4. Once(committed \o queue) /\ Range(committed \o queue) = {s \in Req : at[s] # "idle"} \union {r}
    BY <2>1, <2>3 DEF Batches, ArrivedAll
  <2> QED
    BY <1>0, <1>3, <2>1, <2>4, CutArrives, Zenon DEF CutElected
<1>4. ASSUME NEW r \in Req, Commit(r) PROVE Batches'
  <2>1. at[r] = "commit" /\ \A s \in Req : s # r => at[s] # "commit"
    BY <1>4 DEF Commit, Leadership, OneLeader, Leaders
  <2>2. InFlight = batch[r] /\ InFlight' = <<>>
    BY <1>0, <1>4, <2>1 DEF Commit, InFlightShape
  <2>3. committed' = committed \o InFlight /\ queue' = queue /\ batch' = batch
    BY <1>4, <2>2 DEF Commit
  <2>4. Arrived' = Arrived
    BY <1>a, <2>2, <2>3, ConcatEmptySeq DEF Arrived
  <2>5. ArrivedAll'
    BY <1>0, <1>4, <2>1, <2>4 DEF Commit, Batches, ArrivedAll
  <2>6. Range(committed) \subseteq Range(committed') /\ Range(batch[r]) \subseteq Range(committed')
    <3>1. batch[r] \in Seq(Req)
      BY <1>0
    <3>2. Range(committed \o batch[r]) = Range(committed) \union Range(batch[r])
      BY <1>0, <3>1, RangeConcatenation
    <3> QED
      BY <2>2, <2>3, <3>2
  <2>7. CommittedFirst'
    BY <1>0, <1>4, <2>6 DEF Commit, Batches, CommittedFirst
  <2>8. BatchHeads' /\ BatchWithinCaps'
    BY <1>0, <1>4 DEF Commit, Batches, BatchHeads, BatchWithinCaps
  <2> QED
    BY <2>5, <2>7, <2>8 DEF Batches
<1>5. ASSUME NEW r \in Req, Wake(r) \/ Handoff(r) \/ CloseDone(r) \/ Return(r),
             CommittedFirst', BatchHeads'
      PROVE  Batches'
  <2>1. /\ UNCHANGED <<batch, queue, committed>>
        /\ \A s \in Req : (at[s] = "commit" <=> at'[s] = "commit") /\ (at[s] = "idle" <=> at'[s] = "idle")
    BY <1>0, <1>5, Zenon DEF Wake, Handoff, CloseDone, Return
  <2>2. Arrived' = Arrived
    BY <2>1, SameFlight DEF Arrived
  <2>3. ArrivedAll' /\ BatchWithinCaps'
    BY <2>1, <2>2 DEF Batches, ArrivedAll, BatchWithinCaps
  <2> QED
    BY <1>5, <2>3 DEF Batches
<1>6. ASSUME NEW r \in Req, Wake(r) PROVE CommittedFirst' /\ BatchHeads'
  BY <1>0, <1>6 DEF Wake, Batches, CommittedFirst, BatchHeads
<1>7. ASSUME NEW r \in Req, Handoff(r) PROVE CommittedFirst' /\ BatchHeads'
  <2>1. batch[r] \in Seq(Req) /\ batch[r] # <<>> /\ Head(batch[r]) = r /\ at[r] = "handoff"
    BY <1>0, <1>7 DEF Handoff, Leadership, QueueTypeOK, Batches, BatchHeads
  <2>2. /\ r \in Range(committed) /\ Range(Tail(batch[r])) \subseteq Range(committed)
        /\ Tail(batch[r]) \in Seq(Req)
    BY <2>1, HeadTailRange DEF Batches, CommittedFirst
  <2>3. queue # <<>> => Head(queue) \in Req
    BY <1>0, HeadTailRange
  <2>4. Range(toClose'[r]) \subseteq lead' \union Range(committed)
    <3>1. CASE queue # <<>>
      <4>1. /\ toClose'[r] = Append(Tail(batch[r]), Head(queue))
            /\ lead' = lead \union {Head(queue)}
        BY <1>0, <1>7, <3>1, Zenon DEF Handoff
      <4>2. Range(Append(Tail(batch[r]), Head(queue))) = Range(Tail(batch[r])) \union {Head(queue)}
        BY <2>2, <2>3, <3>1, ReqAppend, Zenon
      <4> QED
        BY <2>2, <4>1, <4>2
    <3>2. CASE queue = <<>>
      BY <1>0, <1>7, <2>2, <3>2, Zenon DEF Handoff
    <3> QED
      BY <3>1, <3>2
  <2>5. /\ lead \subseteq lead' /\ done' = done /\ committed' = committed /\ batch' = batch
        /\ at' = [at EXCEPT ![r] = "closing"] /\ \A s \in Req : s # r => toClose'[s] = toClose[s]
    BY <1>0, <1>7 DEF Handoff
  <2> QED
    BY <1>0, <2>2, <2>4, <2>5, Zenon DEF Batches, CommittedFirst, BatchHeads
<1>8. ASSUME NEW r \in Req, CloseDone(r) PROVE CommittedFirst' /\ BatchHeads'
  <2>1. /\ Head(toClose[r]) \in Range(toClose[r]) /\ Range(Tail(toClose[r])) \subseteq Range(toClose[r])
    BY <1>0, <1>8, HeadTailRange DEF CloseDone
  <2> QED
    BY <1>0, <1>8, <2>1 DEF CloseDone, Batches, CommittedFirst, BatchHeads
<1>9. ASSUME NEW r \in Req, Return(r) PROVE CommittedFirst' /\ BatchHeads'
  BY <1>0, <1>9 DEF Return, Batches, CommittedFirst, BatchHeads
<1>10. CASE UNCHANGED queueVars
  <2>1. Arrived' = Arrived
    BY <1>10, SameFlight DEF queueVars, Arrived
  <2> QED
    BY <1>10, <2>1 DEF queueVars, Batches, BatchHeads, ArrivedAll, CommittedFirst, BatchWithinCaps
<1> QED
  BY <1>1, <1>2, <1>3, <1>4, <1>5, <1>6, <1>7, <1>8, <1>9, <1>10 DEF QueueNext, Step, Finished

\* What arrives at the queue is committed once, in a batch its leader's own request heads, nobody
\* returns before that, and no batch of several requests exceeds the caps, for any set of callers, any
\* sizes and any caps.
THEOREM BatchesSoundAlways == QueueSpec => []BatchesSound
<1>1. Leadership /\ Batches => BatchesSound
  <2> SUFFICES ASSUME Leadership, Batches PROVE BatchesSound
    OBVIOUS
  <2>1. Arrived \in Seq(Req)
    BY InFlightIs, ConcatProperties DEF Leadership, QueueTypeOK, InFlightShape, Arrived
  <2>2. Len(Arrived) = Cardinality(Range(Arrived))
    BY <2>1, LenOfOnce, Zenon DEF Batches, ArrivedAll
  <2> QED
    BY <2>2 DEF Batches, BatchHeads, ArrivedAll, CommittedFirst, BatchesSound, EachCommittedOnce, Arrived
<1>2. Leadership /\ InFlightShape /\ InFlightShape' /\ Batches /\ [QueueNext]_queueVars => Batches'
  BY BatchesStep
<1> QED
  BY <1>1, <1>2, BatchesInit, InFlightIs, LeadershipAlways, PTL DEF QueueSpec
=============================================================================
