------------------------------ MODULE NegKnow ------------------------------
(***************************************************************************)
(* The elimination ledger: what was tried and did not work                 *)
(* (internal/negknow: ledger.go, log.go, bloom.go, staleness.go,           *)
(* ingest.go, durable.go).  records/eliminations.jsonl is the truth,       *)
(* sketches/tried.bloom a cache of the match keys in it, and a record      *)
(* whose dependency changed is flipped stale by a control line, never      *)
(* removed.  Queries, refreshes and ingests overlap: each compares file    *)
(* versions outside the ledger's lock and uses the outcome under it.       *)
(*                                                                         *)
(* The ledger is the daemon's (no session of its own: every record is in   *)
(* view).  A record depends on one file, by the version it had; version 0  *)
(* is "no dependency".  A descriptor is its match key.  The filter is the  *)
(* set of keys it tests positive for: a key the log lost is one too many,  *)
(* as a false positive is.                                                 *)
(* Not here: a fork's view of its parent's records, the detector, records  *)
(* of a status no version writes, and free text.                           *)
(***************************************************************************)
EXTENDS Naturals, Sequences, FiniteSets, SequencesExt

CONSTANTS Ask,         \* eliminations that may arrive: [told, sess, scope, key, rests]
          Question,    \* what may be asked: [sess, scope, key]
          Version,     \* the contents the dependency's file takes
          OnStale,     \* values eliminations.rebuildOnStale takes while the ledger runs
          MaxCalls,    \* bound on calls in flight at once
          MaxClock,    \* bound on the clock
          MaxIngests,  \* bound on ingested eliminations
          MaxFaults    \* bound on failed steps, crashes and power losses

VARIABLES log,       \* lines of eliminations.jsonl
          synced,    \* how many of them are durable
          named,     \* the log's name is durable
          cache,     \* tried.bloom: its keys, or NoCache
          mem,       \* the open ledger
          ver,       \* the newest recorded version of the dependency
          now,       \* the ledger's clock
          ing,       \* the ingest in flight
          qry,       \* the query in flight
          ref,       \* the maintenance round in flight
          acked,     \* ids an ingest answered "recorded" for
          loose,     \* those among them answered without a sync since (sync), and those of
                     \* them that a power loss took (gone)
          left       \* what the bounds leave

disk == <<log, synced, named, cache>>
vars == <<disk, mem, ver, now, ing, qry, ref, acked, loose, left>>

NoCache == [file |-> FALSE, keys |-> {}]
CacheOf(ks) == [file |-> TRUE, keys |-> ks]
NoId == [sess |-> "none", ts |-> 0, key |-> "none"]
NoRec == [id |-> NoId, scope |-> "session", dep |-> 0, status |-> "none"]

\* A line adds a record or flips one; "torn" is an unfinished last line, "bad" one that was
\* finished by the bytes of the next: no reader can tell either apart from garbage.
Add(r) == [op |-> "add", rec |-> r]
Flip(r) == [op |-> "stale", rec |-> r]
Torn(l) == [op |-> "torn", rec |-> l.rec]
Bad(l) == [op |-> "bad", rec |-> l.rec]

Down == [open |-> FALSE, blind |-> FALSE, appends |-> FALSE, recs |-> <<>>, bloom |-> {},
         pending |-> FALSE, uncovered |-> FALSE, nameKnown |-> FALSE]
NoIngest == [pc |-> "idle", told |-> FALSE, id |-> NoId, scope |-> "session", dep |-> 0]
NoAsk == [sess |-> "none", scope |-> "session", key |-> "none"]
NoQuery == [pc |-> "idle", ask |-> NoAsk, snap |-> {}, changed |-> {}, verified |-> FALSE,
            cov |-> FALSE, answer |-> "none", rec |-> NoRec, known |-> {}, during |-> {}]
NoRefresh == [pc |-> "idle", snap |-> {}, changed |-> {}]

Init ==
    /\ log = <<>> /\ synced = 0 /\ named = FALSE /\ cache = NoCache
    /\ mem = Down
    /\ ver = (CHOOSE v \in Version : TRUE) /\ now = 0
    /\ ing = NoIngest /\ qry = NoQuery /\ ref = NoRefresh
    /\ acked = {} /\ loose = [sync |-> {}, gone |-> {}]
    /\ left = [ingests |-> MaxIngests, faults |-> MaxFaults]

Spend(what) == left[what] > 0 /\ left' = [left EXCEPT ![what] = @ - 1]
Fault == Spend("faults")
Idle == ing.pc = "idle" /\ qry.pc = "idle" /\ ref.pc = "idle"
Room == Cardinality({c \in {"ing", "qry", "ref"} : CASE c = "ing" -> ing.pc # "idle"
                                                    [] c = "qry" -> qry.pc # "idle"
                                                    [] c = "ref" -> ref.pc # "idle"}) < MaxCalls

(***************************************************************************)
(* The log                                                                 *)
(***************************************************************************)
\* One write of one line.  Behind an unfinished line it finishes that one instead.
Appended(l, line) ==
    IF l # <<>> /\ Last(l).op = "torn" THEN Append(Front(l), Bad(line)) ELSE Append(l, line)

AppendedAll(l, lines) == FoldLeft(Appended, l, lines)

IdsOf(recs) == {recs[i].id : i \in DOMAIN recs}

\* The first of two lines of one id is kept; a flip of an unknown record is skipped.
Apply(recs, line) ==
    CASE line.op = "add" /\ line.rec.id \notin IdsOf(recs) -> Append(recs, line.rec)
      [] line.op = "stale" ->
           [i \in DOMAIN recs |-> IF recs[i].id = line.rec.id
                                  THEN [recs[i] EXCEPT !.status = "stale"] ELSE recs[i]]
      [] OTHER -> recs

Replayed(l) == FoldLeft(Apply, <<>>, l)

(***************************************************************************)
(* The filter                                                              *)
(***************************************************************************)
Tests(bloom, k) == k \in bloom
KeysOf(recs) == {recs[i].id.key : i \in DOMAIN recs}

Rebuilt(recs) == KeysOf(recs)

\* rebuildWith of ledger m: the filter is replaced in memory whatever becomes of the file.
Rebuild(m, kept) ==
    [m EXCEPT !.bloom = Rebuilt(m.recs), !.pending = ~kept]

MissesARecord(m) == \E i \in DOMAIN m.recs : ~Tests(m.bloom, m.recs[i].id.key)
HoldsMore(m) == m.bloom \ KeysOf(m.recs) # {}

(***************************************************************************)
(* Staleness                                                               *)
(***************************************************************************)
Rests(r) == r.status = "active" /\ r.dep # 0
Resting(recs) == {recs[i] : i \in {j \in DOMAIN recs : Rests(recs[j])}}
Changed(snap) == {r \in snap : r.dep # ver}
StillActive(m, rs) ==
    {m.recs[i] : i \in {j \in DOMAIN m.recs : /\ m.recs[j].status = "active"
                                              /\ m.recs[j].id \in {r.id : r \in rs}}}

\* markStaleLocked: each flip is appended before memory changes, and a flip the log did not
\* take is left out.  c is eliminations.rebuildOnStale, kept whether a rebuild was persisted.
FlippedTo(m, done, c, kept) ==
    LET flipped == [m EXCEPT !.recs = [i \in DOMAIN @ |-> IF @[i] \in done
                                        THEN [@[i] EXCEPT !.status = "stale"] ELSE @[i]]]
    IN  CASE done = {} -> m
          [] done # {} /\ c = "immediate" -> Rebuild(flipped, kept)
          [] done # {} /\ c = "nextIdle" -> [flipped EXCEPT !.pending = TRUE]
          [] OTHER -> flipped

Flips(done) == AppendedAll(log, SetToSeq({Flip(r) : r \in done}))
AllFlipped(m, rs, done, c, kept) ==
    /\ done = StillActive(m, rs)
    /\ done # {} /\ c = "immediate" => kept

\* One call of markStaleLocked on rs under the ledger's lock.  A ledger that cannot append, or
\* whose append or rebuild fails, reports an error.
MarkStale(m, rs, done, c, kept) ==
    /\ done \in (IF m.appends THEN SUBSET StillActive(m, rs) ELSE {{}})
    /\ \/ /\ kept /\ (m.appends => done = StillActive(m, rs))
          /\ UNCHANGED left
       \/ /\ ~(kept /\ done = StillActive(m, rs)) /\ m.appends
          /\ ~kept => done # {} /\ c = "immediate"
          /\ Fault
    /\ mem' = FlippedTo(m, done, c, kept)
    /\ log' = Flips(done)
    /\ cache' = IF done # {} /\ c = "immediate" /\ kept
                THEN CacheOf(Rebuilt(FlippedTo(m, done, c, kept).recs)) ELSE cache

(***************************************************************************)
(* Open and the ends of a ledger                                           *)
(***************************************************************************)
Loaded(trouble) ==
    [Down EXCEPT !.open = TRUE,
                 !.blind = trouble = "blind",
                 !.appends = trouble # "unappendable",
                 !.recs = IF trouble = "blind" THEN <<>> ELSE Replayed(log),
                 !.bloom = IF trouble = "corrupt" THEN {} ELSE cache.keys]

\* reconcileBloom: missing keys are rebuilt at once, extra keys when the configuration says.
Rebuilds(m, trouble, c) ==
    /\ ~m.blind
    /\ \/ trouble = "corrupt" \/ ~cache.file \/ MissesARecord(m)
       \/ HoldsMore(m) /\ c = "immediate"
Reconciled(m, trouble, c) ==
    CASE Rebuilds(m, trouble, c) -> Rebuild(m, trouble # "unsaved")
      [] ~m.blind /\ ~Rebuilds(m, trouble, c) /\ HoldsMore(m) /\ c = "nextIdle" ->
           [m EXCEPT !.pending = TRUE]
      [] OTHER -> m

\* refreshAtOpen: one bounded refresh, which owes a rebuild when it did not finish.
RefreshesAtOpen(m, c) == ~m.blind /\ c # "never"
FlippedAtOpen(m, trouble, c) ==
    IF RefreshesAtOpen(m, c) /\ trouble # "uncompared" /\ m.appends
    THEN Changed(Resting(m.recs)) ELSE {}
Refreshed(m, trouble, c) ==
    LET done == FlippedAtOpen(m, trouble, c)
        n == FlippedTo(m, done, c, trouble # "unsaved")
        finished == /\ trouble # "uncompared"
                    /\ AllFlipped(m, Changed(Resting(m.recs)), done, c, trouble # "unsaved")
    IN  IF RefreshesAtOpen(m, c)
        THEN [n EXCEPT !.uncovered = trouble = "uncompared", !.pending = @ \/ ~finished]
        ELSE m

Trouble == {"none", "blind", "unappendable", "corrupt", "unsaved", "uncompared"}

Open(trouble, c) ==
    LET m == Reconciled(Loaded(trouble), trouble, c)
        done == FlippedAtOpen(m, trouble, c)
    IN  /\ ~mem.open
        /\ IF trouble = "none" THEN UNCHANGED left ELSE Fault
        /\ mem' = Refreshed(m, trouble, c)
        /\ log' = Flips(done)
        /\ cache' = IF trouble # "unsaved" /\ \/ Rebuilds(Loaded(trouble), trouble, c)
                                              \/ done # {} /\ c = "immediate"
                    THEN CacheOf(Rebuilt(m.recs)) ELSE cache
        /\ UNCHANGED <<synced, named, ver, now, ing, qry, ref, acked, loose>>

Gone == mem' = Down /\ ing' = NoIngest /\ qry' = NoQuery /\ ref' = NoRefresh

\* Close releases the append handle and does nothing else; the daemon calls it when no call is
\* left.  A process that dies loses its calls.
Exit ==
    /\ mem.open
    /\ IF Idle THEN UNCHANGED left ELSE Fault
    /\ Gone
    /\ UNCHANGED <<disk, ver, now, acked, loose>>

\* What a power loss leaves: the synced lines and some of the rest, the last of them perhaps in
\* part; nothing at all when the log's name was never made durable; the filter or none.
PowerLoss ==
    /\ Fault
    /\ \E n \in (IF named THEN synced ELSE 0)..Len(log), torn \in BOOLEAN :
         /\ torn => n < Len(log) /\ n >= synced
         /\ n >= synced \/ n = 0
         /\ log' = SubSeq(log, 1, n) \o (IF torn THEN <<Torn(log[n + 1])>> ELSE <<>>)
         /\ synced' = IF n < synced THEN 0 ELSE synced
    /\ cache' \in {cache, NoCache}
    /\ loose' = [loose EXCEPT !.gone = @ \cup (loose.sync \ IdsOf(Replayed(log')))]
    /\ Gone
    /\ UNCHANGED <<named, ver, now, acked>>

Edit(v) ==
    /\ v # ver /\ ver' = v
    /\ qry' = IF qry.pc = "idle" THEN qry ELSE [qry EXCEPT !.during = @ \cup {v}]
    /\ UNCHANGED <<disk, mem, now, ing, ref, acked, loose, left>>

(***************************************************************************)
(* Ingest: record_eliminated and --eliminated (told), and what a prompt or *)
(* the detector supplies (not told)                                        *)
(***************************************************************************)
IngestBegin(a) ==
    /\ mem.open /\ ing.pc = "idle" /\ Room /\ Spend("ingests")
    /\ ing' = [pc |-> "record", told |-> a.told,
               id |-> [sess |-> a.sess, ts |-> 0, key |-> a.key],
               scope |-> a.scope, dep |-> IF a.rests THEN ver ELSE 0]
    /\ UNCHANGED <<disk, mem, ver, now, qry, ref, acked, loose>>

\* The evidence could not be stored or made durable: nothing is recorded.
MintFails ==
    /\ ing.pc = "record" /\ Fault
    /\ ing' = NoIngest
    /\ UNCHANGED <<disk, mem, ver, now, qry, ref, acked, loose>>

Identity(r) == <<r.id.sess, r.scope, r.id.key>>
Same(recs) == {i \in DOMAIN recs : Identity(recs[i]) = Identity(ing)}
At(t) == [ing.id EXCEPT !.ts = t]
StaleIds == {mem.recs[i].id : i \in {j \in DOMAIN mem.recs : mem.recs[j].status = "stale"}}

\* byKey names the last record of an identity; only an active one answers for it.
Repeats == {mem.recs[i].id : i \in {j \in Same(mem.recs) :
               /\ mem.recs[j].status = "active"
               /\ \A h \in Same(mem.recs) : h <= j}}

\* The first id from time t on that no stale record carries.
FreeId(t) ==
    At(CHOOSE u \in t..(t + Len(mem.recs)) :
         At(u) \notin StaleIds /\ \A v \in t..(u - 1) : At(v) \in StaleIds)

Recorded(r) ==
    [mem EXCEPT !.recs = Append(@, r), !.bloom = @ \cup {r.id.key}]

Answers(id) == ing' = IF ing.told THEN [ing EXCEPT !.pc = "sync", !.id = id] ELSE NoIngest

Record(t, c) ==
    /\ ing.pc = "record"
    /\ t \in {now, now + 1} /\ t <= MaxClock /\ now' = t
    /\ IF Repeats # {} THEN /\ \E id \in Repeats : Answers(id)
                            /\ UNCHANGED <<log, mem>>
       ELSE IF FreeId(t) \in IdsOf(mem.recs) THEN /\ Answers(FreeId(t))
                                                  /\ UNCHANGED <<log, mem>>
       ELSE LET r == [id |-> FreeId(t), scope |-> ing.scope, dep |-> ing.dep,
                      status |-> "active"]
            IN  /\ mem.appends
                /\ log' = Appended(log, Add(r))
                /\ mem' = [Recorded(r) EXCEPT !.pending = @ \/ c = "nextIdle"]
                /\ Answers(r.id)
    /\ UNCHANGED <<synced, named, cache, ver, qry, ref, acked, loose, left>>

\* A ledger without an append handle, and a failed append, which may leave part of its line
\* behind, record nothing.
RecordFails(torn) ==
    /\ ing.pc = "record"
    /\ Repeats = {}
    /\ \/ ~mem.appends /\ ~torn /\ UNCHANGED left
       \/ mem.appends /\ Fault
    /\ log' = IF torn /\ (log = <<>> \/ Last(log).op # "torn")
              THEN Append(log, Torn(Add([NoRec EXCEPT !.id = At(now)]))) ELSE log
    /\ ing' = NoIngest
    /\ UNCHANGED <<synced, named, cache, mem, ver, now, qry, ref, acked, loose>>

\* syncAcknowledged: the log's file, then once per ledger its directory, then the answer.
SyncAcknowledged ==
    /\ ing.pc = "sync" /\ mem.appends
    /\ synced' = Len(log)
    /\ named' = TRUE
    /\ mem' = [mem EXCEPT !.nameKnown = TRUE]
    /\ acked' = acked \cup {ing.id}
    /\ loose' = [sync |-> {}, gone |-> loose.gone \ {ing.id}]
    /\ ing' = NoIngest
    /\ UNCHANGED <<log, cache, ver, now, qry, ref, left>>

\* The file, or then the directory, could not be synced: an error.
SyncFails(file) ==
    /\ ing.pc = "sync"
    /\ mem.appends /\ (mem.nameKnown => ~file) /\ Fault
    /\ synced' = IF file THEN Len(log) ELSE synced
    /\ ing' = NoIngest
    /\ UNCHANGED <<log, named, cache, mem, ver, now, qry, ref, acked, loose>>

\* Without an append handle the answer is given for the record as it was read at Open.
AnswerUnsynced ==
    /\ ing.pc = "sync" /\ ~mem.appends
    /\ acked' = acked \cup {ing.id}
    /\ loose' = [loose EXCEPT !.sync = @ \cup {ing.id}]
    /\ ing' = NoIngest
    /\ UNCHANGED <<disk, mem, ver, now, qry, ref, left>>

(***************************************************************************)
(* Query: already_tried                                                    *)
(***************************************************************************)
Visible(r, a) == r.scope = "project" \/ (a.scope # "project" /\ r.id.sess = a.sess)
Candidates(m, a) ==
    {m.recs[i] : i \in {j \in DOMAIN m.recs : m.recs[j].id.key = a.key /\ Visible(m.recs[j], a)}}

\* A filter miss answers at once: the filter covers every record, active and stale.
QueryBegin(a) ==
    /\ mem.open /\ qry.pc = "idle" /\ Room
    /\ LET miss == ~mem.blind /\ ~Tests(mem.bloom, a.key)
       IN  qry' = [NoQuery EXCEPT !.pc = IF miss THEN "done" ELSE "snap", !.ask = a,
                                  !.answer = IF miss THEN "absent" ELSE "none",
                                  !.known = {r.id : r \in Candidates(mem, a)},
                                  !.during = {ver}]
    /\ UNCHANGED <<disk, mem, ver, now, ing, ref, acked, loose, left>>

\* refreshMatches: the dependencies of the active records that could answer, under the lock.
QuerySnapshot ==
    /\ qry.pc = "snap"
    /\ LET snap == IF mem.blind THEN {}
                   ELSE {r \in Candidates(mem, qry.ask) : Rests(r)}
       IN  qry' = [qry EXCEPT !.pc = IF snap = {} THEN "answer" ELSE "compare",
                              !.snap = snap]
    /\ UNCHANGED <<disk, mem, ver, now, ing, ref, acked, loose, left>>

\* ChangedSince, outside the lock.
QueryCompare ==
    /\ qry.pc = "compare"
    /\ qry' = [qry EXCEPT !.pc = IF Changed(qry.snap) = {} THEN "answer" ELSE "flip",
                          !.changed = Changed(qry.snap),
                          !.verified = Changed(qry.snap) = {}, !.snap = {}]
    /\ UNCHANGED <<disk, mem, ver, now, ing, ref, acked, loose, left>>

\* Deviation: a comparison that failed counts as one that found nothing changed.
QueryUncomparedTrusts ==
    /\ qry.pc = "compare" /\ Fault
    /\ qry' = [qry EXCEPT !.pc = "answer", !.verified = TRUE, !.snap = {}]
    /\ UNCHANGED <<disk, mem, ver, now, ing, ref, acked, loose>>

QueryUncompared ==
    /\ qry.pc = "compare" /\ Fault
    /\ qry' = [qry EXCEPT !.pc = "answer", !.cov = TRUE, !.snap = {}]
    /\ UNCHANGED <<disk, mem, ver, now, ing, ref, acked, loose>>

QueryFlip(done, c, kept) ==
    /\ qry.pc = "flip"
    /\ MarkStale(mem, qry.changed, done, c, kept)
    /\ LET flipped == AllFlipped(mem, qry.changed, done, c, kept)
       IN  qry' = [qry EXCEPT !.pc = "answer", !.changed = {}, !.verified = flipped,
                              !.cov = ~flipped]
    /\ UNCHANGED <<synced, named, ver, now, ing, ref, acked, loose>>

\* pick: the newest of a status, ties by the digests of the ids.
Picks(cands, status) ==
    {r \in cands : r.status = status /\ \A q \in cands : q.status = status => q.id.ts <= r.id.ts}

AnswerIs(a, r) ==
    qry' = [qry EXCEPT !.pc = "done", !.answer = a, !.rec = r, !.ask = NoAsk,
                       !.verified = FALSE, !.cov = FALSE]

\* dropped is eliminations.staleResponse = "drop", read when it is used.
QueryAnswer(dropped) ==
    /\ qry.pc = "answer"
    /\ LET cands == Candidates(mem, qry.ask)
           cov == qry.cov \/ (~qry.verified /\ mem.uncovered)
       IN  CASE mem.blind -> AnswerIs("unavailable", NoRec)
             [] ~mem.blind /\ (~Tests(mem.bloom, qry.ask.key) \/ cands = {}) -> AnswerIs("absent", NoRec)
             [] ~mem.blind /\ Tests(mem.bloom, qry.ask.key) /\ Picks(cands, "active") # {} ->
                  \E r \in Picks(cands, "active") :
                     AnswerIs(IF cov /\ r.dep # 0 THEN "uncertain" ELSE "active", r)
             [] OTHER -> \E r \in Picks(cands, "stale") :
                            AnswerIs(IF dropped THEN "uncertain" ELSE "stale", r)
    /\ UNCHANGED <<disk, mem, ver, now, ing, ref, acked, loose, left>>

QueryDone ==
    /\ qry.pc = "done"
    /\ qry' = NoQuery
    /\ UNCHANGED <<disk, mem, ver, now, ing, ref, acked, loose, left>>

(***************************************************************************)
(* Maintenance: a refresh of every active record, then the rebuild owed    *)
(***************************************************************************)
MaintainBegin ==
    /\ mem.open /\ ~mem.blind /\ ref.pc = "idle" /\ Room
    /\ ref' = [pc |-> "compare", snap |-> Resting(mem.recs), changed |-> {}]
    /\ UNCHANGED <<disk, mem, ver, now, ing, qry, acked, loose, left>>

RefreshCompare ==
    /\ ref.pc = "compare"
    /\ ref' = [pc |-> "apply", snap |-> {}, changed |-> Changed(ref.snap)]
    /\ UNCHANGED <<disk, mem, ver, now, ing, qry, acked, loose, left>>

RefreshUncompared ==
    /\ ref.pc = "compare" /\ Fault
    /\ mem' = [mem EXCEPT !.uncovered = TRUE]
    /\ ref' = NoRefresh
    /\ UNCHANGED <<disk, ver, now, ing, qry, acked, loose>>

RefreshApply(done, c, kept) ==
    /\ ref.pc = "apply"
    /\ MarkStale([mem EXCEPT !.uncovered = FALSE], ref.changed, done, c, kept)
    /\ ref' = IF ref.changed = {} \/ AllFlipped(mem, ref.changed, done, c, kept)
              THEN [NoRefresh EXCEPT !.pc = "rebuild"] ELSE NoRefresh
    /\ UNCHANGED <<synced, named, ver, now, ing, qry, acked, loose>>

NeedsRebuild == mem.pending /\ ~mem.blind

\* The window may close first: the rebuild stays owed.
MaintainRebuild(kept) ==
    /\ ref.pc = "rebuild" /\ NeedsRebuild
    /\ IF kept THEN UNCHANGED left ELSE Fault
    /\ mem' = Rebuild(mem, kept)
    /\ cache' = IF kept THEN CacheOf(Rebuilt(mem.recs)) ELSE cache
    /\ ref' = NoRefresh
    /\ UNCHANGED <<log, synced, named, ver, now, ing, qry, acked, loose>>

MaintainEnds ==
    /\ ref.pc = "rebuild"
    /\ ref' = NoRefresh
    /\ UNCHANGED <<disk, mem, ver, now, ing, qry, acked, loose, left>>

Next ==
    \/ \E trouble \in Trouble, c \in OnStale : Open(trouble, c)
    \/ Exit \/ PowerLoss
    \/ \E v \in Version : Edit(v)
    \/ \E a \in Ask : IngestBegin(a)
    \/ MintFails
    \/ \E t \in 0..MaxClock, c \in OnStale : Record(t, c)
    \/ \E torn \in BOOLEAN : RecordFails(torn)
    \/ SyncAcknowledged \/ AnswerUnsynced
    \/ \E file \in BOOLEAN : SyncFails(file)
    \/ \E a \in Question : QueryBegin(a)
    \/ QuerySnapshot \/ QueryCompare \/ QueryUncompared
    \/ \E done \in SUBSET StillActive(mem, qry.changed), c \in OnStale, kept \in BOOLEAN :
         QueryFlip(done, c, kept)
    \/ \E dropped \in BOOLEAN : QueryAnswer(dropped)
    \/ QueryDone
    \/ MaintainBegin \/ RefreshCompare \/ RefreshUncompared
    \/ \E done \in SUBSET StillActive(mem, ref.changed), c \in OnStale, kept \in BOOLEAN :
         RefreshApply(done, c, kept)
    \/ \E kept \in BOOLEAN : MaintainRebuild(kept)
    \/ MaintainEnds

Spec == Init /\ [][Next]_vars

(***************************************************************************)
(* Properties                                                              *)
(***************************************************************************)
Swallowed == {log[i].rec.id : i \in {j \in DOMAIN log : log[j].op = "bad"}}

(* A record goes stale, never absent: no query answers "absent" for a      *)
(* question some visible record answered when it began, whatever rebuilds, *)
(* refreshes and flips run beside it, and a blind ledger never does        *)
(* (filterRecords, reconcileBloom, Query).                                 *)
NeverAbsent ==
    qry.pc = "done" /\ qry.answer = "absent" => qry.known = {} /\ ~mem.blind

(* An "active" answer rests on a dependency that held its recorded version *)
(* at some moment of the query, unless the record was made while the query *)
(* ran (refreshMatches, Query).                                            *)
ActiveIsFresh ==
    qry.pc = "done" /\ qry.answer = "active" /\ qry.rec.dep # 0 =>
        \/ qry.rec.dep \in qry.during
        \/ qry.rec.id \notin qry.known

(* What an ingest answered "recorded" for is in the log and stays there    *)
(* over crashes and power losses, with two exceptions: its line was        *)
(* appended behind an unfinished one, or a ledger that cannot append gave  *)
(* the answer, so that nothing was synced, and a power loss came           *)
(* (IngestMCP, IngestPin, syncAcknowledged).                               *)
AckedKept == acked \subseteq IdsOf(Replayed(log)) \cup Swallowed \cup loose.gone

(* The open ledger is what the next Open reads: a record in memory is in   *)
(* the log with the same status, unless an unfinished line swallowed it    *)
(* (Record, markStaleLocked append before they update).                    *)
MemoryIsLog ==
    mem.open /\ ~mem.blind =>
        \A i \in DOMAIN mem.recs :
           mem.recs[i] \in Range(Replayed(log)) \/ mem.recs[i].id \in Swallowed

(* What the ledger tells a model is true: the four above, of one behaviour *)
(* of queries, ingests, maintenance and crashes.  Excepted are the lines   *)
(* an unfinished one swallowed, and acknowledged lines lost unsynced.      *)
LedgerHonest == NeverAbsent /\ ActiveIsFresh /\ AckedKept /\ MemoryIsLog
=============================================================================
