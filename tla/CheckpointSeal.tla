-------------------------- MODULE CheckpointSeal ---------------------------
(* The checkpoint writer: how a session's draft gets its number, encodes    *)
(* closed segments, and is sealed into an immutable numbered artifact       *)
(* behind the barriers of Finalize, with crashes of the process and of the  *)
(* machine between any two steps (internal/checkpoint writer.go, finalize.go *)
(* and draft.go, store/segments.go, paths/barriers.go).                     *)
(*                                                                          *)
(* A segment is a closed segment of one session.  What a draft says of it   *)
(* is left out: a draft is its number and the segments it holds.  The file  *)
(* system keeps, over a power cut, what a sync covered and any part of the  *)
(* rest.  WriteAtomic (a draft's state file) is durable when it returns.    *)
EXTENDS Naturals, FiniteSets, FiniteSetsExt

CONSTANTS
    Session,
    NSegments,      \* closed segments of each session
    MaxRetries,     \* maxSeqCollisionRetries
    MaxSeq,         \* bound on the numbers handed out
    MaxFaults,      \* bound on failed writes and syncs
    MaxCrashes      \* bound on crashes of the process or of the machine

ASSUME CheckpointAssumption ==
    /\ {NSegments, MaxSeq} \subseteq Nat \ {0}
    /\ {MaxRetries, MaxFaults, MaxCrashes} \subseteq Nat

Segment == Session \X (1 .. NSegments)
SegmentsOf(s) == {s} \X (1 .. NSegments)
Number == 0 .. MaxSeq                           \* 0 is no number at all

VARIABLES
    \* on disk
    files, whole, named,    \* artifacts there are, with all their bytes; the names a sync covers
    carries,                \* the segments in artifact n
    lines, linesSafe,       \* the manifest's lines, and those a sync covers
    torn,                   \* a line of the manifest was cut short
    manifestNamed,          \* the manifest's own name is durable
    record, recordUnsafe,   \* the number a segment's encode record names; records not synced
    saved, stale,           \* state/draft-<session>.json, and the number in its .stale.json
    removed,                \* a removed draft file whose name a power cut may bring back
    \* in memory
    drafts,                 \* FileWriter.drafts
    reserved,               \* the number a segment is reserved into
    issued, floorLoaded,    \* issuedSeq, claimFloorLoaded
    beginning, begun,           \* where a session's Begin is, and the draft it is making
    seal, target,           \* where its Finalize is, its snapshot and the number it writes at
    \* history and bounds
    promised,               \* numbers Finalize answered without an error
    unsynced,               \* numbers sealed with segment_marks_unsynced counted
    bumped,                 \* numbers written that were not their draft's own
    unsaved,                \* numbers of drafts sealed while their state file did not hold them
    faults, crashes

diskVars == <<files, whole, named, carries, lines, linesSafe, torn, manifestNamed,
              record, recordUnsafe, saved, stale, removed>>
beginVars == <<beginning, begun, issued, floorLoaded>>
sealVars == <<seal, target>>
history == <<promised, unsynced, bumped, unsaved>>
bounds == <<faults, crashes>>
vars == <<diskVars, drafts, reserved, beginVars, sealVars, history, bounds>>

Draft == [seq : Number, held : SUBSET Segment]
Live == [seq : Number, held : SUBSET Segment, sealed : BOOLEAN, dirty : BOOLEAN]
NoFile == [seq |-> 0, held |-> {}]
NoDraft == [seq |-> 0, held |-> {}, sealed |-> FALSE, dirty |-> FALSE]

\* The shape of every variable, and what the files on disk are to each other.
TypeOK ==
    /\ whole \subseteq files /\ files \cup named \subseteq Number \ {0}
    /\ carries \in [Number -> SUBSET Segment]
    /\ linesSafe \subseteq lines /\ lines \subseteq Number \ {0}
    /\ {torn, manifestNamed} \subseteq BOOLEAN
    /\ record \in [Segment -> Number] /\ recordUnsafe \subseteq {g \in Segment : record[g] # 0}
    /\ saved \in [Session -> Draft] /\ removed \in [Session -> Draft]
    /\ stale \in [Session -> Number]
    /\ drafts \in [Session -> Live] /\ reserved \in [Segment -> Number]
    /\ \A g \in Segment : reserved[g] = 0 \/ record[g] = 0
    /\ issued \in Number /\ floorLoaded \in BOOLEAN
    /\ beginning \in [Session -> {"idle", "resumed", "fresh", "claimed"}]
    /\ begun \in [Session -> Draft]
    /\ seal \in [Session -> {"idle", "create", "write", "commit", "syncMarks", "syncDir",
                             "append", "syncLine", "syncName", "remove"}]
    /\ target \in [Session -> Draft]
    /\ promised \cup unsynced \cup bumped \cup unsaved \subseteq Number
    /\ faults \in 0 .. MaxFaults /\ crashes \in 0 .. MaxCrashes

Init ==
    /\ files = {} /\ whole = {} /\ named = {}
    /\ carries = [n \in Number |-> {}]
    /\ lines = {} /\ linesSafe = {} /\ torn = FALSE /\ manifestNamed = FALSE
    /\ record = [g \in Segment |-> 0] /\ recordUnsafe = {}
    /\ saved = [s \in Session |-> NoFile] /\ removed = [s \in Session |-> NoFile]
    /\ stale = [s \in Session |-> 0]
    /\ drafts = [s \in Session |-> NoDraft] /\ reserved = [g \in Segment |-> 0]
    /\ issued = 0 /\ floorLoaded = FALSE
    /\ beginning = [s \in Session |-> "idle"] /\ begun = [s \in Session |-> NoFile]
    /\ seal = [s \in Session |-> "idle"] /\ target = [s \in Session |-> NoFile]
    /\ promised = {} /\ unsynced = {} /\ bumped = {} /\ unsaved = {}
    /\ faults = 0 /\ crashes = 0

Highest(S) == Max(S \cup {0})
Larger(m, n) == Max({m, n})
Fault == faults < MaxFaults /\ faults' = faults + 1 /\ UNCHANGED crashes

----------------------------------------------------------------------------
(* Begin.  The per-session gate is held from the first step to the last, so a *)
(* session has one Begin; Begins of other sessions, and this session's own   *)
(* Finalize, which does not hold the gate while it retires a draft, run in    *)
(* between.                                                                   *)

\* WriteAtomic of state/draft-<session>.json: the new content is durable, and so is the directory.
WriteDraft(s, d) ==
    /\ saved' = [saved EXCEPT ![s] = [seq |-> d.seq, held |-> d.held]]
    /\ removed' = [r \in Session |-> NoFile]
    /\ UNCHANGED <<files, whole, named, carries, lines, linesSafe, torn, manifestNamed, record, recordUnsafe, stale>>

\* A live draft answers Begin; what an earlier write failed to persist is persisted now.
BeginLive(s) ==
    /\ beginning[s] = "idle" /\ drafts[s].seq # 0 /\ drafts[s].dirty /\ ~drafts[s].sealed
    /\ drafts' = [drafts EXCEPT ![s].dirty = FALSE]
    /\ WriteDraft(s, drafts[s])
    /\ UNCHANGED <<reserved, beginVars, sealVars, history, bounds>>

\* What ReadManifest returns: a line it cannot decode fails the read, and TerminatePartialTail ends a
\* line that was cut short but never removes it.
Listed == IF torn THEN {} ELSE lines

\* An unreadable manifest claims nothing.
seqClaimed(n) == n \in Listed

\* resumeDraft finds a persisted draft whose number no manifest line claims.
resumeDraft(s) ==
    /\ beginning[s] = "idle" /\ drafts[s].seq = 0
    /\ saved[s].seq # 0 /\ ~seqClaimed(saved[s].seq)
    /\ beginning' = [beginning EXCEPT ![s] = "resumed"]
    /\ begun' = [begun EXCEPT ![s] = saved[s]]
    /\ UNCHANGED <<diskVars, drafts, reserved, issued, floorLoaded, sealVars, history, bounds>>

\* The draft Begin made is in its state file and in the registry.
Publish(s) ==
    /\ WriteDraft(s, begun[s])
    /\ drafts' = [drafts EXCEPT ![s] = [seq |-> begun[s].seq, held |-> begun[s].held,
                                        sealed |-> FALSE, dirty |-> FALSE]]
    /\ beginning' = [beginning EXCEPT ![s] = "idle"]
    /\ begun' = [begun EXCEPT ![s] = NoFile]

\* The resumed draft is written back, noted (noteSeq) and published.  A write that fails leaves the
\* copy just read.
BeginResumed(s) ==
    /\ beginning[s] = "resumed"
    /\ Publish(s)
    /\ issued' = Larger(issued, begun[s].seq)
    /\ UNCHANGED <<reserved, floorLoaded, sealVars, history, bounds>>

\* The numbers unsealed work already holds: every draft file's, set aside or not, and every encode record's.
persistedClaimFloor ==
    Highest({saved[s].seq : s \in Session} \cup {stale[s] : s \in Session} \cup {record[g] : g \in Segment})

\* No persisted draft to resume: one whose number is sealed is set aside, a rename nothing syncs.
\* Then loadClaimFloor, once in a writer's lifetime.
BeginFresh(s) ==
    /\ beginning[s] = "idle" /\ drafts[s].seq = 0
    /\ saved[s].seq = 0 \/ seqClaimed(saved[s].seq)
    /\ beginning' = [beginning EXCEPT ![s] = "fresh"]
    /\ issued' = IF floorLoaded THEN issued ELSE Larger(issued, persistedClaimFloor)
    /\ floorLoaded' = TRUE
    /\ IF saved[s].seq = 0 THEN UNCHANGED <<saved, stale, removed>>
       ELSE /\ saved' = [saved EXCEPT ![s] = NoFile]
            /\ stale' = [stale EXCEPT ![s] = saved[s].seq]
            /\ removed' = [removed EXCEPT ![s] = saved[s]]
    /\ UNCHANGED <<files, whole, named, carries, lines, linesSafe, torn, manifestNamed, record, recordUnsafe,
                   drafts, reserved, begun, sealVars, history, bounds>>

\* One above what the manifest records (maxSeq: 0 when it is unreadable) and what this writer handed out, past the artifacts there are.
NextNumber ==
    LET from == Larger(Highest(Listed), issued) + 1
        free == {n \in from .. from + MaxRetries : n \notin files}
    IN IF free = {} THEN from + MaxRetries ELSE Min(free)

claimSeq(s) ==
    /\ beginning[s] = "fresh" /\ NextNumber <= MaxSeq
    /\ issued' = NextNumber
    /\ begun' = [begun EXCEPT ![s] = [seq |-> NextNumber, held |-> {}]]
    /\ beginning' = [beginning EXCEPT ![s] = "claimed"]
    /\ UNCHANGED <<diskVars, drafts, reserved, floorLoaded, sealVars, history, bounds>>

\* seedTierOne or the frontier read fails, on a spent PreCompact budget say: releaseSeq.
BeginFails(s) ==
    /\ beginning[s] = "claimed"
    /\ beginning' = [beginning EXCEPT ![s] = "idle"] /\ begun' = [begun EXCEPT ![s] = NoFile]
    /\ issued' = IF issued = begun[s].seq THEN issued - 1 ELSE issued
    /\ UNCHANGED <<diskVars, drafts, reserved, floorLoaded, sealVars, history, bounds>>

BeginPersist(s) ==
    /\ beginning[s] = "claimed"
    /\ Publish(s)
    /\ UNCHANGED <<reserved, issued, floorLoaded, sealVars, history, bounds>>

\* The write fails: the number is not given back.
BeginPersistFails(s) ==
    /\ beginning[s] = "claimed" /\ Fault
    /\ beginning' = [beginning EXCEPT ![s] = "idle"] /\ begun' = [begun EXCEPT ![s] = NoFile]
    /\ UNCHANGED <<diskVars, drafts, reserved, issued, floorLoaded, sealVars, history>>

----------------------------------------------------------------------------
(* Advance: encode closed segments into a live draft.                        *)

\* The checkpoint the log says a segment is encoded into; a reservation counts, a record is for good.
EncodedInto(g) == Larger(record[g], reserved[g])

\* The segments of an offer the draft takes: not its own already, and in no other checkpoint.
Candidates(d, offer) == {g \in offer \ d.held : EncodedInto(g) \in {0, d.seq}}

\* ReserveEncoded: the whole batch or nothing, and nothing is written.
ReserveEncoded(r, batch, n) ==
    IF \A g \in batch : Larger(record[g], r[g]) \in {0, n}
    THEN [g \in Segment |-> IF g \in batch /\ record[g] = 0 THEN n ELSE r[g]]
    ELSE r

\* The offer is a list read before this call, so segments encoded since may be in it.
Advance(s) ==
    \E offer \in SUBSET SegmentsOf(s) \ {{}} :
      LET d == drafts[s]
          taken == Candidates(d, offer)
          grown == [d EXCEPT !.held = @ \cup taken, !.dirty = @ \/ taken # {}]
      IN /\ d.seq # 0 /\ ~d.sealed
         /\ reserved' = ReserveEncoded(ReserveEncoded(reserved, taken, d.seq), offer \cap d.held, d.seq)
         /\ \/ /\ grown.dirty
               /\ drafts' = [drafts EXCEPT ![s] = [grown EXCEPT !.dirty = FALSE]]
               /\ WriteDraft(s, grown)
               /\ UNCHANGED bounds
            \/ /\ grown.dirty /\ Fault
               /\ drafts' = [drafts EXCEPT ![s] = grown]
               /\ UNCHANGED diskVars
            \/ /\ ~grown.dirty
               /\ UNCHANGED <<diskVars, drafts, bounds>>
         /\ UNCHANGED <<beginVars, sealVars, history>>

----------------------------------------------------------------------------
(* Finalize.  The draft is sealed while it runs, or until it fails.          *)

At(s, step) == seal[s] = step
Step(s, step) == seal' = [seal EXCEPT ![s] = step]

\* The deferred unseal of a Finalize that returns before its line is in the manifest.
Unseal(s) ==
    /\ Step(s, "idle") /\ target' = [target EXCEPT ![s] = NoFile]
    /\ drafts' = [drafts EXCEPT ![s].sealed = FALSE]

\* Deviation: the snapshot is taken and the draft left open.
sealForFinalizeOpen(s) ==
    /\ At(s, "idle") /\ drafts[s].seq # 0 /\ ~drafts[s].sealed
    /\ Step(s, "create")
    /\ target' = [target EXCEPT ![s] = [seq |-> drafts[s].seq, held |-> drafts[s].held]]
    /\ UNCHANGED <<diskVars, drafts, reserved, beginVars, history, bounds>>

sealForFinalize(s) ==
    /\ At(s, "idle") /\ drafts[s].seq # 0 /\ ~drafts[s].sealed
    /\ drafts' = [drafts EXCEPT ![s].sealed = TRUE]
    /\ Step(s, "create")
    /\ target' = [target EXCEPT ![s] = [seq |-> drafts[s].seq, held |-> drafts[s].held]]
    /\ unsaved' = IF drafts[s].held \subseteq saved[s].held THEN unsaved ELSE unsaved \cup {drafts[s].seq}
    /\ UNCHANGED <<diskVars, reserved, beginVars, promised, unsynced, bumped, bounds>>

\* O_EXCL: the name is this Finalize's, or the next number is tried, MaxRetries times.
CreateNew(s) ==
    /\ At(s, "create") /\ target[s].seq \notin files
    /\ files' = files \cup {target[s].seq}
    /\ Step(s, "write")
    /\ UNCHANGED <<whole, named, carries, lines, linesSafe, torn, manifestNamed, record, recordUnsafe, saved, stale,
                   removed, drafts, reserved, beginVars, target, history, bounds>>

Collides(s) ==
    /\ At(s, "create") /\ target[s].seq \in files
    /\ \/ /\ target[s].seq - drafts[s].seq < MaxRetries /\ target[s].seq < MaxSeq
          /\ target' = [target EXCEPT ![s].seq = @ + 1]
          /\ UNCHANGED <<seal, drafts>>
       \/ /\ target[s].seq - drafts[s].seq >= MaxRetries
          /\ Unseal(s)
    /\ UNCHANGED <<diskVars, reserved, beginVars, history, bounds>>

\* The bytes are written and synced; reconcileEncodedSeq gives the draft the number it was written at.
WriteArtifact(s) ==
    /\ At(s, "write")
    /\ whole' = whole \cup {target[s].seq}
    /\ carries' = [carries EXCEPT ![target[s].seq] = target[s].held]
    /\ bumped' = IF target[s].seq = drafts[s].seq THEN bumped ELSE bumped \cup {target[s].seq}
    /\ drafts' = [drafts EXCEPT ![s].seq = target[s].seq]
    /\ Step(s, IF target[s].held = {} THEN "syncDir" ELSE "commit")
    /\ UNCHANGED <<files, named, lines, linesSafe, torn, manifestNamed, record, recordUnsafe, saved, stale, removed,
                   reserved, beginVars, target, promised, unsynced, unsaved, bounds>>

\* The write or its sync fails: the partial file is removed.
WriteArtifactFails(s) ==
    /\ At(s, "write") /\ Fault
    /\ files' = files \ {target[s].seq}
    /\ Unseal(s)
    /\ UNCHANGED <<whole, named, carries, lines, linesSafe, torn, manifestNamed, record, recordUnsafe, saved, stale,
                   removed, reserved, beginVars, history>>

\* commitSegmentMarks: a record for each segment of a set that has none.  A segment another number
\* durably holds keeps it: the drift that is reported.
CommitEncoded(S, n) ==
    LET pending == {g \in S : record[g] = 0}
    IN /\ record' = [g \in Segment |-> IF g \in pending THEN n ELSE record[g]]
       /\ reserved' = [g \in Segment |-> IF g \in pending THEN 0 ELSE reserved[g]]
       /\ recordUnsafe' = recordUnsafe \cup pending

CommitMarks(s) ==
    /\ At(s, "commit")
    /\ CommitEncoded(target[s].held, target[s].seq)
    /\ Step(s, "syncMarks")
    /\ UNCHANGED <<files, whole, named, carries, lines, linesSafe, torn, manifestNamed, saved, stale, removed, drafts,
                   beginVars, target, history, bounds>>

\* Some appends fail, batch and one by one: the seal goes on without the sync.
CommitMarksFails(s) ==
    /\ At(s, "commit") /\ Fault
    /\ \E written \in SUBSET target[s].held \ {target[s].held} : CommitEncoded(written, target[s].seq)
    /\ unsynced' = unsynced \cup {target[s].seq}
    /\ Step(s, "syncDir")
    /\ UNCHANGED <<files, whole, named, carries, lines, linesSafe, torn, manifestNamed, saved, stale, removed, drafts,
                   beginVars, target, promised, bumped, unsaved>>

SyncMarks(s) ==
    /\ At(s, "syncMarks")
    /\ recordUnsafe' = {}
    /\ Step(s, "syncDir")
    /\ UNCHANGED <<files, whole, named, carries, lines, linesSafe, torn, manifestNamed, record, saved, stale, removed,
                   drafts, reserved, beginVars, target, history, bounds>>

SyncMarksFails(s) ==
    /\ At(s, "syncMarks") /\ Fault
    /\ unsynced' = unsynced \cup {target[s].seq}
    /\ Step(s, "syncDir")
    /\ UNCHANGED <<diskVars, drafts, reserved, beginVars, target, promised, bumped, unsaved>>

\* AppendManifest's first barrier: the artifact's name, and the manifest's if it exists.
SyncDir(s) ==
    /\ At(s, "syncDir")
    /\ named' = files
    /\ manifestNamed' = (manifestNamed \/ lines # {} \/ torn)
    /\ Step(s, "append")
    /\ UNCHANGED <<files, whole, carries, lines, linesSafe, torn, record, recordUnsafe, saved, stale, removed,
                   drafts, reserved, beginVars, target, history, bounds>>

\* The barrier or the append fails: the artifact stays, an orphan, and a failed write may leave a
\* part of the line.
SealFails(s) ==
    /\ seal[s] \in {"syncDir", "append"} /\ Fault
    /\ Unseal(s)
    /\ torn' \in {torn, torn \/ At(s, "append")}
    /\ UNCHANGED <<files, whole, named, carries, lines, linesSafe, manifestNamed, record,
                   recordUnsafe, saved, stale, removed, reserved, beginVars, history>>

AppendLine(s) ==
    /\ At(s, "append")
    /\ lines' = lines \cup {target[s].seq}
    /\ Step(s, "syncLine")
    /\ UNCHANGED <<files, whole, named, carries, linesSafe, torn, manifestNamed, record, recordUnsafe, saved, stale,
                   removed, drafts, reserved, beginVars, target, history, bounds>>

\* The seal is visible: retireDraft drops the registry entry, and its state file next.
Retire(s) ==
    /\ drafts' = [drafts EXCEPT ![s] = NoDraft]
    /\ Step(s, "remove")

\* The line is durable; with the manifest's name durable too, Finalize will answer without an error.
SyncLine(s) ==
    /\ At(s, "syncLine")
    /\ linesSafe' = lines
    /\ IF manifestNamed THEN Retire(s) /\ promised' = promised \cup {target[s].seq}
       ELSE Step(s, "syncName") /\ UNCHANGED <<drafts, promised>>
    /\ UNCHANGED <<files, whole, named, carries, lines, torn, manifestNamed, record, recordUnsafe, saved, stale,
                   removed, reserved, beginVars, target, unsynced, bumped, unsaved, bounds>>

SyncName(s) ==
    /\ At(s, "syncName")
    /\ named' = files /\ manifestNamed' = TRUE
    /\ promised' = promised \cup {target[s].seq}
    /\ Retire(s)
    /\ UNCHANGED <<files, whole, carries, lines, linesSafe, torn, record, recordUnsafe, saved, stale, removed,
                   reserved, beginVars, target, unsynced, bumped, unsaved, bounds>>

\* ErrLineNotDurable: the draft is sealed all the same, and Finalize answers an error.
LineNotDurable(s) ==
    /\ seal[s] \in {"syncLine", "syncName"} /\ Fault
    /\ Retire(s)
    /\ UNCHANGED <<diskVars, reserved, beginVars, target, history>>

\* os.Remove, whatever draft the file now holds, and nothing syncs it.
\* The successor Finalize then begins is a Begin as any other.
RemoveDraftFile(s) ==
    /\ At(s, "remove")
    /\ removed' = [removed EXCEPT ![s] = IF saved[s] = NoFile THEN @ ELSE saved[s]]
    /\ saved' = [saved EXCEPT ![s] = NoFile]
    /\ Step(s, "idle") /\ target' = [target EXCEPT ![s] = NoFile]
    /\ UNCHANGED <<files, whole, named, carries, lines, linesSafe, torn, manifestNamed, record, recordUnsafe, stale,
                   drafts, reserved, beginVars, history, bounds>>

----------------------------------------------------------------------------
(* Crashes.  A new daemon opens the writer and the segment log: reservations, *)
(* live drafts and the numbers handed out are gone.                          *)

Restart ==
    /\ crashes < MaxCrashes /\ crashes' = crashes + 1
    /\ drafts' = [s \in Session |-> NoDraft] /\ reserved' = [g \in Segment |-> 0]
    /\ issued' = 0 /\ floorLoaded' = FALSE
    /\ beginning' = [s \in Session |-> "idle"] /\ begun' = [s \in Session |-> NoFile]
    /\ seal' = [s \in Session |-> "idle"] /\ target' = [s \in Session |-> NoFile]
    /\ UNCHANGED <<history, faults>>

ProcessCrash ==
    /\ Restart
    /\ UNCHANGED diskVars

\* What no barrier covered survives in any part: names, lines, of which one may be cut short, records,
\* a removed draft file.
PowerCut ==
    /\ Restart
    /\ \E kept \in SUBSET ((files \cup named) \ (files \cap named)), keptLines \in SUBSET (lines \ linesSafe),
          lost \in SUBSET recordUnsafe, back \in SUBSET {s \in Session : removed[s] # NoFile},
          keptManifest \in {manifestNamed, TRUE} :
         /\ files' = (files \cap named) \cup kept /\ named' = files'
         /\ whole' = whole \cap files'
         /\ carries' = [n \in Number |-> IF n \in files' THEN carries[n] ELSE {}]
         /\ lines' = IF keptManifest THEN linesSafe \cup keptLines ELSE {}
         /\ linesSafe' = lines'
         /\ torn' \in {keptManifest /\ (torn \/ cut) : cut \in {FALSE, ~(lines \ linesSafe \subseteq keptLines)}}
         /\ manifestNamed' = (keptManifest /\ (lines # {} \/ torn))
         /\ record' = [g \in Segment |-> IF g \in lost THEN 0 ELSE record[g]]
         /\ recordUnsafe' = {}
         /\ saved' = [s \in Session |-> IF s \in back THEN removed[s] ELSE saved[s]]
         /\ removed' = [s \in Session |-> NoFile]
         /\ UNCHANGED stale

Next ==
    \/ \E s \in Session :
        \/ BeginLive(s) \/ resumeDraft(s) \/ BeginResumed(s)
        \/ BeginFresh(s) \/ claimSeq(s) \/ BeginFails(s) \/ BeginPersist(s) \/ BeginPersistFails(s)
        \/ Advance(s)
        \/ sealForFinalize(s) \/ CreateNew(s) \/ Collides(s)
        \/ WriteArtifact(s) \/ WriteArtifactFails(s)
        \/ CommitMarks(s) \/ CommitMarksFails(s) \/ SyncMarks(s) \/ SyncMarksFails(s)
        \/ SyncDir(s) \/ SealFails(s) \/ AppendLine(s)
        \/ SyncLine(s) \/ SyncName(s) \/ LineNotDurable(s)
        \/ RemoveDraftFile(s)
    \/ ProcessCrash \/ PowerCut

Spec == Init /\ [][Next]_vars

----------------------------------------------------------------------------
\* A manifest line never names an artifact whose bytes or whose name a crash took: the reader
\* refuses such a line (paths.AppendManifest's order of barriers, step 1 and CreateNew's sync).
SealReadable == lines \subseteq whole

\* A seal Finalize answered without an error stays for good, whatever crashes follow: its line is in
\* the manifest and its artifact is whole (AppendManifest's barriers).  A reader sees it as long as no
\* other line of the manifest was cut short: then it refuses the whole manifest (ReadManifest).
PromiseKept == promised \subseteq lines \cap whole /\ (torn \/ promised \subseteq Listed)

\* A sealed checkpoint's segments are encoded by the log's own records, through any crash, unless the
\* seal was counted segment_marks_unsynced: so no later draft encodes them again (sealSegmentMarks).
SealMarked ==
    \A n \in lines \ unsynced : \A g \in carries[n] : record[g] # 0

\* The segment's content is somewhere a session resumes from: an artifact, a live draft, one a Begin
\* is reading, or a persisted draft that will resume.
Reachable(g) ==
    LET s == g[1]
    IN \/ \E n \in whole : g \in carries[n]
       \/ g \in drafts[s].held \/ g \in begun[s].held
       \/ g \in saved[s].held /\ ~seqClaimed(saved[s].seq)

\* No segment is flagged encoded, and so offered to no draft again, while nothing holds its content,
\* except a segment recorded into a number that another draft's collision then took, or by the seal
\* of a draft its state file did not hold: its last persist had failed, or retireDraft, which removes
\* the file after a concurrent Begin wrote the successor's, had removed it.
NoneStranded == \A g \in Segment : EncodedInto(g) \notin {0} \cup bumped \cup unsaved => Reachable(g)

\* The same without the first exception: no draft is set aside because another session's seal took its
\* number, with its segments encoded into nothing (persistedClaimFloor's comment).
NoneSetAside == \A g \in Segment : EncodedInto(g) \notin {0} \cup unsaved => Reachable(g)

\* No two sessions' drafts have the same number, unless a collision moved one: one's seal would have
\* the other's draft, resumed later, set aside with what it holds (F-UAT03-2, persistedClaimFloor).
NumberOf(s) == IF drafts[s].seq # 0 THEN drafts[s].seq ELSE saved[s].seq
DraftsApart ==
    \A r, s \in Session : NumberOf(r) = NumberOf(s) => r = s \/ NumberOf(s) \in {0} \cup bumped

\* No segment is in two sealed checkpoints (the DPI guard of Advance and CommitEncoded), except for
\* seals written at a number that was not their draft's own, and seals counted segment_marks_unsynced.
SealedOnce == \A m, n \in lines \ (bumped \cup unsynced) : m # n => carries[m] \cap carries[n] = {}

\* What a seal promises, through any crash: its line names a whole artifact, an answered seal stays,
\* its segments stay marked and are in no other checkpoint, no flagged segment is stranded, and
\* two drafts have two numbers.
SealSound ==
    SealReadable /\ PromiseKept /\ SealMarked /\ SealedOnce /\ NoneStranded /\ DraftsApart
=============================================================================
