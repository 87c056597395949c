--------------------------- MODULE SpoolProgress ---------------------------
(* One WAL segment name: the ingest that appends to it and syncs it, the    *)
(* drain passes that replay it, the progress record in state/drain.json,    *)
(* the removal of a finished segment, and the crashes of the process and of *)
(* the machine between any two steps (internal/daemon ingest.go, drain.go). *)
(*                                                                          *)
(* The unit of size is a line.  A line number is a whole line, 0 a partial  *)
(* line at the end of the file (a short write, or a tail a machine crash    *)
(* tore), and Corrupt(n) the line n written straight after a partial one:   *)
(* the two read back as one line that does not decode.  A pass may consume  *)
(* lines out of order (one that waits on an earlier arrival is left where   *)
(* it is), and its offset covers the consumed prefix only.  What consuming a   *)
(* line does is the subject of other modules: here it enters `consumed'.    *)
EXTENDS Naturals, Sequences, FiniteSets, Functions

CONSTANTS
    MaxLines,       \* appends in one behaviour
    MaxFaults,      \* failed syncs and saves
    MaxTears,       \* short writes, and machine crashes that tear a line
    MaxCrashes      \* crashes of the process or of the machine

ASSUME SpoolAssumption ==
    /\ MaxLines \in Nat \ {0}
    /\ {MaxFaults, MaxTears, MaxCrashes} \subseteq Nat

Line == 1 .. MaxLines
Corrupt(n) == MaxLines + n

VARIABLES
    exists, file,   \* the segment's name is in the directory; its lines
    durable,        \* how many of them a machine crash leaves
    unlinked,       \* lines of an unlinked file the directory's disk blocks still name
    handle,         \* the ingest's handle: closed, open, or written and not yet synced
    synced, syncFailed,     \* ingest.synced of the segment, walFile.syncFailed
    lag,            \* 1 when walFile.bytes misses the bytes a failed write left in the file
    entry,          \* the segment's record in state/drain.json
    live,           \* the registry counts the session as live
    pc, st, stat, end, processed,   \* the pass: its step, its record, what it reads
    appended, acked, consumed,      \* lines written, acknowledged to a hook, replayed
    glued,          \* history: lines written straight after a partial one
    faults, tears, crashes

bounds == <<faults, tears, crashes>>
ingestVars == <<handle, synced, syncFailed, lag, appended, acked, glued>>
fileVars == <<exists, file, durable, unlinked>>
passVars == <<pc, st, stat, end, processed>>
vars == <<fileVars, ingestVars, entry, live, passVars, consumed, bounds>>

Size == 0 .. MaxLines
Record == [offset : Size, size : Size, done : BOOLEAN]
NoEntry == [offset |-> 0, size |-> 0, done |-> FALSE]  \* what drainFile starts an unknown file from

\* The shape of every variable.  No record is the empty sequence, a record a sequence of one.
TypeOK ==
    /\ exists \in BOOLEAN /\ live \in BOOLEAN
    /\ file \in Seq(0 .. Corrupt(MaxLines)) /\ unlinked \in Seq(0 .. Corrupt(MaxLines))
    /\ durable \in 0 .. Len(file)
    /\ handle \in {"closed", "open", "written"} /\ synced \in Size
    /\ syncFailed \in BOOLEAN /\ lag \in {0, 1}
    /\ entry \in {<< >>} \cup {<<r>> : r \in Record}
    /\ pc \in {"idle", "stat", "bound", "read", "record", "save", "remove", "unlink", "final"}
    /\ st \in Record /\ stat \in Size /\ end \in 0 .. stat /\ processed \subseteq 1 .. end
    /\ appended \in Size /\ acked \subseteq 1 .. appended /\ consumed \subseteq 1 .. appended
    /\ glued \subseteq 1 .. appended
    /\ faults \in 0 .. MaxFaults /\ tears \in 0 .. MaxTears /\ crashes \in 0 .. MaxCrashes

Init ==
    /\ exists = FALSE /\ file = << >> /\ durable = 0 /\ unlinked = << >>
    /\ handle = "closed" /\ synced = 0 /\ syncFailed = FALSE /\ lag = 0
    /\ entry = << >> /\ live = TRUE
    /\ pc = "idle" /\ st = NoEntry /\ stat = 0 /\ end = 0 /\ processed = {}
    /\ appended = 0 /\ acked = {} /\ glued = {} /\ consumed = {}
    /\ faults = 0 /\ tears = 0 /\ crashes = 0

Fault == faults < MaxFaults /\ faults' = faults + 1
Tear == tears < MaxTears /\ tears' = tears + 1

-----------------------------------------------------------------------------
(* The ingest.  Its mutex is held from Write to Sync, so an open, a close   *)
(* and a removal wait while handle is "written".                            *)

\* Deviation: what an existing file holds is taken for durable.
OpenWALTrustsFile ==
    /\ handle = "closed" /\ appended < MaxLines
    /\ handle' = "open" /\ synced' = Len(file) /\ syncFailed' = FALSE /\ lag' = 0
    /\ exists' = TRUE /\ unlinked' = << >>
    /\ UNCHANGED <<file, durable, appended, acked, glued, entry, live, passVars, consumed, bounds>>

\* openWALLocked creates the name if needed and syncs the directory; nothing of the segment is
\* known durable through the new handle.  It looks at nothing in a file that is already there.
OpenWAL ==
    /\ handle = "closed" /\ appended < MaxLines
    /\ handle' = "open" /\ synced' = 0 /\ syncFailed' = FALSE /\ lag' = 0
    /\ exists' = TRUE /\ unlinked' = << >>
    /\ UNCHANGED <<file, durable, appended, acked, glued, entry, live, passVars, consumed, bounds>>

EndsPartial == file # << >> /\ file[Len(file)] = 0

Write ==
    /\ handle = "open" /\ appended < MaxLines
    /\ handle' = "written"
    /\ file' = IF EndsPartial
               THEN [file EXCEPT ![Len(file)] = Corrupt(appended + 1)]
               ELSE Append(file, appended + 1)
    /\ appended' = appended + 1
    /\ glued' = IF EndsPartial THEN glued \cup {appended + 1} ELSE glued
    /\ UNCHANGED <<exists, durable, unlinked, synced, syncFailed, lag, acked, entry, live,
                   passVars, consumed, bounds>>

\* A write error after some of the bytes: the line fails, no Sync follows, and the bytes are not
\* counted into walFile.bytes.
ShortWrite ==
    /\ handle = "open" /\ appended < MaxLines /\ Tear
    /\ file' = IF EndsPartial THEN file ELSE Append(file, 0)
    /\ appended' = appended + 1 /\ lag' = 1
    /\ UNCHANGED <<exists, durable, unlinked, handle, synced, syncFailed, acked, glued, entry,
                   live, passVars, consumed, faults, crashes>>

\* The Sync returns: the line is acknowledged, and the segment is synced to its end unless an
\* earlier Sync of the handle failed (publishSynced).
Sync ==
    /\ handle = "written"
    /\ handle' = "open"
    /\ durable' = Len(file)
    /\ synced' = IF syncFailed THEN synced ELSE Len(file) - lag
    /\ acked' = acked \cup {appended}
    /\ UNCHANGED <<exists, file, unlinked, syncFailed, lag, appended, glued, entry, live, passVars,
                   consumed, bounds>>

SyncFails ==
    /\ handle = "written" /\ Fault
    /\ handle' = "open" /\ syncFailed' = TRUE
    /\ UNCHANGED <<fileVars, synced, lag, appended, acked, glued, entry, live, passVars, consumed,
                   tears, crashes>>

\* CloseSession: the handle goes, and with it what was known of the segment's synced size.
CloseSession ==
    /\ handle = "open"
    /\ handle' = "closed" /\ synced' = 0 /\ syncFailed' = FALSE /\ lag' = 0
    /\ UNCHANGED <<fileVars, appended, acked, glued, entry, live, passVars, consumed, bounds>>

\* registry.End.  A straggler may still reopen the segment.
EndSession ==
    /\ live /\ live' = FALSE
    /\ UNCHANGED <<fileVars, ingestVars, entry, passVars, consumed, bounds>>

-----------------------------------------------------------------------------
(* One pass of the drainer over the segment.                                *)

PassOver == pc' = "idle" /\ st' = NoEntry /\ stat' = 0 /\ end' = 0 /\ processed' = {}

Loaded == IF entry = << >> THEN NoEntry ELSE entry[1]

\* loadState and validateProgress: what the record must say for a pass to start.
Loads(r) ==
    /\ r.offset <= r.size /\ (r.done => r.offset = r.size)
    /\ r.size <= Len(file)

Begin ==
    /\ pc = "idle" /\ exists /\ Loads(Loaded)
    /\ st' = Loaded /\ pc' = "stat"
    /\ UNCHANGED <<fileVars, ingestVars, entry, live, stat, end, processed, consumed, bounds>>

Stat ==
    /\ pc = "stat"
    /\ stat' = Len(file)
    /\ IF st.done /\ st.size = Len(file)
       THEN pc' = "remove" /\ st' = st
       ELSE pc' = "bound" /\ st' = [st EXCEPT !.done = FALSE]
    /\ UNCHANGED <<fileVars, ingestVars, entry, live, end, processed, consumed, bounds>>

\* durableEnd: a held segment is read up to its synced size, with no I/O; any other one with
\* unread bytes is synced first.
Lesser(m, n) == IF m < n THEN m ELSE n
Greater(m, n) == IF m < n THEN n ELSE m

Bound ==
    /\ pc = "bound"
    /\ pc' = "read"
    /\ IF handle # "closed"
       THEN end' = Lesser(stat, synced) /\ durable' = durable
       ELSE /\ end' = stat
            /\ durable' = IF stat > st.offset THEN Len(file) ELSE durable
    /\ UNCHANGED <<exists, file, unlinked, ingestVars, entry, live, st, stat, processed, consumed,
                   bounds>>

BoundFails ==
    /\ pc = "bound" /\ handle = "closed" /\ stat > st.offset /\ Fault
    /\ pc' = "final"
    /\ UNCHANGED <<fileVars, ingestVars, entry, live, st, stat, end, processed, consumed, tears,
                   crashes>>

\* A line, whole or corrupt, is consumed, and the offset rolls over the consumed prefix.
Rolled(done) ==
    CHOOSE o \in st.offset .. end :
        /\ st.offset + 1 .. o \subseteq done
        /\ o + 1 \notin done

Consume(i) ==
    /\ pc = "read" /\ i \in st.offset + 1 .. end \ processed /\ file[i] # 0
    /\ processed' = processed \cup {i}
    /\ st' = [st EXCEPT !.offset = Rolled(processed')]
    /\ consumed' = consumed \cup ({file[i]} \cap Line)
    /\ UNCHANGED <<fileVars, ingestVars, entry, live, pc, stat, end, bounds>>

\* The record names the larger of the bound just read to and the one it already holds.
WithSize(r) == [r EXCEPT !.size = Greater(end, r.size)]

\* The pass read to its bound, deferring the lines it did not consume.
EndRead ==
    /\ pc = "read" /\ pc' = "save"
    /\ st' = [WithSize(st) EXCEPT !.done = st.offset = stat /\ WithSize(st).size = st.offset]
    /\ UNCHANGED <<fileVars, ingestVars, entry, live, stat, end, processed, consumed, bounds>>

\* The pass was cancelled, spent its budget or met an error.
StopRead ==
    /\ pc = "read" /\ pc' = "final"
    /\ st' = WithSize(st)
    /\ UNCHANGED <<fileVars, ingestVars, entry, live, stat, end, processed, consumed, bounds>>

Save ==
    /\ pc = "save" /\ pc' = "remove"
    /\ entry' = <<st>>
    /\ UNCHANGED <<fileVars, ingestVars, live, st, stat, end, processed, consumed, bounds>>

SaveFails ==
    /\ pc \in {"save", "remove"} /\ Fault
    /\ pc = "remove" => st.done /\ ~live /\ handle = "closed"
    /\ pc' = "final"
    /\ UNCHANGED <<fileVars, ingestVars, entry, live, st, stat, end, processed, consumed, tears,
                   crashes>>

\* removeCompletedFile leaves an unfinished file, a live session's and one the ingest holds.
Keep ==
    /\ pc = "remove" /\ (~st.done \/ live \/ handle = "open")
    /\ pc' = "final"
    /\ UNCHANGED <<fileVars, ingestVars, entry, live, st, stat, end, processed, consumed, bounds>>

\* The record is forgotten, durably, before the unlink.
Forget ==
    /\ pc = "remove" /\ st.done /\ ~live /\ handle = "closed"
    /\ entry' = << >>
    /\ pc' = "unlink"
    /\ UNCHANGED <<fileVars, ingestVars, live, st, stat, end, processed, consumed, bounds>>

\* removeDrainedWAL, under the ingest's mutex: a held segment, and one that grew, are refused.
Unlink ==
    /\ pc = "unlink" /\ handle = "closed" /\ Len(file) = st.offset
    /\ exists' = FALSE /\ file' = << >> /\ durable' = 0 /\ unlinked' = file
    /\ PassOver
    /\ UNCHANGED <<ingestVars, entry, live, consumed, bounds>>

\* Deviation: only a held segment is refused.
UnlinkRefusedHeld ==
    /\ pc = "unlink" /\ handle = "open"
    /\ pc' = "final"
    /\ UNCHANGED <<fileVars, ingestVars, entry, live, st, stat, end, processed, consumed, bounds>>

UnlinkRefused ==
    /\ pc = "unlink" /\ (handle = "open" \/ (handle = "closed" /\ Len(file) # st.offset))
    /\ pc' = "final"
    /\ UNCHANGED <<fileVars, ingestVars, entry, live, st, stat, end, processed, consumed, bounds>>

\* The pass's last save, which also puts back the record of a removal that did not happen.
Final ==
    /\ pc = "final"
    /\ entry' = <<st>>
    /\ PassOver
    /\ UNCHANGED <<fileVars, ingestVars, live, consumed, bounds>>

FinalFails ==
    /\ pc = "final" /\ Fault
    /\ PassOver
    /\ UNCHANGED <<fileVars, ingestVars, entry, live, consumed, tears, crashes>>

-----------------------------------------------------------------------------
(* Crashes.  The kernel keeps what a dead process wrote; a machine crash    *)
(* keeps the durable lines and any run of the ones after them, the last of  *)
(* which it may tear, and may bring back a name whose unlink no directory   *)
(* sync followed.                                                           *)

Restart ==
    /\ crashes < MaxCrashes /\ crashes' = crashes + 1
    /\ handle' = "closed" /\ synced' = 0 /\ syncFailed' = FALSE /\ lag' = 0
    /\ PassOver
    /\ UNCHANGED <<appended, acked, glued, entry, live, consumed, faults>>

ProcessCrash == Restart /\ UNCHANGED <<fileVars, tears>>

MachineCrash ==
    /\ exists /\ Restart
    /\ \E n \in durable .. Len(file) :
        \/ file' = SubSeq(file, 1, n) /\ tears' = tears
        \/ n < Len(file) /\ file' = Append(SubSeq(file, 1, n), 0) /\ Tear
    /\ durable' = Len(file')
    /\ UNCHANGED <<exists, unlinked>>

Resurrect ==
    /\ ~exists /\ unlinked # << >> /\ Restart
    /\ exists' = TRUE /\ file' = unlinked /\ durable' = Len(unlinked) /\ unlinked' = << >>
    /\ UNCHANGED tears

-----------------------------------------------------------------------------
IngestStep == OpenWAL \/ Write \/ ShortWrite \/ Sync \/ SyncFails \/ CloseSession \/ EndSession

PassStep ==
    \/ Begin \/ Stat \/ Bound \/ BoundFails \/ EndRead \/ StopRead
    \/ \E i \in Line : Consume(i)
    \/ Save \/ SaveFails \/ Keep \/ Forget \/ Unlink \/ UnlinkRefused \/ Final \/ FinalFails

Next == IngestStep \/ PassStep \/ ProcessCrash \/ MachineCrash \/ Resurrect

Spec == Init /\ [][Next]_vars

\* Passes keep coming (session ends, idle and requested drains), a pass that started goes on, and a
\* line some pass could consume again and again is not put off for ever.
Fairness ==
    /\ WF_vars(PassStep) /\ SF_vars(EndRead) /\ WF_vars(Sync)
    /\ \A i \in Line : SF_vars(Consume(i))

FairSpec == Spec /\ Fairness

-----------------------------------------------------------------------------
\* Whatever was crashed, reopened or removed in between, the progress record on disk is one the
\* next pass accepts: consistent in itself, and naming no byte the file lacks.  One record that
\* does not refuses the drain of the whole spool (validateProgress, loadState).
NeverRefused == exists /\ entry # << >> => Loads(entry[1])

Replayable(l) == l \in consumed \/ \E i \in Loaded.offset + 1 .. Len(file) : file[i] = l

\* A line a hook was told is durable has been replayed, or is whole in the segment past the offset
\* the next pass will start from: no crash, removal or recorded offset loses it.  Except for a line
\* appended straight after a partial one, which openWALLocked and a failed write leave in place.
AckedReplayable == \A l \in acked \ glued : Replayable(l)

\* Every acknowledged line is replayable, a partial line before it or not: what the comment on the
\* spool's append claims.
EveryAckReplayable == \A l \in acked : Replayable(l)

\* A pass makes nothing of a line that a machine crash could still take (durableEnd): an orphan
\* lease would otherwise outlive the delivery it was minted for.
ConsumedIsDurable == \A i \in 1 .. Len(file) : file[i] \in consumed => i <= durable

\* What the spool promises: the progress record always loads, no acknowledged line is lost, and no
\* pass acts on a line a crash could still take (validateProgress, removeCompletedFile, durableEnd).
SpoolSound == NeverRefused /\ AckedReplayable /\ ConsumedIsDurable

\* Once its session has ended and the ingest has let go of it, a segment is drained and removed,
\* unless it ends in a partial line, which no pass consumes.
EndedSegmentRemoved == <>[](~live /\ handle = "closed" /\ ~EndsPartial) => <>[](~exists)
=============================================================================
