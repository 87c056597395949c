----------------------------- MODULE Migration -----------------------------
(* The legacy import, the handoff of writing, the backup and the rollback     *)
(* drill (internal/store/migrate.go, backup.go, backup_segments.go).          *)
(*                                                                            *)
(* A record is named by its position in the legacy source, and Payload gives  *)
(* its content, which names the imported object: two records may share one.   *)
(* One process runs the migrator: m.mu makes Import, Cutover and              *)
(* RecordNewFormatWrite exclude each other, and the writer lease makes        *)
(* TakeBackup and RehearseRollback exclude each other and the legacy writer,  *)
(* but the two groups interleave.  A running daemon takes neither.            *)
(*                                                                            *)
(* Left out: the fields semantic parity compares besides the record set, and  *)
(* the handoff's FirstNewWriteAt, which nothing reads.  Torn bytes never read *)
(* the same twice.                                                            *)
EXTENDS Naturals, Sequences, FiniteSets

CONSTANTS
    Payload,     \* the contents of the legacy records, in source order
    Declared,    \* how many of them the source holds at first
    Batch,       \* records read at once
    File,        \* delivery files the backup watches, in the order it reads them
    Id,          \* backup ids
    MaxMoves,    \* bound: writes of the daemon to watched files
    MaxMishaps   \* bound: failures, crashes, power cuts, lost cursors and collections

VARIABLES
    frontier,            \* the legacy source's last position
    legacy,              \* the legacy writer: off, asking for the lease, or writing
    objects, retained,   \* the store's imported objects, and its durable retention roots
    mapping,             \* migrate/mapping.jsonl
    cursor,              \* migrate/cursor.json
    handoff,             \* migrate/handoff.json
    wrote,               \* whether migrate/newformat.jsonl has a line
    lock,                \* migrate/writer.lock: its holder
    op,                  \* the call that holds m.mu
    statted,             \* the ids of backups that found theirs free and have no lease yet
    bk,                  \* the backup or drill that has the lease
    backup,              \* backup/<id>: its tree and its manifest
    ver, sealing,        \* the daemon's watched files, and the one it is rewriting in place
    doomed,              \* what a running collection will remove
    drills,              \* objects named by drills that passed
    moves, mishaps,      \* what was spent of the bounds
    late,                \* history: the legacy writer was let in between its stop and the handoff
    reused,              \* history: objects an import found in the store with no root on them
    lost                 \* history: mapping lines and objects a power cut took

import == <<retained, mapping, cursor, reused>>
cutover == <<frontier, legacy, handoff, wrote, late>>
backups == <<statted, bk, backup, drills>>
outside == <<ver, sealing, doomed, moves>>
vars == <<objects, import, cutover, lock, op, backups, outside, mishaps, lost>>

Files == 1..Len(File)
Mapped == {mapping[i] : i \in DOMAIN mapping}
ObjectOf(r) == Payload[r]
MappedObjects == {ObjectOf(r) : r \in Mapped}

NoCursor == [pos |-> 0, frontier |-> 0, complete |-> FALSE]
Idle == [at |-> "idle", snap |-> 0, pos |-> 0, taken |-> 0, complete |-> FALSE, new |-> {}]
Torn == 0
Unread == [f \in Files |-> Torn]
NoBackup == [at |-> "idle", id |-> CHOOSE i \in Id : TRUE, file |-> 1, before |-> Unread,
             copy |-> Unread, live |-> Unread, objs |-> {}]
NoManifest == [written |-> FALSE, copy |-> Unread, live |-> Unread, objs |-> {}]
Absent == [there |-> FALSE, tree |-> Unread, objs |-> {}, manifest |-> NoManifest]

Mishap == mishaps < MaxMishaps /\ mishaps' = mishaps + 1

Init ==
    /\ frontier = Declared /\ legacy = "off"
    /\ objects = {} /\ retained = {} /\ mapping = <<>> /\ cursor = NoCursor
    /\ handoff = [owner |-> "legacy", frontier |-> 0] /\ wrote = FALSE /\ lock = "free"
    /\ op = Idle /\ bk = NoBackup /\ statted = {}
    /\ ver = [f \in Files |-> 1] /\ sealing = 0 /\ doomed = {}
    /\ backup = [i \in Id |-> Absent] /\ drills = {}
    /\ moves = 0 /\ mishaps = 0
    /\ late = FALSE /\ reused = {} /\ lost = [lines |-> {}, objects |-> {}]

-----------------------------------------------------------------------------
(* Import.                                                                    *)

CursorOf(o) == [pos |-> o.pos, frontier |-> o.snap, complete |-> o.complete]

\* The snapshot, the cursor and the mapping log are read.  Nothing is done when the cursor is
\* complete at this frontier.
ImportBegins ==
    /\ op = Idle
    /\ ~(cursor.complete /\ cursor.frontier = frontier)
    /\ op' = [Idle EXCEPT !.at = "loop", !.snap = frontier, !.pos = cursor.pos,
                          !.complete = cursor.complete]
    /\ UNCHANGED <<objects, import, cutover, lock, backups, outside, mishaps, lost>>

Reading == op.at = "loop" /\ op.pos < op.snap /\ op.taken < Batch

Done(r) == r \in Mapped

\* A record that is already on the frontier is skipped; another is put and flushed.  An object the
\* put finds in the store keeps the age it has.
ImportTakes ==
    LET r == op.pos + 1
        o == ObjectOf(r)
    IN
    /\ Reading
    /\ IF Done(r)
       THEN op' = [op EXCEPT !.pos = r, !.taken = @ + 1] /\ UNCHANGED <<objects, reused, lost>>
       ELSE /\ op' = [op EXCEPT !.at = "put", !.new = {o} \ objects]
            /\ objects' = objects \cup {o}
            /\ reused' = reused \cup (({o} \cap objects) \ retained)
            /\ lost' = [lost EXCEPT !.objects = @ \ {o}]
    /\ UNCHANGED <<retained, mapping, cursor, cutover, lock, backups, outside, mishaps>>

\* importOne's retainRoots, synced before the object is named.
ImportRetains ==
    /\ op.at = "put"
    /\ retained' = retained \cup {ObjectOf(op.pos + 1)}
    /\ op' = [op EXCEPT !.at = "kept", !.new = {}]
    /\ UNCHANGED <<objects, mapping, cursor, reused, cutover, lock, backups, outside, mishaps, lost>>

\* The tool-use record, then the mapping line, which is not synced.
ImportMaps ==
    /\ op.at = "kept"
    /\ mapping' = Append(mapping, op.pos + 1)
    /\ op' = [op EXCEPT !.at = "loop", !.pos = @ + 1, !.taken = @ + 1]
    /\ lost' = [lost EXCEPT !.lines = @ \ {op.pos + 1}]
    /\ UNCHANGED <<objects, retained, cursor, reused, cutover, lock, backups, outside, mishaps>>

\* A step of importOne fails: the cursor is committed as far as the work went.
ImportFails ==
    /\ op.at \in {"put", "kept"}
    /\ Mishap
    /\ cursor' = CursorOf(op)
    /\ op' = Idle
    /\ UNCHANGED <<objects, retained, mapping, reused, cutover, lock, backups, outside, lost>>

\* The batch's cursor commit, and after the last one the commit that says the import is complete.
ImportCommits ==
    /\ op.at = "loop" /\ ~Reading
    /\ IF op.pos < op.snap
       THEN /\ cursor' = CursorOf(op)
            /\ op' = [op EXCEPT !.taken = 0]
       ELSE cursor' = [CursorOf(op) EXCEPT !.complete = TRUE] /\ op' = Idle
    /\ UNCHANGED <<objects, retained, mapping, reused, cutover, lock, backups, outside, mishaps, lost>>

-----------------------------------------------------------------------------
(* Cutover, and the writes after it.                                          *)

\* The cursor is complete, and the source has not moved past it.  A second cutover is not refused.
CutoverBegins ==
    /\ op = Idle
    /\ cursor.complete /\ cursor.frontier = frontier
    /\ op' = [Idle EXCEPT !.at = "stop", !.snap = frontier]
    /\ UNCHANGED <<objects, import, cutover, lock, backups, outside, mishaps, lost>>

\* StopLegacyWriter: the outgoing writer gives its lease back, or cannot be stopped.
CutoverStops(stopped) ==
    /\ op.at = "stop"
    /\ IF stopped
       THEN /\ legacy' = "off"
            /\ lock' = IF lock = "legacy" THEN "free" ELSE lock
            /\ op' = [op EXCEPT !.at = "parity"]
            /\ UNCHANGED mishaps
       ELSE Mishap /\ op' = Idle /\ UNCHANGED <<legacy, lock>>
    /\ UNCHANGED <<objects, import, frontier, handoff, wrote, late, backups, outside, lost>>

\* The manifest is there, and every file it lists has the bytes it lists.
Verifies(i) ==
    LET b == backup[i] IN
    /\ b.manifest.written
    /\ b.tree = b.manifest.copy /\ b.manifest.objs \subseteq b.objs

\* Deviation: parity compares the record set with the frontier the import reached.
ParityOfCursor ==
    /\ MappedObjects \subseteq objects
    /\ Mapped = 1..cursor.frontier

\* Parity: every mapped object is re-read, and the record set is the one the source declares now.
Parity ==
    /\ MappedObjects \subseteq objects
    /\ Mapped = 1..frontier

\* The backup is verified and parity is run: a failure leaves the handoff as it was.
CutoverProves(i) ==
    /\ op.at = "parity"
    /\ op' = IF Verifies(i) /\ Parity THEN [op EXCEPT !.at = "handoff"] ELSE Idle
    /\ UNCHANGED <<objects, import, cutover, lock, backups, outside, mishaps, lost>>

CutoverHandsOver ==
    /\ op.at = "handoff"
    /\ handoff' = [owner |-> "qompack", frontier |-> op.snap]
    /\ op' = Idle
    /\ UNCHANGED <<objects, import, frontier, legacy, wrote, late, lock, backups, outside,
                   mishaps, lost>>

\* RecordNewFormatWrite.
NewFormatWrite ==
    /\ op = Idle
    /\ handoff.owner = "qompack" /\ ~wrote
    /\ wrote' = TRUE
    /\ UNCHANGED <<objects, import, frontier, legacy, handoff, late, lock, op, backups, outside,
                   mishaps, lost>>

-----------------------------------------------------------------------------
(* The legacy writer (external), which nothing keeps from starting while a    *)
(* cutover runs.                                                              *)

\* AcquireWriter reads the handoff, and then creates the lock file.
LegacyAsks ==
    /\ legacy = "off" /\ handoff.owner = "legacy"
    /\ legacy' = "asks"
    /\ late' = (late \/ op.at \in {"parity", "handoff"})
    /\ UNCHANGED <<objects, import, frontier, handoff, wrote, lock, op, backups, outside, mishaps,
                   lost>>

LegacyLocks ==
    /\ legacy = "asks"
    /\ IF lock = "free" THEN legacy' = "writes" /\ lock' = "legacy"
       ELSE legacy' = "off" /\ UNCHANGED lock
    /\ UNCHANGED <<objects, import, frontier, handoff, wrote, late, op, backups, outside, mishaps,
                   lost>>

\* It appends a record, and gives the lease back.
LegacyWrites ==
    /\ legacy = "writes"
    /\ frontier' \in {frontier, frontier + 1} \cap 0..Len(Payload)
    /\ legacy' = "off" /\ lock' = "free"
    /\ UNCHANGED <<objects, import, handoff, wrote, late, op, backups, outside, mishaps, lost>>

-----------------------------------------------------------------------------
(* TakeBackup.  file walks the watched files, once to read the frontier the   *)
(* copy must match, once for the copy, and once to compare.                   *)

\* What a read of file f captures: the daemon rewrites a seal in place.
Read(f) == IF sealing = f THEN Torn ELSE ver[f]

Walk(at, next) == [bk EXCEPT !.file = IF @ = Len(File) THEN 1 ELSE @ + 1,
                             !.at = IF bk.file = Len(File) THEN next ELSE at]

\* The id is free ...
BackupStats(i) ==
    /\ ~backup[i].there
    /\ i \notin statted
    /\ statted' = statted \cup {i}
    /\ UNCHANGED <<objects, import, cutover, lock, op, bk, backup, drills, outside, mishaps, lost>>

\* ... and the lease is taken, or held by another and the backup refused.
BackupBegins(i) ==
    /\ i \in statted
    /\ statted' = statted \ {i}
    /\ IF lock = "free"
       THEN lock' = "backup" /\ bk' = [NoBackup EXCEPT !.at = "before", !.id = i]
       ELSE UNCHANGED <<lock, bk>>
    /\ UNCHANGED <<objects, import, cutover, op, backup, drills, outside, mishaps, lost>>

\* snapshotBackupWriters.  live is what the files held when it ended.
BackupSnapshots ==
    /\ bk.at = "before"
    /\ bk' = [Walk("before", "copy") EXCEPT !.before[bk.file] = Read(bk.file), !.live = ver]
    /\ UNCHANGED <<objects, import, cutover, lock, op, statted, backup, drills, outside, mishaps,
                   lost>>

\* The walk writes the tree, over whatever it holds: the imported objects are copied with the
\* first watched file.
BackupCopies ==
    LET f == bk.file
        objs == IF f = 1 THEN objects ELSE {}
    IN
    /\ bk.at = "copy"
    /\ backup' = [backup EXCEPT ![bk.id] = [@ EXCEPT !.there = TRUE, !.tree[f] = Read(f),
                                                     !.objs = @ \cup objs]]
    /\ bk' = [Walk("copy", "after") EXCEPT !.copy[f] = Read(f), !.objs = @ \cup objs]
    /\ UNCHANGED <<objects, import, cutover, lock, op, statted, drills, outside, mishaps, lost>>

\* Deviation: only the files after the copy are compared with it.
MovedSinceCopy(f) == Read(f) = Torn \/ Read(f) # bk.copy[f]

\* refuseIfTheProjectMoved, for one file.
Moved(f) == Read(f) = Torn \/ bk.before[f] # bk.copy[f] \/ Read(f) # bk.copy[f]

\* The directory of a backup that moved is removed: its id is free again.
BackupCompares ==
    /\ bk.at = "after"
    /\ IF Moved(bk.file)
       THEN /\ backup' = [backup EXCEPT ![bk.id] = Absent]
            /\ bk' = NoBackup /\ lock' = "free"
       ELSE bk' = Walk("after", "retain") /\ UNCHANGED <<backup, lock>>
    /\ UNCHANGED <<objects, import, cutover, op, statted, drills, outside, mishaps, lost>>

\* retainFrontier.
BackupRetains ==
    /\ bk.at = "retain"
    /\ retained' = retained \cup MappedObjects
    /\ bk' = [bk EXCEPT !.at = "certify"]
    /\ UNCHANGED <<objects, mapping, cursor, reused, cutover, lock, op, statted, backup, drills,
                   outside, mishaps, lost>>

\* The tree is synced and its manifest written, or that fails and the id stays taken.
BackupCertifies(written) ==
    /\ bk.at = "certify"
    /\ IF written
       THEN /\ backup' = [backup EXCEPT ![bk.id].manifest =
                  [written |-> TRUE, copy |-> bk.copy, live |-> bk.live, objs |-> bk.objs]]
            /\ UNCHANGED mishaps
       ELSE Mishap /\ UNCHANGED backup
    /\ bk' = NoBackup /\ lock' = "free"
    /\ UNCHANGED <<objects, import, cutover, op, statted, drills, outside, lost>>

-----------------------------------------------------------------------------
(* RehearseRollback.                                                          *)

\* The writers are stopped and the lease is taken; otherwise the drill is recorded as refused.
DrillBegins(i) ==
    /\ lock \in {"free", "legacy"}
    /\ legacy' = "off" /\ lock' = "drill"
    /\ bk' = [NoBackup EXCEPT !.at = "drill", !.id = i]
    /\ UNCHANGED <<objects, import, frontier, handoff, wrote, late, op, statted, backup, drills,
                   outside, mishaps, lost>>

\* The backup verifies and restores, and the restored store reads every mapped object, as the live
\* one does.  A drill that does not pass is recorded as refused.
Proves == Verifies(bk.id) /\ MappedObjects \subseteq objects \cap backup[bk.id].manifest.objs

DrillProves ==
    /\ bk.at = "drill"
    /\ IF Proves
       THEN bk' = [bk EXCEPT !.at = "record", !.objs = MappedObjects] /\ UNCHANGED lock
       ELSE bk' = NoBackup /\ lock' = "free"
    /\ UNCHANGED <<objects, import, cutover, op, statted, backup, drills, outside, mishaps, lost>>

\* recordDrill: the roots are retained, then the record names them.
DrillRecords ==
    /\ bk.at = "record"
    /\ retained' = retained \cup bk.objs
    /\ drills' = drills \cup bk.objs
    /\ bk' = NoBackup /\ lock' = "free"
    /\ UNCHANGED <<objects, mapping, cursor, reused, cutover, op, statted, backup, outside,
                   mishaps, lost>>

-----------------------------------------------------------------------------
(* The daemon, the collector, and faults.                                     *)

\* The daemon seals a delivery: a watched file is rewritten in place.
DaemonSeals(f) ==
    /\ sealing = 0 /\ moves < MaxMoves
    /\ sealing' = f
    /\ moves' = moves + 1
    /\ UNCHANGED <<objects, import, cutover, lock, op, backups, ver, doomed, mishaps, lost>>

DaemonSealed ==
    /\ sealing # 0
    /\ ver' = [ver EXCEPT ![sealing] = @ + 1]
    /\ sealing' = 0
    /\ UNCHANGED <<objects, import, cutover, lock, op, backups, doomed, moves, mishaps, lost>>

\* A garbage collection marks the objects past their window that no retention root names, and
\* removes them later.
CollectMarks ==
    LET dead == objects \ (retained \cup op.new) IN
    /\ doomed = {} /\ dead # {}
    /\ Mishap
    /\ doomed' = dead
    /\ UNCHANGED <<objects, import, cutover, lock, op, backups, ver, sealing, moves, lost>>

CollectSweeps ==
    /\ doomed # {}
    /\ objects' = objects \ doomed
    /\ doomed' = {}
    /\ UNCHANGED <<import, cutover, lock, op, backups, ver, sealing, moves, mishaps, lost>>

\* The migrator is killed: a lock it holds stays.
Crash ==
    /\ op # Idle \/ bk # NoBackup
    /\ Mishap
    /\ op' = Idle /\ bk' = NoBackup /\ statted' = {}
    /\ UNCHANGED <<objects, import, cutover, lock, backup, drills, outside, lost>>

\* The power is cut: mapping lines and objects, which nothing syncs, may be lost.
PowerCut ==
    /\ Mishap
    /\ \E n \in 0..Len(mapping), gone \in SUBSET objects :
          /\ mapping' = SubSeq(mapping, 1, n)
          /\ objects' = objects \ gone
          /\ lost' = [lines |-> lost.lines \cup {mapping[k] : k \in n+1..Len(mapping)},
                      objects |-> lost.objects \cup gone]
    /\ op' = Idle /\ bk' = NoBackup /\ statted' = {} /\ legacy' = "off" /\ doomed' = {}
    /\ UNCHANGED <<retained, cursor, reused, frontier, handoff, wrote, late, lock, backup, drills,
                   ver, sealing, moves>>

\* The cursor file is lost between two imports.
CursorLost ==
    /\ op = Idle /\ cursor # NoCursor
    /\ Mishap
    /\ cursor' = NoCursor
    /\ UNCHANGED <<objects, retained, mapping, reused, cutover, lock, op, backups, outside, lost>>

Next ==
    \/ ImportBegins \/ ImportTakes \/ ImportRetains \/ ImportMaps \/ ImportFails \/ ImportCommits
    \/ CutoverBegins \/ (\E b \in BOOLEAN : CutoverStops(b))
    \/ (\E i \in Id : CutoverProves(i)) \/ CutoverHandsOver \/ NewFormatWrite
    \/ LegacyAsks \/ LegacyLocks \/ LegacyWrites
    \/ (\E i \in Id : BackupStats(i) \/ BackupBegins(i)) \/ BackupSnapshots \/ BackupCopies
    \/ BackupCompares \/ BackupRetains \/ (\E b \in BOOLEAN : BackupCertifies(b))
    \/ (\E i \in Id : DrillBegins(i)) \/ DrillProves \/ DrillRecords
    \/ (\E f \in Files : DaemonSeals(f)) \/ DaemonSealed
    \/ CollectMarks \/ CollectSweeps \/ Crash \/ PowerCut \/ CursorLost

Spec == Init /\ [][Next]_vars

-----------------------------------------------------------------------------
(* Once writing is handed over, every record up to the frontier the handoff   *)
(* names was imported, and its line is still there unless a power cut took    *)
(* it; and the source has no record past that frontier unless the legacy      *)
(* writer was let in again between its stop and the handoff: a record it      *)
(* appended before parity fails the cutover (Cutover, Parity, AcquireWriter). *)
HandoverComplete ==
    handoff.owner = "qompack" =>
        /\ 1..handoff.frontier \subseteq Mapped \cup lost.lines
        /\ frontier # handoff.frontier => late

(* What the mapping log names, and what a passed drill named, stays in the    *)
(* store whatever is collected, because retainRoots runs before the artifact, *)
(* unless a power cut took it or the import had found it in the store without *)
(* a root, and its put does not keep a running collection from removing it.   *)
NamedIsKept == MappedObjects \cup drills \subseteq objects \cup reused \cup lost.objects

(* A lost cursor, a crash or a repeated import never maps a record twice.     *)
MappedOnce == Cardinality(Mapped) = Len(mapping)

(* The watched files of a backup that verifies are the daemon's files of one  *)
(* instant, whatever the daemon sealed under the walk, and also when two      *)
(* backups of one id found it free (refuseIfTheProjectMoved, VerifyBackup).   *)
BackupOfOneInstant ==
    \A i \in Id : Verifies(i) => backup[i].tree = backup[i].manifest.live

(* The import may be trusted at every step: the four above, of one behaviour *)
(* of imports, cutovers, backups, drills, collections, crashes and power     *)
(* cuts.                                                                     *)
MigrationSound == HandoverComplete /\ NamedIsKept /\ MappedOnce /\ BackupOfOneInstant
=============================================================================
