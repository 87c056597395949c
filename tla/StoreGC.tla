------------------------------ MODULE StoreGC ------------------------------
(***************************************************************************)
(* The content-addressed store of internal/store while captures put        *)
(* content into it and a garbage collection pass runs: PutBytes and its    *)
(* recovery side record (put.go), the pending-write registry               *)
(* (lifecycle.go), the roots index and its tombstones (roots.go), the      *)
(* publication barrier (publication_sync.go), and the mark, tombstone and  *)
(* resumable sweep phases of a pass (gcrun.go).                            *)
(*                                                                         *)
(* A pass takes no lock that a put takes, beyond the index lock for its    *)
(* snapshot, so puts interleave with every phase.  A root is content; its  *)
(* chunks are objects that roots may share, numbered in the order in which *)
(* the sweep walks them.  Sizes are left out.  Passes never overlap        *)
(* (GCGate).  An object's modification time is exact.                      *)
(***************************************************************************)
EXTENDS Integers, Sequences, FiniteSets

CONSTANTS Root,            \* contents, side records included
          NChunks,         \* objects are 1..NChunks
          Chunks,          \* a root's chunks
          Side,            \* the side record of each root that has one
          Capture,         \* the goroutines that put
          Ephemeral,       \* what PutOptions.Ephemeral may be: a subset of BOOLEAN
          Quota,           \* GCPolicy.QuotaBytes is set and the store exceeds it
          Holdable,        \* the roots that other producers may name
          MaxPuts, MaxPasses, MaxCrashes,
          None

Chunk == 1..NChunks
Content == Root \ {Side[r] : r \in DOMAIN Side}

VARIABLES objects,    \* the files under objects/
          fresh,      \* those modified after the running pass started
          dirty,      \* those not yet synced
          index,      \* s.rootIndex
          stable,     \* the index that the synced part of roots.jsonl loads to
          tail,       \* the lines of roots.jsonl that are not synced
          young,      \* roots the retention window holds (age or recent session)
          held,       \* roots another producer's file names (pin, lease, checkpoint)
          markers,    \* the pending-write registry: <<capture or None, root>>
          pc, doing, eph, todo,  \* each capture's put
          gpc,        \* the phase of the pass
          names,      \* the roots the harvest found named, and the chunks
          live, dead, \* markResult.liveChunks and deadRoots
          at,         \* the last object the sweep's walk visited
          lastDone,   \* the last one it finished with
          saved,      \* state/gc.json
          puts, passes, crashes,
          published,  \* history: the roots a record was published for
          collected,  \* history: the objects a sweep removed and nothing rewrote
          owed,       \* history: objects this sweep, with those it resumes, must visit
          exposed     \* history: the roots put or named beside a pass that cannot tell

files == <<objects, fresh, dirty>>
lines == <<index, stable, tail>>
putter == <<pc, doing, eph, todo>>
sweeper == <<at, lastDone>>
vars == <<files, lines, young, held, markers, putter, gpc, names, live, dead,
          sweeper, saved, puts, passes, crashes, published, collected, owed, exposed>>

NoState == [live |-> {}, cursor |-> -1]

PutPC == {"idle", "look", "lock", "pend", "write", "side", "sidewrite", "append",
          "sync", "record"}
GCPC == {"idle", "harvest", "mark", "tombstone", "sweep"}

Init ==
    /\ objects = {} /\ fresh = {} /\ dirty = {}
    /\ index = {} /\ stable = {} /\ tail = <<>>
    /\ young = {} /\ held = {} /\ markers = {}
    /\ pc = [p \in Capture |-> "idle"]
    /\ doing = [p \in Capture |-> None]
    /\ eph = [p \in Capture |-> FALSE]
    /\ todo = [p \in Capture |-> {}]
    /\ gpc = "idle"
    /\ names = [roots |-> {}, chunks |-> {}]
    /\ live = {} /\ dead = {}
    /\ at = 0 /\ lastDone = 0
    /\ saved = NoState
    /\ puts = 0 /\ passes = 0 /\ crashes = 0
    /\ published = {} /\ collected = {} /\ owed = {} /\ exposed = {}

-----------------------------------------------------------------------------
(* A capture: PutBytes, SyncPublication, then the record.                  *)

\* publicationObjects: the roots reachable by Deltas, Orig and Base.
Closure(r) == IF r \in DOMAIN Side THEN {r, Side[r]} ELSE {r}

\* What a running pass may already have missed of a put of r by p: content that
\* no marker of p names and that is on disk outside the window, or ephemeral.
Protected(p, r, e) ==
    /\ ~e
    /\ \A s \in Closure(r) : \/ s \in young \intersect index
                             \/ <<p, s>> \in markers
                             \/ s \notin index /\ Chunks[s] \intersect objects = {}

StartPut(p, r, e) ==
    /\ pc[p] = "idle"
    /\ puts < MaxPuts
    /\ puts' = puts + 1
    /\ exposed' = IF gpc = "idle" \/ Protected(p, r, e) THEN exposed ELSE exposed \union Closure(r)
    /\ pc' = [pc EXCEPT ![p] = "look"]
    /\ doing' = [doing EXCEPT ![p] = r]
    /\ eph' = [eph EXCEPT ![p] = e]
    /\ UNCHANGED <<files, lines, young, held, markers, todo, gpc, names, live, dead,
                   sweeper, saved, passes, crashes, published, collected, owed>>

PutOnly == <<gpc, names, live, dead, sweeper, saved, puts, passes, crashes, held>>

\* dedupHit without the put lock: a stored root is a pure reference.
Look(p) ==
    /\ pc[p] = "look"
    /\ pc' = [pc EXCEPT ![p] = IF doing[p] \in index THEN "sync" ELSE "lock"]
    /\ UNCHANGED <<files, lines, young, markers, doing, eph, todo, PutOnly,
                   published, collected, owed, exposed>>

\* The put lock of the root, and dedupHit again.
Lock(p) ==
    /\ pc[p] = "lock"
    /\ \A q \in Capture : doing[q] = doing[p] => pc[q] \in {"idle", "look", "lock", "sync", "record"}
    /\ pc' = [pc EXCEPT ![p] = IF doing[p] \in index THEN "sync" ELSE "pend"]
    /\ UNCHANGED <<files, lines, young, markers, doing, eph, todo, PutOnly,
                   published, collected, owed, exposed>>

\* The root whose objects the put is writing: its own or its side record.
Current(p) == IF pc[p] \in {"side", "sidewrite"} THEN Side[doing[p]] ELSE doing[p]

\* pending: a marker names the chunks about to be written.
Pend(p) ==
    /\ pc[p] \in {"pend", "side"}
    /\ markers' = markers \union {<<p, Current(p)>>}
    /\ todo' = [todo EXCEPT ![p] = Chunks[Current(p)]]
    /\ pc' = [pc EXCEPT ![p] = IF pc[p] = "pend" THEN "write" ELSE "sidewrite"]
    /\ UNCHANGED <<files, lines, young, doing, eph, PutOnly, published, collected, owed, exposed>>

\* putObject: an object that is present is reused as it is, with the
\* modification time it has.
PutObject(p) ==
    /\ pc[p] \in {"write", "sidewrite"}
    /\ \E c \in todo[p] :
        /\ \A d \in todo[p] : c <= d
        /\ todo' = [todo EXCEPT ![p] = @ \ {c}]
        /\ objects' = objects \union {c}
        /\ dirty' = IF c \in objects THEN dirty ELSE dirty \union {c}
        /\ fresh' = IF c \in objects \/ gpc = "idle" THEN fresh ELSE fresh \union {c}
        /\ collected' = collected \ {c}
        /\ owed' = IF c \in objects THEN owed ELSE owed \ {c}
    /\ UNCHANGED <<lines, young, markers, pc, doing, eph, PutOnly, published, exposed>>

\* A failed object write fails the put; the marker stays.
PutFails(p) ==
    /\ pc[p] \in {"write", "sidewrite"}
    /\ todo[p] # {}
    /\ markers' = {IF m[1] = p THEN <<None, m[2]>> ELSE m : m \in markers}
    /\ pc' = [pc EXCEPT ![p] = "idle"]
    /\ doing' = [doing EXCEPT ![p] = None]
    /\ eph' = [eph EXCEPT ![p] = FALSE]
    /\ todo' = [todo EXCEPT ![p] = {}]
    /\ UNCHANGED <<files, lines, young, PutOnly, published, collected, owed, exposed>>

\* admitRecovery: a root with a side record files that first, unless the
\* record is indexed already.
AdmitRecovery(p) ==
    /\ pc[p] = "write" /\ todo[p] = {}
    /\ pc' = [pc EXCEPT ![p] =
                IF doing[p] \in DOMAIN Side /\ Side[doing[p]] \notin index
                  THEN "side" ELSE "append"]
    /\ UNCHANGED <<files, lines, young, markers, doing, eph, todo, PutOnly,
                   published, collected, owed, exposed>>

\* appendRoot and pw.done for root r: the line, the index, the marker.
AppendRoot(p, r) ==
    /\ tail' = Append(tail, <<"put", r>>)
    /\ index' = index \union {r}
    /\ stable' = stable
    /\ young' = IF eph[p] THEN young ELSE young \union {r}
    /\ markers' = markers \ {<<p, r>>}

AppendSide(p) ==
    /\ pc[p] = "sidewrite" /\ todo[p] = {}
    /\ AppendRoot(p, Side[doing[p]])
    /\ pc' = [pc EXCEPT ![p] = "append"]
    /\ UNCHANGED <<files, doing, eph, todo, PutOnly, published, collected, owed, exposed>>

AppendContent(p) ==
    /\ pc[p] = "append"
    /\ AppendRoot(p, doing[p])
    /\ pc' = [pc EXCEPT ![p] = "sync"]
    /\ UNCHANGED <<files, doing, eph, todo, PutOnly, published, collected, owed, exposed>>

\* What loadRoots makes of the synced part and n more lines: a root is
\* indexed unless the last line that names it is a tombstone.
Loaded(n) ==
    LET last(r) == {k \in 1..n : tail[k][2] = r /\ \A j \in k+1..n : tail[j][2] # r}
    IN  {r \in Root : IF last(r) = {} THEN r \in stable
                      ELSE \A k \in last(r) : tail[k][1] = "put"}

\* SyncPublication proves every object of the closure and syncs it, then the
\* index; a missing root or object refuses it and the capture is retried.
Sync(p) ==
    /\ pc[p] = "sync"
    /\ LET need == UNION {Chunks[r] : r \in Closure(doing[p])}
           proved == Closure(doing[p]) \subseteq index /\ need \subseteq objects
       IN  IF proved
             THEN /\ dirty' = dirty \ need
                  /\ stable' = index
                  /\ tail' = <<>>
                  /\ pc' = [pc EXCEPT ![p] = "record"]
                  /\ UNCHANGED <<doing, eph>>
             ELSE /\ pc' = [pc EXCEPT ![p] = "idle"]
                  /\ doing' = [doing EXCEPT ![p] = None]
                  /\ eph' = [eph EXCEPT ![p] = FALSE]
                  /\ UNCHANGED <<dirty, stable, tail>>
    /\ UNCHANGED <<objects, fresh, index, young, markers, todo, PutOnly,
                   published, collected, owed, exposed>>

\* The tool-use record: it names the root, and the session that used it is
\* recent, so that the root is in the window.
Record(p) ==
    /\ pc[p] = "record"
    /\ young' = young \union {doing[p]}
    /\ published' = published \union {doing[p]}
    /\ pc' = [pc EXCEPT ![p] = "idle"]
    /\ doing' = [doing EXCEPT ![p] = None]
    /\ eph' = [eph EXCEPT ![p] = FALSE]
    /\ UNCHANGED <<files, lines, markers, todo, PutOnly, collected, owed, exposed>>

-----------------------------------------------------------------------------
(* Retention and the pass.                                                 *)

Store == <<files, lines, markers, putter>>

\* The window moves past a root.  A pass and a put are far shorter than the
\* window, so it stands still during one.
Expire(r) ==
    /\ gpc = "idle"
    /\ r \in young
    /\ \A p \in {q \in Capture : doing[q] # None} : r \notin Closure(doing[p])
    /\ young' = young \ {r}
    /\ published' = published \ {r}
    /\ UNCHANGED <<Store, held, gpc, names, live, dead, sweeper, saved, puts, passes, crashes,
                   collected, owed, exposed>>

\* A producer names an indexed root in its file, or stops to.
Hold(r) ==
    /\ r \in (index \intersect Holdable) \ held
    /\ held' = held \union {r}
    /\ exposed' = IF gpc = "idle" \/ r \in young THEN exposed ELSE exposed \union Closure(r)
    /\ UNCHANGED <<Store, young, gpc, names, live, dead, sweeper, saved, puts, passes, crashes,
                   published, collected, owed>>

Release(r) ==
    /\ r \in held
    /\ held' = held \ {r}
    /\ UNCHANGED <<Store, young, gpc, names, live, dead, sweeper, saved, puts, passes, crashes,
                   published, collected, owed, exposed>>

StartPass ==
    /\ gpc = "idle"
    /\ passes < MaxPasses
    /\ exposed' = exposed \union
                  UNION {Closure(doing[p]) : p \in {q \in Capture : doing[q] # None /\ ~Protected(q, doing[q], eph[q])}}
    /\ gpc' = "harvest"
    /\ passes' = passes + 1
    /\ fresh' = {}
    /\ UNCHANGED <<objects, dirty, lines, young, held, markers, putter, names, live,
                   dead, sweeper, saved, puts, crashes, published, collected, owed>>

\* harvestHashes: every root a producer names, and what the pending-write
\* registry names.
Harvest ==
    /\ gpc = "harvest"
    /\ names' = [roots |-> held \union {m[2] : m \in markers},
                 chunks |-> UNION {Chunks[m[2]] : m \in markers}]
    /\ gpc' = "mark"
    /\ UNCHANGED <<Store, young, held, live, dead, sweeper, saved, puts, passes, crashes,
                   published, collected, owed, exposed>>

\* An unreadable retention source, an expired deadline or an ended context
\* before the mark is complete: the pass collects nothing.
GiveUp ==
    /\ gpc \in {"harvest", "mark"}
    /\ gpc' = "idle"
    /\ names' = [roots |-> {}, chunks |-> {}]
    /\ UNCHANGED <<Store, young, held, live, dead, sweeper, saved, puts, passes, crashes,
                   published, collected, owed, exposed>>

\* coupleRecoveryRootsLocked: a root and its side record share their fate.
Coupled(s) ==
    s \union {r \in index : \E t \in s \intersect index :
                 (t \in DOMAIN Side /\ Side[t] = r) \/ (r \in DOMAIN Side /\ Side[r] = t)}

\* applyQuota may evict any oldest part of what the window alone holds.
Evictions(hard, soft) == IF Quota THEN SUBSET (soft \ hard) ELSE {{}}

\* loadGCState: the cursor is resumed only against the same live set.
Resume(l) == IF saved.cursor >= 0 /\ saved.live = l THEN saved ELSE NoState

\* The roots that the harvest or the retention window hold.
Retained == (names.roots \union young) \intersect index

\* markPass's index walk under the read lock, the quota, the live set and the
\* cursor to resume from.
Mark ==
    /\ gpc = "mark"
    /\ LET hard == Coupled(names.roots \intersect index)
           kept == Coupled(Retained)
       IN  \E evicted \in Evictions(hard, kept \ hard) :
             LET roots == kept \ evicted
                 l == names.chunks \union UNION {Chunks[r] : r \in roots}
                 from == Resume(l)
             IN  /\ live' = l
                 /\ dead' = index \ roots
                 /\ at' = IF from.cursor > 0 THEN from.cursor ELSE 0
                 /\ owed' = IF saved.cursor >= 0 /\ saved.live = l
                            THEN owed \ l ELSE objects \ (l \union fresh)
    /\ lastDone' = 0
    /\ gpc' = "tombstone"
    /\ UNCHANGED <<Store, young, held, names, saved, puts, passes, crashes, published, collected, exposed>>

\* tombstoneDeadRoots: one root's tombstone, then the next.
Tombstone(r) ==
    /\ gpc = "tombstone"
    /\ r \in dead
    /\ dead' = dead \ {r}
    /\ index' = index \ {r}
    /\ tail' = Append(tail, <<"gc", r>>)
    /\ UNCHANGED <<files, stable, young, held, markers, putter, gpc, names, live,
                   sweeper, saved, puts, passes, crashes, published, collected, owed, exposed>>

\* Deviation: the sweep starts with the tombstones still in the page cache.
SyncTombstonesSkipped ==
    /\ gpc = "tombstone"
    /\ dead = {}
    /\ gpc' = "sweep"
    /\ UNCHANGED <<files, lines, young, held, markers, putter, names, live, dead,
                   sweeper, saved, puts, passes, crashes, published, collected, owed, exposed>>

\* The tombstones are synced before the sweep.
SyncTombstones ==
    /\ gpc = "tombstone"
    /\ dead = {}
    /\ gpc' = "sweep"
    /\ stable' = index
    /\ tail' = <<>>
    /\ UNCHANGED <<files, index, young, held, markers, putter, names, live, dead,
                   sweeper, saved, puts, passes, crashes, published, collected, owed, exposed>>

\* A failed append, a failed sync or an ended context: the pass returns its
\* error; what was retired stays retired and nothing is swept.
TombstonesFail ==
    /\ gpc = "tombstone"
    /\ gpc' = "idle"
    /\ names' = [roots |-> {}, chunks |-> {}] /\ live' = {} /\ dead' = {}
    /\ at' = 0 /\ lastDone' = 0
    /\ UNCHANGED <<Store, young, held, saved, puts, passes, crashes, published, collected, owed, exposed>>

\* Objects the sweep leaves: live ones, and those written since it started.
Spared(c) == c \in live \/ c \in fresh

\* One object of the walk; one that cannot be removed is left, and is not one that is done.
Visit ==
    /\ gpc = "sweep"
    /\ at < NChunks
    /\ at' = at + 1
    /\ \/ /\ at + 1 \notin objects \/ Spared(at + 1)
          /\ lastDone' = IF at + 1 \in objects THEN at + 1 ELSE lastDone
          /\ UNCHANGED <<objects, dirty, collected, owed>>
       \/ /\ at + 1 \in objects /\ ~Spared(at + 1)
          /\ owed' = owed \ {at + 1}
          /\ \/ /\ objects' = objects \ {at + 1}
                /\ dirty' = dirty \ {at + 1}
                /\ collected' = collected \union {at + 1}
                /\ lastDone' = at + 1
             \/ UNCHANGED <<objects, dirty, collected, lastDone>>
    /\ UNCHANGED <<fresh, lines, young, held, markers, putter, gpc, names, live, dead,
                   saved, puts, passes, crashes, published, exposed>>

\* expirePendingMarkers: abandoned markers past the window go, after the sweep.
ExpireMarkers ==
    \E m \in SUBSET {x \in markers : x[1] = None} : markers' = markers \ m

EndPass ==
    /\ gpc' = "idle"
    /\ names' = [roots |-> {}, chunks |-> {}] /\ live' = {} /\ dead' = {}
    /\ at' = 0 /\ lastDone' = 0
    /\ fresh' = {}

\* Deviation: the cursor names the object that the walk had reached.
CutOffAtNext ==
    /\ gpc = "sweep"
    /\ at < NChunks
    /\ ExpireMarkers
    /\ saved' = [live |-> live, cursor |-> at + 1]
    /\ EndPass
    /\ UNCHANGED <<objects, dirty, lines, young, held, putter, puts, passes, crashes,
                   published, collected, owed, exposed>>

\* The deadline or the context ends the sweep, and the cursor is saved.
CutOff ==
    /\ gpc = "sweep"
    /\ at < NChunks
    /\ ExpireMarkers
    /\ saved' = [live |-> live, cursor |-> lastDone]
    /\ EndPass
    /\ UNCHANGED <<objects, dirty, lines, young, held, putter, puts, passes, crashes,
                   published, collected, owed, exposed>>

\* The sweep is complete: the cursor is cleared.
Complete ==
    /\ gpc = "sweep"
    /\ at = NChunks
    /\ ExpireMarkers
    /\ saved' = NoState
    /\ EndPass
    /\ UNCHANGED <<objects, dirty, lines, young, held, putter, puts, passes, crashes,
                   published, collected, owed, exposed>>

\* Flush syncs the index.
Flush ==
    /\ tail # <<>>
    /\ stable' = index
    /\ tail' = <<>>
    /\ UNCHANGED <<files, index, young, held, markers, putter, gpc, names, live, dead,
                   sweeper, saved, puts, passes, crashes, published, collected, owed, exposed>>

\* The process dies and a later one reopens the store: n of the unsynced lines
\* and the objects outside lost are what the machine kept.
Crash(n, lost) ==
    /\ crashes < MaxCrashes
    /\ crashes' = crashes + 1
    /\ stable' = Loaded(n)
    /\ index' = Loaded(n)
    /\ tail' = <<>>
    /\ objects' = objects \ lost
    /\ dirty' = {}
    /\ held' = held \intersect Loaded(n)
    /\ markers' = {<<None, m[2]>> : m \in markers}
    /\ pc' = [p \in Capture |-> "idle"]
    /\ doing' = [p \in Capture |-> None]
    /\ eph' = [p \in Capture |-> FALSE]
    /\ todo' = [p \in Capture |-> {}]
    /\ EndPass
    /\ owed' = owed \ lost
    /\ UNCHANGED <<young, saved, puts, passes, published, collected, exposed>>

Next ==
    \/ \E p \in Capture :
        \/ \E r \in Content, e \in Ephemeral : StartPut(p, r, e)
        \/ Look(p) \/ Lock(p) \/ Pend(p) \/ PutObject(p) \/ PutFails(p)
        \/ AdmitRecovery(p) \/ AppendSide(p) \/ AppendContent(p) \/ Sync(p) \/ Record(p)
    \/ \E r \in Root : Expire(r) \/ Hold(r) \/ Release(r) \/ Tombstone(r)
    \/ StartPass \/ Harvest \/ GiveUp \/ Mark \/ SyncTombstones \/ TombstonesFail
    \/ Visit \/ CutOff \/ Complete \/ Flush
    \/ \E n \in 0..Len(tail), lost \in SUBSET dirty : Crash(n, lost)

Spec == Init /\ [][Next]_vars

-----------------------------------------------------------------------------

\* The shape of every variable; the index is what the lines of roots.jsonl load
\* to, and what a sweep removed is not on disk.
TypeOK ==
    /\ objects \subseteq Chunk /\ fresh \subseteq objects /\ dirty \subseteq objects
    /\ index \subseteq Root /\ stable \subseteq Root
    /\ index = Loaded(Len(tail))
    /\ young \subseteq Root /\ held \subseteq Root
    /\ markers \subseteq (Capture \union {None}) \X Root
    /\ pc \in [Capture -> PutPC] /\ doing \in [Capture -> Content \union {None}]
    /\ eph \in [Capture -> BOOLEAN] /\ todo \in [Capture -> SUBSET Chunk]
    /\ gpc \in GCPC
    /\ names \in [roots : SUBSET Root, chunks : SUBSET Chunk]
    /\ live \subseteq Chunk /\ dead \subseteq Root
    /\ at \in 0..NChunks /\ lastDone \in 0..NChunks
    /\ published \subseteq Content /\ collected \subseteq Chunk \ objects
    /\ owed \subseteq Chunk /\ exposed \subseteq Root

\* The four that follow leave out the roots that were exposed to a running pass (StoreReadable).

\* No indexed root refers to an object that a sweep removed, also after a
\* restart: "a root whose chunks are not all present on disk would be an
\* unreadable lie" (objects.go).
IndexReadable == \A r \in index \ exposed : Chunks[r] \intersect collected = {}

\* A capture whose record was published can be read as long as the retention
\* window holds it: its root is indexed and its objects are there.
PublishedReadable ==
    \A r \in published \ exposed : r \in index /\ Chunks[r] \subseteq objects

\* A root that a pin, a lease, a checkpoint or another producer names is never
\* retired by a pass.
HeldStays == held \ exposed \subseteq index

\* As long as the window holds a published root, the side record that makes
\* its original recoverable is kept with it: "half a pair is a recovery claim
\* that cannot be honoured" (gcrun.go).
PairsShareFate ==
    \A r \in (published \ exposed) \intersect DOMAIN Side :
        r \in index => Side[r] \in index /\ Chunks[Side[r]] \subseteq objects

\* A sweep that completes, with those it resumed, has removed, or tried to, every
\* object that its live set left out: a cursor never skips one.
CompleteSweepCollects ==
    [][gpc = "sweep" /\ gpc' = "idle" /\ saved' = NoState /\ crashes' = crashes
         => owed = {}]_vars

\* What the store promises a reader over captures, passes and crashes: an index that names only what
\* is there, published captures, held roots, and pairs that share their fate.  A root is excused from
\* the moment it is put or named while a pass runs that has no way to know of it (exposed): the put
\* finds it on disk or in the index out of the window, or is ephemeral, or the name comes after the
\* harvest may have been taken (putObject, dedupHit, gcPass take no common lock).
StoreReadable == IndexReadable /\ PublishedReadable /\ HeldStays /\ PairsShareFate
=============================================================================
