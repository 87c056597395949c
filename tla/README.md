# Qompack in TLA+

Qompack is a sidecar of a coding host. Its hooks deliver what happens in a session to one daemon per
project, which keeps it durable, publishes it in order, stores it by content, and seals it into
numbered checkpoints. This directory models the parts of the daemon where concurrency, crashes and
partial failures decide whether those promises hold. TLC checks the models on small instances; the
safety properties of six of them are proved for every instance with TLAPS.

`PROJECT.json` lists the components, the runs, the source lines behind every definition, the hazards
and the theorems. Paths below are relative to `src/internal/`.

## 1. The system and its parts

| Part | State | Operations | What is hard about it |
|---|---|---|---|
| Group commit (`daemon/groupcommit.go`) | queue, leading flag, per-call channels | `run`, `cutLocked`, `handoff` | a call queued while a leader hands off; commits that fail or panic |
| Delivery journal (`daemon/delivery_lease.go`) | lease and ack files, their seals, admitted maps | open, lease, acknowledge, poison | two pipelines, one handle; a crash between write, sync, seal and admission |
| Generations, segments, seals (`daemon/delivery_{generation,segment,seal,radix}.go`) | segment chain, frozen seals, carries | rotate, freeze, reconcile | a crash inside a rotation |
| Ingest and lanes (`daemon/ingest.go`, `delivery_order.go`, `delivery_unheld.go`) | ring, lanes, wake list, channels | accept, join, settle, claim, wake, forget | workers against a drain pass; full queues; lost wake-ups |
| Drain and WAL segments (`daemon/drain.go`) | segment files, `state/drain.json` | append, sync, drain, record, remove | a crash between publication and recorded offset; stale stats |
| Singleton (`daemon/lock.go`, `daemon/spawn.go`, `ipc/spawnlock.go`, `ipc/listen_unix.go`) | lock file, socket, spawn claim | acquire, listen, spawn, release | several processes judging one file |
| Daemon handlers, registry, session end, compact SessionStart (`daemon/`) | registry, recovery records | start, flush, end, compact | an end that races deliveries and a restart |
| Content store (`store/put.go`, `roots.go`, `lifecycle.go`, `publication_sync.go`) | objects, roots index, pending markers | put, publish | a put against a running collection |
| Garbage collection (`store/gcgate.go`, `gcrun.go`) | gate, mark, tombstones, sweep cursor | collect, resume | calls cancelled as they are elected; acting on an old snapshot |
| Checkpoints (`checkpoint/`, `store/segments.go`, `paths/barriers.go`) | drafts, artifacts, manifest, encode records | begin, advance, finalize | six barriers and a crash between any two |
| Hooks and IPC (`ipc/`, `cli/hookclient.go`, `daemon/spool_watch.go`) | spool files, submode record, connections | send, spool, watch, serve, shut down | a deadline against a late answer; a stop beside everything else |
| Observer and publication (`observer/`, `store/observation_publication.go`) | intents, tool-use index, links, queued warnings | derive, publish, recover, reply | a crash between intent, record and link; a reply nobody reads |
| Compaction (`daemon/precompact_settle.go`, `session_start_compact.go`, `contract/history.go`) | tickets, gates, drop report, history | settle, rehydrate, answer, judge | captures that move while they are counted; an answer against its timer |
| Rehydration (`rehydrate/`) | none | select records under a budget | shares, removals and notices that must agree |
| Elimination ledger (`negknow/`) | log, filter, staleness marks | record, query, refresh | file versions compared outside the lock |
| Scheduler account (`daemon/scheduler_*.go`) | token account, bindings, owed closes | apply, close, bind, restore | a delivery handled twice |
| Grammar (`grammar/`) | rules, digram index | append, restore, reset | an index that must name live places |
| Migration and backup (`store/migrate.go`, `backup.go`) | mapping, cursor, manifests | import, cut over, back up, rehearse | a copy of files that keep moving |
| Admission, MCP, config, pins, state | requests, settings | decide, answer | pure decisions, single appends |
| Analysis (`canon`, `chunk`, `dag`, `sketch`, `symbols`, `tokens`, `redact`, ...) | none | pure functions | text and floating point |

A delivery goes through the parts in this order. A hook sends it over IPC, or spools it. `Accept`
appends it to the session's WAL segment and to the lease journal (both through a group commit) and
answers the hook. The job goes to the ring; a worker takes it, joins it to its session's lane, and
publishes the head when every earlier arrival has settled: the observer puts the content into the
store, makes it durable and appends its record, and the delivery is acknowledged in the journal.
What the ring or a lane could not hold stays in the WAL until a drain pass replays it. When a
session ends its segments are drained and removed and a collection is asked for at the gate.
Meanwhile the scheduler advances the session's checkpoint draft over closed segments, and the
PreCompact hook seals it.

## 2. Modules

Every action stands for one critical section, one system call on shared state, or one publication:
between two actions every other actor may run. Variables carry the name of the field they stand for.

| Module | Models | State in the code |
|---|---|---|
| `GroupCommit` | `groupQueue` | `queue`, `leading`, `gcReq.lead`, `gcReq.done`, each leader's batch |
| `DeliveryJournal` | `deliveryJournal` over one segment | the two files, position sidecars, `leases`, `arrivals`, `acks`, the batch being decided |
| `LeaseLedger` | nothing in the code: what the journal promises its callers | leases and acknowledgements, as sets |
| `SegmentRotation` | rotation, recovery, carries, retirement, the collector's harvest | windows, staged directories, frozen seals, the authority, the generation store |
| `DeliveryRadix` | the paged index of the generations | pages, packs, root pointers, generation records |
| `DispatchLanes` | `ingest` ring and workers, `dispatchLanes`, requested and other drains | `lanes`, `sessionLane`, `held`, `ready`, `unheld`, `wake`, `drainKick`, `seenSet.working` |
| `LaneQueue` | the slice operations of `join` and `settle` | `sessionLane.jobs` |
| `SpoolProgress` | one WAL segment name and its record in `state/drain.json` | `walFile`, `ingest.synced`, the progress entry, the pass's local record |
| `Singleton` | `AcquireLock`, `Release`, `listen`, `ClaimSpawn`, `EnsureRunning`, `lazySpawn` | `run/daemon.lock`, the socket, `run/spawn.lock` |
| `DaemonLifecycle` | `Run`, `Stop`, the accept loop, workers, session ends | contexts, wait groups, owned resources, connections |
| `SessionEnd` | flush, session end, recovery record, drain calls | WAL lines, markers, running ends, published gaps |
| `HookDelivery` | a hook's send, its spool, the submode record, the spool watcher | client and server ends of a request, spool files, `state.bin` |
| `GCGate` | `serializeGC` and what it calls | `gcGate`, `gcWaiter` |
| `StoreGC` | `PutBytes`, `SyncPublication`, the tool-use record, `gcPass` | `objects/`, `roots.jsonl`, pending markers, `state/gc.json` |
| `ObservationPublication` | recovery, derivation, intent, batch, commit and link of one observation | `observations.jsonl`, `tool_use.jsonl`, bindings |
| `PromptReply` | `promptReplyHandoff`, `PromptReplySpooled`, the re-arming of warnings | the warnings queued, warned of, handed over and remembered |
| `CheckpointSeal` | `FileWriter.Begin`, `Advance`, `Finalize`, the segment log's encode marks | drafts, `state/draft-*.json`, artifacts, `MANIFEST`, encode records, `issuedSeq` |
| `PreCompactSettle` | `settleBeforeSeal` beside lanes and drains | where each capture is, what the settle has looked at |
| `CompactAnswer` | the compact SessionStart: `compactTicket`, `compactGates`, `rehydrateService` | tickets, routes, bookkeeping, the drop report |
| `ContractHistory` | `SessionHistory` and the assertion that reads it | `state/history.json`, the hooks in the order they were fired |
| `PayloadBudget` | `BuildWithStats` | records by section with their prices |
| `NegKnow` | recording, querying, refreshing and maintaining the elimination ledger | the log, the filter, the cache, calls in flight |
| `SegmentAccount` | `applyToolUse`, `closeOwed`, binding and restoration | the account, owed closes, the snapshot, open segments |
| `Sequitur` | `Append`, `enforceRuleUtility`, `Restore`, `Reset` | nodes, rules, the digram index |
| `Migration` | `Import`, `Cutover`, `TakeBackup`, `RehearseRollback` | mapping, cursor, owner, manifest, watched files |
| `*Proofs` | | theorems (section 5) |

`LeaseLedger` is the abstract specification: a nonce gets one place, the next of its session, and at
most one acknowledgement, and neither is taken back. `SegmentRotation` implements it with the union of
the generation store and every window as refinement mapping (`ImplementsLedger`).

The `MC` modules put several components beside one another: their variables are disjoint, and the
variable `part` says which component a behaviour steps, so each run is the union of its parts and a
property of a part is checked over that part's whole state space. A definition whose comment begins with
"Deviation" is a deliberately wrong variant of the definition after it, named in `PROJECT.json` under
"mutants"; no specification uses it. Each is there to show that a property fails when the code is wrong
in that way.

What each module leaves out or assumes:

* `GroupCommit`: a request is its size. The head of a queue is cut whatever its size and whatever the caps.
* `DeliveryJournal`: an acknowledgement is represented by its lease and a seal by the lines it
  seals. A crash keeps the synced lines and any part of the rest; a seal whose write fails or is cut
  short is the old one, the new one or a torn slot.
* `SegmentRotation`: a batch is one request; how its lines survive a crash is `DeliveryJournal`'s
  subject. A record of the authority or of the generation manifest may be cut short by a crash or an
  error. `TornStaging` says whether a crash may leave a staged directory incomplete.
* `DeliveryRadix`: a page is named by its content. Page sizes, the page cache and read-ahead are left out.
* `DispatchLanes`: `settled` stands for the committed frontier and the proven denials. The settle that
  waits for a quiet lane is left out. `LaneQueue!Place` is what `sort.Search` returns on a sorted slice,
  and the slices are proved to be sorted.
* `SpoolProgress`: the unit is a line. A sync covers the whole file, as one of the segment's own
  handle does.
* `Singleton`: Linux and macOS, where `pidAlive` decides before the heartbeat. Any number of processes may
  be inside `AcquireLock` at once; two history variables say which met another there (`beside`) and whose
  lock file was removed while they were alive (`robbed`).
* `DaemonLifecycle`: what a request does, besides starting a stop or a session end, is left out.
  `serverCloseWait` and `sessionEndAbandonAfter` may end a join at any time; `outlasted` records what they
  gave up on.
* `HookDelivery`: one request per hook; publication is exactly once, by the journal. Admission may deny or
  fail, recording may be off, and a drain may fail part of the way.
* `GCGate`: a pass takes its snapshot and ends collected, truncated, failed, cancelled or by a panic.
* `StoreGC`: modification times are exact, the retention window stands still within a pass, and
  sizes are left out (`Quota` says whether the store exceeds its quota). Puts, names and passes overlap
  freely; `exposed` holds the roots that were put or named while a pass ran that could not know of them.
  After half a pair is retired, or an
  object is lost, the next put of that content is a dedup hit and `SyncPublication` refuses it until a
  later pass retires the root: a refusal, not a false promise.
* `ObservationPublication`: conflicting intents, which only damage can produce, and tool calls without a
  host id are left out.
* `CheckpointSeal`: a draft is its number and the segments it holds. Parents, forks, tiers,
  truncation, `Abort` and `fsck --repair` are left out, one Finalize per session runs at a time,
  steps that commute are merged. Over a power cut the file system keeps what a sync covered and any
  part of the rest, a manifest line cut in two included; a `WriteAtomic` also makes earlier removals in its
  directory durable.
* `CompactAnswer`, `PreCompactSettle`, `PromptReply`: one session. A PreCompact always finds a drainer: `Run`
  stores it before it opens for requests, so `settleBeforeSeal`'s branch without one is not taken. The
  report of a compaction may say `notBuilt` in any case (`ReportIsTrue` does not constrain it).
* `ContractHistory`: the host keeps its promise; live requests are served beside each other, and copies are
  replayed in any order. A failed `SaveHistory`, the cap on `WentOn` and the eviction of sessions from the
  registry are left out.
* `PayloadBudget`: a record is its identity, its prices and whether it is fixed; texts are left out.
* `NegKnow`: a record rests on one file; a fork's view of its parent and free text are left out. `loose`
  holds what was acknowledged without a sync.
* `SegmentAccount`: tokens are bags of deliveries, so that counting one twice shows; the detector only
  says whether a delivery declares a changepoint. `stale` holds the deliveries whose close the document does
  not tell of.
* `Migration`: semantic parity is that of the record set. The legacy writer may be let in at any time before
  the handoff, and a power cut may come at any time; `late`, `lost` and `reused` record what they cost.

## 3. Runs

A module's type invariant is `TypeOK` (`QueueTypeOK`, `AnswerTypeOK`, `PromptTypeOK` where modules are
extended together). It is defined beside the variables and was checked with each configuration while the
model was built; the runs list the properties that say something about several steps. Most of them are
conjunctions; each conjunct has a name and a comment of its own in its module.

| Run | Parts | Shows | Bounds |
|---|---|---|---|
| `progress` | group commit, gate, rotation, shutdown, hooks | every call returns, a shutdown completes, spooled lines are taken; leadership, batches and the gate are sound | 3 commits with caps of 2 and 3 bytes, one larger; 3 collections of 2 kinds; 2 journal calls over a rotation with a failure; 1 connection with a request, 1 wedged handler or deaf session end; 2 hooks |
| `drain` | WAL segment, lanes | nothing acknowledged on a line of its own is lost, an ended segment is removed, every leased delivery settles | 2 lines, 1 failed sync or save, 1 torn line, 2 crashes; 2 arrivals, 2 workers, lane of 1, 1 failure |
| `lanes` | lanes | arrival order, one handler at a time, no forgotten work | 2 sessions, 2 workers, ring of 1, lane of 2; one session with 3 arrivals, or two with one each and a repeated accept, a session end or a failure |
| `journal` | rotation, one segment, index | the rotation implements `LeaseLedger`; answers stay findable and frontiers exact; a harvest names every open lease; only a torn or headless record and a half-staged or conflicting directory have an open refused; a segment's answers stand; the index is canonical | 2 deliveries, 2 callers, up to 2 faults or a harvest; 3 nonces, 2 owners, batches of 2; 4 keys of 3 bits, 2 packs |
| `processes` | singleton, session end, hooks, migration | one holder unless starts met inside `AcquireLock` and one removed a live one's file; turned away only by a live owner; a session is ended for real; an event is kept; a handover is complete and a backup is of one instant | 2 daemons, 3 spawners of which the hooks run without the command, 1 command, 2 crashes; 1 flush over 3 lives; 2 hooks; 2 legacy records, 2 of mishaps, writes and overlaps |
| `compaction` | seal, settle, answer, history | seals are readable, kept, marked, and strand nothing; no capture is silently missing; reports and answers are true; the host is blamed only for a start that overtook a hook or for a live request served late | 2 sessions, 1 collision retry, 1 fault, 1 crash; 2 captures; 1 compaction live and replayed; 4 hooks, 2 of copies, restarts and pending live requests at a time |
| `requests` | shutdown, prompt, publication, store | a shutdown answers first and leaves nothing; a warning is not silenced; an observation is published once and durably; the store keeps what was published, and a completed sweep skipped nothing | 1 worker, 1 connection, 1 wedged handler; 2 prompts, 2 rules; 4 deliveries, 3 faults; 2 puts, 2 passes, 1 crash |
| `ledgers` | eliminations, account, grammar, payload | answers of the ledger are true; tokens are counted once unless a close was not saved; the grammar stands for its input; the payload keeps its caps and names what it drops | 2 ingests, 1 fault; 2 tool uses with 2 mishaps, or 2 sessions; 6 symbols over 2 terminals, 1 reload; about 5,000 requests |
| `torn_tail_swallows_acked_line` | WAL segment | a counterexample (section 6) | 2 lines, 1 torn line, 1 crash |
| `seal_takes_another_drafts_number` | seal | a counterexample (section 6) | 2 sessions, 1 crash, no fault |
| `staged_segment_blocks_open` | rotation | a counterexample (section 6) | 4 deliveries, 1 caller, 1 fault |
| `larger_budget_loses_a_record` | payload | a counterexample (section 6) | 11 budgets |

Why the bounds are enough for the cases that matter:

* The queue's safety is proved for every set of calls; its run needs a leader, a call cut off by a cap and
  one that arrives during the handoff: three calls.
* A lane of two with three arrivals reaches refusal, eviction and a parked head; two sessions are
  needed for the wake list to matter and one arrival each is enough for it.
* A lock is judged by one process while a second owns it and a third has just released it: two daemons and
  a command. Two crashes leave a dead lock and a dead claim together.
* The gate needs a running call and two waiting calls that differ in kind or deadline.
* A rotation needs a lease that is archived and one that is carried; with a rollover of one, two
  deliveries give both, and two faults a crash during the recovery from a crash.
* Two roots that share an object, and a side record, give a collection everything it can get wrong
  about sharing and pairs; two passes are needed to resume a cursor.
* Six symbols over two terminals are enough for rules to be made, reused and inlined again.
* The seal was also explored once with three numbers, with two crashes and with two retries, and the account
  of two sessions with two mishaps (4.2 million states).
* Constraints of `processes`, `compaction` and `requests` bound how much goes wrong together: `Strain` the
  mishaps, writes and overlapping calls of an import, `Disorder` the copies, restarts and pending live hooks,
  `BeforeSeal` leaves out what follows a seal, and `Overlapped` has at most one pass and no crash after an
  exposed put.

Symmetry is declared over sessions, workers, callers, processes and captures where every property is symmetric in
them and none is a liveness property. Deadlock is reported except where the system may stop: all calls
have returned, or the bound on crashes, puts or numbers is spent.

## 4. Fairness

Each liveness property names the fairness of its own part. In general: a goroutine that can run does run,
and what it waits for inside one step (a commit, a pass, a publication) ends. No caller has to call, no
context has to end, nothing has to fail.

* `GroupCommit`, `GCGate`: weak fairness of each call that was made. A pass's loops are bounded by what is
  on disk.
* `SegmentRotation`: weak fairness of each call, of the rotation and of the retirement; strong fairness of
  entering the journal, because the queue of calls is served first come, first served (`GroupCommit`).
* `DispatchLanes`: workers, a started pass, the requester and `Accept` run (`RequestFairness`); in addition
  a flush, an idle period or an operator starts another drain again and again (`Fairness`).
* `SpoolProgress`: passes keep coming and go on; the sync of a written line returns; a pass that could
  again and again consume a given line, or end its reading, does so at some time (strong fairness: a
  crash or a line that waits can put off one pass, not all of them).
* `DaemonLifecycle`: Run, Stop and the server go on, a grace period and the server's wait for its handlers
  end, a closed connection's read ends, and a cancelled session end returns unless it is deaf to its
  cancellation; strong fairness of a worker's drain, which waits for a mutex that a stop does not hold for
  ever. A wedged handler and a deaf session end never have to return.
* `HookDelivery`: a hook reads its answer or meets its deadline and appends; the server serves and publishes
  what it read; the idle tick, the watcher and the submode's writer run.

## 5. Proofs

Every theorem holds for all values of the constants that satisfy the named ASSUMEs of its component.

| Theorem | Statement | For |
|---|---|---|
| `GroupCommitProofs!TypeCorrect` | `QueueSpec => []QueueTypeOK` | any finite set of calls, any sizes, any caps |
| `GroupCommitProofs!OneLeaderAlways` | `QueueSpec => []OneLeader` | same |
| `GroupCommitProofs!ResultFinalAlways` | `QueueSpec => ResultFinal` | same |
| `GroupCommitProofs!BatchesSoundAlways` | `QueueSpec => []BatchesSound` | same |
| `GCGateProofs!TypeCorrect` | `Spec => []TypeOK` | any finite set of calls, any kinds and deadlines |
| `GCGateProofs!GateHeldAlways`, `AnsweredByLaterPassAlways`, `GateSoundAlways` | `Spec => []GateHeld`, `[]AnsweredByLaterPass`, `[]GateSound` | same |
| `GCGateProofs!NobodyLeftBehindAlways`, `OldestKindFirstAlways`, `HandedOnFairlyAlways` | `Spec => NobodyLeftBehind`, `OldestKindFirst`, `HandedOnFairly` (action properties) | same |
| `SingletonProofs!OneHolderAlways` | `Spec => []OneHolder` | any processes, spawners and crashes, starts that meet inside `AcquireLock` included |
| `SingletonProofs!TurnedAwayByOwnerAlways` | `Spec => TurnedAwayByOwner` (an action property) | same |
| `CompactAnswerProofs!CompactionHonestAlways` | `AnswerSpec => []CompactionHonest` | any number of compactions, any later events |
| `PromptReplyProofs!NotSilencedAlways` | `PromptSpec => []NotSilenced` | any prompts, rules and reference counts |
| `DispatchLanesProofs!WakesAndDrainsOwedAlways` | `Spec => [](WakeNotLost /\ DrainOwed)` | any sessions, workers, arrivals, capacities, failures, repeats and session ends |
| `DispatchQueueProofs!InArrivalOrderAlways` | `Spec => []InArrivalOrder` | same |
| `DispatchQueueProofs!OneHandlerAlways` | `Spec => []OneHandler` | same |
| `DispatchQueueProofs!NothingForgottenAlways` | `Spec => []NothingForgotten` | same, if the record of unheld jobs has room for every job (`RecordHoldsAll`) |

**Group commit.** `OneLeader` is not inductive: a handoff makes the head of the queue a leader, which
is right only if the head is a parked call that nobody else will wake. `Leadership` adds that the
queue holds parked or elected calls, each once; that only its head can have been elected; and that a
call which is in a batch, or whose channel is to be closed or is closed, has left the queue. The last
one is what makes a woken call that finds `lead` unset a finished one. `ResultFinal` needs one more
fact, `BatchWaits`: while a batch is being committed its other members are parked and nobody is about
to release them, so the results a commit writes are of calls that cannot have returned. `BatchesSound`
needs `Batches`: the sequence of what was committed, what is in flight and what is queued holds each call
that arrived exactly once, and whoever is to be released or has returned is in its committed part. A cut
moves the border between queue and flight and a handoff the one between flight and committed, so no step
changes the sequence but an arrival. The caps follow from the definition of a cut, whatever
the sizes sum up to.

**Collection gate.** `GateInv` adds to `GateHeld` and `AnsweredByLaterPass` how a call's fate
determines where it is (`Stages`); that the holder's pass is the last one numbered (`HolderNumber`);
that a call queued below a pass's number was made before that pass's snapshot (`SeenByPass`), which is
why comparing `floor` with the pass's number is enough for `serves`; and that the holder has the
longest Deadline of its kind among those that queued before it (`LongestHolds`). The last one shows
that the clause of `serves` that refuses a truncated report to a call with a longer Deadline never
decides anything for the calls the pass was elected for.

**Singleton.** A second process gets past `AcquireLock` only when the lock file of a live one is removed, so
`LockInv` says of each process past it that the lock file is its own or that it is in `robbed`, and that it has
written it (`LockNamesOwner`). The rest is about the first robbery. Two processes inside `AcquireLock` have met
there (`Met`). While nobody was robbed, whoever holds a lock that another is about to remove as stale has
taken it since the judgement, beside the remover (`Reclaims`), so the first process to be robbed had met
another start (`FirstRobbed`). A listener belongs to a process that has not released the lock, and until then
nobody binds the address between an unlink and its bind (`ListensHolding`), so a holder that is turned away by
the address implies a robbery. The spawn claims occur in no part of the invariant: losing, reclaiming or
removing one cannot cost the project its singleton.

**Compact SessionStart.** `StartInv` fixes, for each start, who settles its ticket and with what
(`TicketShape`), what the rehydration may believe at each stage (`WorkShape`), that an answered live start
got what its ticket says (`AnswerShape`), and that the report was read off the ticket it names
(`ReportShape`). `GateInv` adds that a gate with open bookkeeping is counted, so an event waits for the last
of the starts that share it.

**Prompt reply.** `ReplyInv` adds to `NotSilenced` that a call which may still claim its reply has a hook
not yet answered, that rules are handed over only with a claimed reply, and that the observer's memory is what
the last claimed reply was handed.

**Lanes.** `LaneInv` says what each worker and the pass hold at each of their places. `OwnerInv` ties
`running` to the one worker that owns a lane, and `PublishInv` the seen set to the one publisher of a
delivery; a job is taken only when its predecessors have settled, and what has settled stays. `QueueInv`
adds that `held` counts the queued jobs exactly and that each queue is ascending and within its bound; it
rests on `LaneQueueProofs`, which shows that inserting at `sort.Search`'s place, removing a settled arrival
and dropping the latest one keep a queue ascending and change its content by that arrival alone. The place is
found with the least-number principle. `WakeNotLost` and `DrainOwed` need in addition that a pass which
releases or signals has no file left to open (`PassEnds`). `EveryPendingJobNamed` needs that only leased jobs
settle, and that no join and no settled job drops another job's name (`NamesKept`): what a full lane evicts
or refuses is in the record before it leaves the queue. Past its capacity `noteUnheld` records nothing (the
settle then counts the job from the journal alone), so the last theorem assumes that the record has room;
the other three do not.

The inductive invariants were checked with TLC on small instances before they were proved.

Only model-checked:

* Liveness, which is out of the prover's reach here: `EveryCommitReturns`, `EveryCollectionReturns`,
  `EveryJournalCallReturns`, `ShutdownCompletes`, `SpooledIsTaken`, `SegmentRemoved`, `EveryJobSettles`.
* What is about recursive computations, which needs induction over data: `GrammarSound`, `PayloadSound`,
  `IndexSound`.
* The refinement `ImplementsLedger` and the safety properties of the other modules (`SpoolSound`, `SealSound`,
  `StoreReadable`, `PublicationSound`, `SegmentSound`, `EndedForReal`, `EventKept`, `MigrationSound`,
  `NeverSilentlyMissing`, `BlamedOnlyAhead`, `OrderlyShutdown`, `LedgerHonest`, `AccountSound`, ...): their
  inductive invariants are not written yet. The first candidates are the seal, the spool and the refinement.
* The abstraction steps themselves: that a critical section may be one action is argued in the modules'
  headers, not proved.

## 6. Where the code and its own words disagree

Four disagreements have runs of their own, with the quoted lines in `PROJECT.json`:

* `torn_tail_swallows_acked_line`: a WAL segment that ends in a partial line is appended to as it is,
  so the next acknowledged line cannot be decoded (`daemon/ingest.go:690`).
* `seal_takes_another_drafts_number`: a seal that collides with its own orphan moves to a number
  another session's durable records name, whose draft is then set aside (`checkpoint/finalize.go:133`).
* `staged_segment_blocks_open`: a rotation that stopped after staging the next segment leaves a directory
  that a later rotation with other leases refuses, and with it the journal (`daemon/delivery_lease.go:1562`).
* `larger_budget_loses_a_record`: one more record in an early share leaves less to carry on, and a later
  section loses a record it showed at the smaller budget (`rehydrate/build.go:240`).

The others can be seen by changing one constant of a configuration or by dropping the exception of a property
that is named with them:

* `daemon/drain.go:881`: a requested pass that meets a line some worker is publishing ends the file and
  `passLeftWork` asks for no other, so jobs behind that line wait for a flush or the idle drain. The
  comment at `daemon/delivery_order.go:787-790` says the requester is there so that they need not.
  (`EveryJobSettles` under `RequestFairness` alone.)
* `daemon/delivery_order.go:492`: `forget` leaves the entry in `ready`, so a session whose lane is opened
  again can be listed twice; lines 336-337 say "each at most once". `claimReady` tolerates it.
  (`ListedOnce`, one session, three arrivals, one forget.)
* `daemon/lock.go:238`: two processes inside `AcquireLock` at once: one takes the other's created and not
  yet written lock file for a stale one, and both return a lock. `docs/security.md:394` says "Exactly one
  holds the lock; the second exits 0", `ipc/spawnlock.go:186-187` "the second daemon then loses the singleton
  lease and exits". (`robbed` and `beside` in `OneHolder`.)
* `store/objects.go:246`: a put that reuses a present object does not refresh its age, so a running pass
  that found it dead still sweeps it; lines 241-243 call such a root "an unreadable lie".
  (`exposed` in `IndexReadable`.)
* `store/put.go:223`: a dedup hit neither marks nor refreshes its root, so a running pass retires it after
  its record was published; `observer/tooluse.go:150` says "never a dangling index record".
  (`exposed` in `PublishedReadable`.)
* `store/gcrun.go:1476`: `applyQuota` evicts one root at a time and can split a pair; lines 584-585 say
  "half a pair is a recovery claim that cannot be honoured". No production caller sets a quota.
  (`PairsShareFate` with `Quota = TRUE`.)
* A seal that moved to another number keeps its draft's old one in the state file. After a crash between
  the manifest line and the removal of the file the draft is sealed a second time. (`SealedOnce` leaves
  moved seals out; one session, three numbers, two retries and two crashes show it.)
* `checkpoint/writer.go:356`: `retireDraft` removes the state file after it released `w.mu`, so the file of a
  successor begun in between goes with it. (`NoneStranded` leaves such drafts out, as `unsaved`.)
* `paths/barriers.go:214` says that a cut before the manifest is synced "leaves at most an orphan artifact". A
  cut inside the line leaves a partial one, with which the manifest is not read at all. (`torn` in
  `PromiseKept`.)
* `daemon/delivery_unheld.go:156-158` calls a lease of an earlier daemon, archived unsettled, "the one capture
  the drop report does not count". With the record at `unheldCapacity` one of this daemon's own is not counted
  either. (`archived` in `NeverSilentlyMissing`.)
* `daemon/handlers.go:1457-1458`: the order in which hooks reach the daemon "does not change the reading". A live
  PreCompact is recorded even when a younger one of another session is on record, and a live start is judged
  against whichever was recorded last. (`late` in `BlamedOnlyAhead`.)
* `daemon/daemon.go:1272-1276` closes what the daemon owns after `Server.Close`, because that "joins the
  in-flight connection handlers". Close gives up on a handler after `serverCloseWait`, and what it uses is
  then closed under it. (`outlasted` in `QuietAtClose`.)
* `daemon/scheduler_tap.go:236` says a delivery is "applied once, by its observation identity". A segment closed
  after the document was last saved is counted again after a crash, from the document or by the replay, and
  what only the account of a session held is dropped when another is bound. (`stale` in `FoldedOnce`,
  `GivesUp` in `NothingDropped`.)
* `rehydrate/build.go:401-403`: a removal by the hard cap is "a NAMED overflow, not a silent erasure". It is named
  in the drop list; the payload itself mentions it only if the plan had left something out too. (`Said`.)
* `daemon/handlers.go:1067`: a SessionStart writes the record that new clients read from a state it computed
  before, so it can overwrite a newer one; lines 427-428 say "the record can lead the registry, never trail
  it". (`record` and `hot` of `HookDelivery`.)
* `negknow/log.go`, about line 172: nothing ends a partial last line, so a power loss glues the next record to
  it and both are skipped, where the comment says a crash costs "never half of two". (`AckedKept` leaves such
  a record out, as `Swallowed`, and what was acknowledged without a sync, as `loose`.)
* `store/migrate.go:481`: an import of a source that has grown writes cursors that still say `Complete`, so after
  a crash in between the next import returns at once; line 168 says "Complete is true only once Position has
  reached Frontier". The cutover's parity check then refuses. (The cursor of `Migration`.)
* `store/migrate.go`: the legacy writer can be let in again between the cutover's check and its handoff, and an
  object that the import finds in the store without a root is open to a running collection. (`late` in
  `HandoverComplete`, `reused` in `NamedIsKept`.)
* `grammar/rules.go:18-24`: digram uniqueness does not hold after every `Append` (the input `abbbabcbb`): a pair
  of equal symbols may occur twice. (`DigramOnce` is stated for pairs of different symbols.)

Read in the code and not modelled: `gcPass` subtracts what a sweep freed only when the sweep completes, and
an abandoned cursor (`store/gcrun.go:1732`) drops what its truncated pass had freed, so the store's size
stays too large.

## 7. What is not modelled

Not modelled because a state model adds nothing: text and floating-point analysis (`canon`, `sketch`,
`analyzer`, `symbols`, `tokens`, `redact`, the scheduler's detector and the admission pipeline's estimates),
output and dispatch (`cli`, `commands`, `hookio`, `mcp`), discovery of files (`rules`, `skills`), metrics and
logs, generated manifests, the evaluation harness and test scaffolding. Together they are most of the source,
which is why the map covers a small share of its lines. `PROJECT.json` gives the reason for each.

Left out of parts that are modelled: the settle that waits for a quiet lane, blobs and the host's order between
client spools, the heartbeat and Windows' locks, configuration reloads, the retrieval requests, checkpoint
parents and forks, `fsck --repair`, the audits of the store, restoring a backup, a fork's view of its parent's
eliminations, and the contract monitor's degradation levels.
