-------------------------- MODULE SegmentRotation --------------------------
(***************************************************************************)
(* The delivery journal over its whole history: the active window of       *)
(* leases and acknowledgements (daemon/delivery_lease.go), the rotation    *)
(* that archives a full window into the generation store                   *)
(* (delivery_generation.go), stages the next segment with the leases it    *)
(* carries (delivery_carry.go), freezes the seals of segment 0             *)
(* (delivery_frozen_seal.go) and commits the transition in the segment     *)
(* authority (delivery_segment.go), terminal dispositions                  *)
(* (delivery_terminal.go), the open that recovers from a crash anywhere in *)
(* between, and a collection's harvest of the open leases                  *)
(* (store/gc_delivery_segments.go, gcrun.go).                              *)
(*                                                                         *)
(* How one window's lines, seals and batches survive a crash is            *)
(* DeliveryJournal's subject: here a batch is one request, and its line is *)
(* in the file or it is not.  A lease is a pair <<delivery, ArrivalSeq>>.  *)
(* The request hash is left out: a nonce belongs to one session.           *)
(***************************************************************************)
EXTENDS Naturals, FiniteSets, FiniteSetsExt

CONSTANTS Delivery,      \* nonces
          SessionOf,     \* their sessions, numbers in the order leaseBefore compares them
          Deniable,      \* deliveries the drain may retire as denied
          Caller,        \* goroutines that lease and acknowledge
          Rollover,      \* rolloverEntries
          TornStaging,   \* whether a crash may leave a staged directory incomplete
          MaxFaults,     \* crashes and failed operations
          MaxPasses,     \* harvests
          None

Session == {SessionOf[d] : d \in Delivery}

\* A window rotates when Rollover of its leases or acknowledgements are in it.
MaxSegment == (2 * Cardinality(Delivery)) \div Rollover

Seg == 0..MaxSegment
Lease == Delivery \X (1..Cardinality(Delivery))

ASSUME SegmentRotationAssumption ==
    /\ Rollover \in Nat \ {0} /\ MaxFaults \in Nat /\ MaxPasses \in Nat
    /\ SessionOf \in [Delivery -> Nat]
    /\ Deniable \subseteq Delivery
    /\ TornStaging \in BOOLEAN
    /\ None \notin Delivery \union Caller

VARIABLES
    \* files under state/
    leaseFile,  \* each segment's delivery-leases.jsonl
    ackFile,    \* each segment's delivery-acks.jsonl
    denied,     \* the deliveries with a terminal disposition file
    frozen,     \* which seals of segment 0 are frozen documents
    dir,        \* each segment's directory: absent, partial, fresh
    carry,      \* each segment's carried leases
    log,        \* the active segment the authority's last log record names
    base,       \* each segment's base root: the last arrivals archived before it
    head,       \* the active segment the authority's head names
    authority,  \* none, headless (a log and no head), torn (it ends inside a record), ok
    store,      \* the generation store's committed root
    generations,\* none, headless (a manifest and no head), torn, ok
    \* the daemon
    mode,       \* down, opening, open, fault (an error), refused (what is on disk is)
    segment,    \* j.segment
    leases,     \* j.leases
    acks,       \* j.acks
    rotating,   \* no, or the step of rotate and doRotate that is next
    rotator,    \* the caller that rotates; None during an open
    retiring,   \* the delivery retireDenied is retiring, or None
    call,       \* each caller: where it is, lease or ack, its nonce, sig.from
    \* a collection's harvest
    gpc, view, gacks, kept,
    faults, passes,
    granted,    \* history: the leases answered
    acked,      \* history: the acknowledgements answered
    owed        \* history: the deliveries open when the harvest began

disk == <<leaseFile, ackFile, denied, frozen, dir, carry, log, base, head, authority,
          store, generations>>
handle == <<mode, segment, leases, acks, rotating, rotator, retiring>>
harvest == <<gpc, view, gacks, kept, passes, owed>>
vars == <<disk, handle, call, harvest, faults, granted, acked>>

NoArrivals == [s \in Session |-> 0]
EmptyStore == [leases |-> {}, acks |-> {}, terms |-> {}, last |-> NoArrivals,
               frontier |-> [s \in Session |-> 1]]

Idle == [pc |-> "idle", op |-> "lease", d |-> None, from |-> 0]
NoView == [log |-> 0, head |-> 0, authority |-> "none", staged |-> {}]

Init ==
    /\ leaseFile = [k \in Seg |-> {}] /\ ackFile = [k \in Seg |-> {}]
    /\ denied = {} /\ frozen = {}
    /\ dir = [k \in Seg |-> IF k = 0 THEN "fresh" ELSE "absent"]
    /\ carry = [k \in Seg |-> {}]
    /\ log = 0 /\ head = 0 /\ base = [k \in Seg |-> NoArrivals]
    /\ authority = "none" /\ generations = "none" /\ store = EmptyStore
    /\ mode = "down" /\ segment = 0 /\ leases = {} /\ acks = {}
    /\ rotating = "no" /\ rotator = None /\ retiring = None
    /\ call = [c \in Caller |-> Idle]
    /\ gpc = "idle" /\ view = NoView
    /\ gacks = {} /\ kept = {} /\ passes = 0 /\ owed = {}
    /\ faults = 0 /\ granted = {} /\ acked = {}

TypeOK ==
    /\ leaseFile \in [Seg -> SUBSET Lease] /\ ackFile \in [Seg -> SUBSET Delivery]
    /\ denied \subseteq Deniable /\ frozen \subseteq {"lease", "ack"}
    /\ dir \in [Seg -> {"absent", "partial", "fresh"}]
    /\ carry \in [Seg -> SUBSET Lease]
    /\ log \in Seg /\ head \in Seg /\ base \in [Seg -> [Session -> Nat]]
    /\ {authority, generations} \subseteq {"none", "headless", "torn", "ok"}
    /\ store.leases \subseteq Lease /\ store.acks \subseteq Delivery
    /\ store.terms \subseteq Deniable
    /\ {store.last, store.frontier} \subseteq [Session -> Nat]
    /\ mode \in {"down", "opening", "open", "fault", "refused"}
    /\ segment \in Seg /\ leases \subseteq Lease /\ acks \subseteq Delivery
    /\ rotating \in {"no", "drain", "archive", "genhead", "stage", "carry", "freezelease",
                     "freezeack", "commit", "head", "switch"}
    /\ rotator \in Caller \union {None} /\ retiring \in Deniable \union {None}
    /\ call \in [Caller -> [pc : {"idle", "enter", "in", "sync", "signal", "wait", "rotate"},
                            op : {"lease", "ack"}, d : Delivery \union {None}, from : Seg]]
    /\ gpc \in {"idle", "acks", "leases", "recheck"}
    /\ gacks \subseteq Delivery /\ kept \subseteq Delivery
    /\ granted \subseteq Lease /\ acked \subseteq Delivery /\ owed \subseteq Delivery

-----------------------------------------------------------------------------
(* Leases and the generation store.                                        *)

Nonces(ls) == {l[1] : l \in ls}
Of(ls, s) == {l \in ls : SessionOf[l[1]] = s}
LastOf(ls, s, start) == Max({l[2] : l \in Of(ls, s)} \union {start})

\* leaseBefore: (session, arrival) order.
Before(k, l) == \/ SessionOf[k[1]] < SessionOf[l[1]]
                \/ SessionOf[k[1]] = SessionOf[l[1]] /\ k[2] < l[2]

\* firstWindowLease
First(ls) == CHOOSE l \in ls : \A k \in ls \ {l} : Before(l, k)

\* genWriter.advanceFrontier: past every arrival in turn that is recorded and settled.
AdvanceFrontier(st) ==
    LET Passed(s, n) == \E l \in Of(st.leases, s) :
                          l[2] = n /\ l[1] \in st.acks \union st.terms
    IN  [st EXCEPT !.frontier =
           [s \in Session |-> Min({n \in @[s]..(st.last[s] + 1) : ~Passed(s, n)})]]

\* commitAck and commitTerminal: the settlement of archived leases.
CommitAck(st, ds) == AdvanceFrontier([st EXCEPT !.acks = @ \union ds])
CommitTerminal(st, d) == AdvanceFrontier([st EXCEPT !.terms = @ \union {d}])

\* archiveWindow: the window's leases, acknowledgements and dispositions.
ArchiveWindow(st) ==
    AdvanceFrontier([st EXCEPT !.leases = @ \union leases,
                               !.acks = @ \union acks,
                               !.terms = @ \union (denied \intersect Nonces(leases)),
                               !.last = [s \in Session |-> LastOf(leases, s, @[s])]])

Archived(d) == d \in Nonces(store.leases)
Active(d) == d \in Nonces(leases)
Unmirrored(d) == ~Active(d) /\ Archived(d)

\* A record may be in the middle of its append to the generation manifest: a window is being
\* archived, or an acknowledgement or a disposition of an archived lease mirrored.
Mirroring ==
    \/ rotating = "archive"
    \/ \E c \in Caller : call[c].pc = "sync" /\ call[c].op = "ack" /\ Unmirrored(call[c].d)
    \/ retiring # None /\ Unmirrored(retiring)
    \/ mode = "open" /\ rotating = "no" /\ \E d \in denied \ store.terms : Unmirrored(d)

\* An append that a crash or an error cuts short leaves part of its record.
AppendCut ==
    /\ authority' \in IF rotating = "commit" THEN {authority, "torn"} ELSE {authority}
    /\ generations' \in IF ~Mirroring THEN {generations}
                        ELSE {generations, IF generations = "none" THEN "headless" ELSE "torn"}

Files == <<leaseFile, ackFile, denied, frozen, dir, carry, log, base, head, store>>

-----------------------------------------------------------------------------
(* A call of lease or acknowledge.                                         *)

At(c, s) == call[c].pc = s
Return(c) == call' = [call EXCEPT ![c] = Idle]
Step(c, s) == call' = [call EXCEPT ![c].pc = s, ![c].from = 0]

\* openDeliveryJournal hands out a usable journal.
CallBegins(c, o, d) ==
    /\ At(c, "idle") /\ mode = "open"
    /\ call' = [call EXCEPT ![c] = [pc |-> "enter", op |-> o, d |-> d, from |-> 0]]
    /\ UNCHANGED <<disk, handle, harvest, faults, granted, acked>>

\* A queue has one leader at a time (GroupCommit).
Leading(o) == \E c \in Caller : call[c].op = o /\ call[c].pc \in {"in", "sync"}

\* enter: refused by a handle that is down, admitted when no rotation holds the barrier.
Enter(c) ==
    /\ At(c, "enter")
    /\ ~Leading(call[c].op)
    /\ \/ mode # "open" /\ Return(c)
       \/ mode = "open" /\ rotating = "no" /\ Step(c, "in")
    /\ UNCHANGED <<disk, handle, harvest, faults, granted, acked>>

\* leaseBatch.decide: a known nonce is answered with its lease.
LeaseKnown(c) ==
    /\ At(c, "in") /\ call[c].op = "lease"
    /\ Active(call[c].d) \/ Archived(call[c].d)
    /\ granted' = granted \union
         {IF Active(call[c].d) THEN CHOOSE l \in leases : l[1] = call[c].d
                              ELSE CHOOSE l \in store.leases : l[1] = call[c].d}
    /\ Return(c)
    /\ UNCHANGED <<disk, handle, harvest, faults, acked>>

\* Deviation: a session absent from the window starts again.
PreviousForgotten(s) == LastOf(leases, s, 0)

\* The arrival before the next: the window's, else the store's.
Previous(s) == LastOf(leases, s, store.last[s])

\* signalRotate: the window is full.
Signal(c, full) ==
    /\ full
    /\ call' = [call EXCEPT ![c].pc = "signal", ![c].from = segment]
    /\ UNCHANGED <<disk, handle, harvest, faults, granted, acked>>

LeaseFull(c) ==
    /\ At(c, "in") /\ call[c].op = "lease"
    /\ ~Active(call[c].d) /\ ~Archived(call[c].d)
    /\ Signal(c, Cardinality(leases) >= Rollover)

\* leaseBatch.decide mints, appendLeases writes and syncs.
LeaseAppend(c) ==
    /\ At(c, "in") /\ call[c].op = "lease"
    /\ ~Active(call[c].d) /\ ~Archived(call[c].d)
    /\ Cardinality(leases) < Rollover
    /\ leaseFile' = [leaseFile EXCEPT ![segment] =
                       @ \union {<<call[c].d, Previous(SessionOf[call[c].d]) + 1>>}]
    /\ Step(c, "sync")
    /\ UNCHANGED <<ackFile, denied, frozen, dir, carry, log, base, head, authority, store,
                   generations, handle, harvest, faults, granted, acked>>

\* appendLeases admits what it sealed; the call is answered and leaves.
LeaseAdmit(c) ==
    /\ At(c, "sync") /\ call[c].op = "lease"
    /\ LET l == CHOOSE k \in leaseFile[segment] : k[1] = call[c].d
       IN  leases' = leases \union {l} /\ granted' = granted \union {l}
    /\ Return(c)
    /\ UNCHANGED <<disk, mode, segment, acks, rotating, rotator, retiring, harvest, faults, acked>>

\* commitAcks: no lease to acknowledge, or acknowledged already in the window or the store.
AckKnown(c) ==
    /\ At(c, "in") /\ call[c].op = "ack"
    /\ \/ ~Active(call[c].d) /\ ~Archived(call[c].d) /\ UNCHANGED acked
       \/ /\ call[c].d \in acks \/ (~Active(call[c].d) /\ call[c].d \in store.acks)
          /\ acked' = acked \union {call[c].d}
    /\ Return(c)
    /\ UNCHANGED <<disk, handle, harvest, faults, granted>>

NewAck(c) ==
    /\ At(c, "in") /\ call[c].op = "ack"
    /\ call[c].d \notin acks
    /\ Active(call[c].d) \/ (Archived(call[c].d) /\ call[c].d \notin store.acks)

AckFull(c) == NewAck(c) /\ Signal(c, Cardinality(acks) >= Rollover)

\* appendAcks writes and syncs.
AckAppend(c) ==
    /\ NewAck(c)
    /\ Cardinality(acks) < Rollover
    /\ ackFile' = [ackFile EXCEPT ![segment] = @ \union {call[c].d}]
    /\ Step(c, "sync")
    /\ UNCHANGED <<leaseFile, denied, frozen, dir, carry, log, base, head, authority, store,
                   generations, handle, harvest, faults, granted, acked>>

\* appendAcks mirrors the acknowledgement of an archived lease, then admits and answers.
AckAdmit(c) ==
    /\ At(c, "sync") /\ call[c].op = "ack"
    /\ store' = IF Active(call[c].d) THEN store ELSE CommitAck(store, {call[c].d})
    /\ acks' = acks \union {call[c].d}
    /\ acked' = acked \union {call[c].d}
    /\ Return(c)
    /\ UNCHANGED <<leaseFile, ackFile, denied, frozen, dir, carry, log, base, head, authority,
                   generations, mode, segment, leases, rotating, rotator, retiring, harvest,
                   faults, granted>>

-----------------------------------------------------------------------------
(* Terminal dispositions.                                                  *)

Settles == <<leaseFile, ackFile, frozen, dir, carry, log, base, head, authority, generations,
             mode, segment, leases, acks, rotating, rotator, call, harvest, faults,
             granted, acked>>

\* retireDenied, which holds the owner's mutex: the disposition file.
RetireWrite(d) ==
    /\ mode = "open" /\ rotating = "no" /\ retiring = None
    /\ Active(d) \/ Archived(d)
    /\ retiring' = d
    /\ denied' = denied \union {d}
    /\ UNCHANGED <<store, Settles>>

\* retireDenied: commitTerminalGeneration mirrors it when the lease is archived.
RetireMirror ==
    /\ retiring # None
    /\ generations # "torn"
    /\ store' = IF Active(retiring) THEN store ELSE CommitTerminal(store, retiring)
    /\ retiring' = None
    /\ UNCHANGED <<denied, Settles>>

\* commitTerminal fails at once behind a manifest append that failed.
RetireBehindFault ==
    /\ retiring # None /\ generations = "torn"
    /\ retiring' = None /\ mode' = "fault"
    /\ UNCHANGED <<disk, segment, leases, acks, rotating, rotator, call, harvest, faults, granted,
                   acked>>

\* retireDenied poisons the handle when the mirror fails.
RetireFails ==
    /\ retiring # None /\ faults < MaxFaults
    /\ faults' = faults + 1
    /\ retiring' = None /\ mode' = "fault"
    /\ AppendCut
    /\ UNCHANGED <<Files, segment, leases, acks, rotating, rotator, call, harvest, granted, acked>>

\* archivedTerminalDenied repairs a mirror that a crash left out.
AskTerminal(d) ==
    /\ mode = "open" /\ rotating = "no" /\ retiring = None
    /\ ~Active(d) /\ Archived(d)
    /\ d \in denied \ store.terms
    /\ store' = CommitTerminal(store, d)
    /\ UNCHANGED <<denied, retiring, Settles>>

-----------------------------------------------------------------------------
(* The rotation.                                                           *)

\* Deviation: acknowledgements in flight are not waited for.
InFlightLeases ==
    retiring # None \/ \E c \in Caller : call[c].pc \in {"in", "sync"} /\ call[c].op = "lease"

InFlight == retiring # None \/ \E c \in Caller : call[c].pc \in {"in", "sync"}

\* rotate, past the segment that signalled.
Rotate(c) ==
    /\ At(c, "signal")
    /\ \/ rotating # "no" /\ Step(c, "wait") /\ UNCHANGED <<rotating, rotator>>
       \/ rotating = "no" /\ mode # "open" /\ Return(c) /\ UNCHANGED <<rotating, rotator>>
       \/ /\ rotating = "no" /\ mode = "open" /\ segment # call[c].from
          /\ Step(c, "enter") /\ UNCHANGED <<rotating, rotator>>
       \/ /\ rotating = "no" /\ mode = "open" /\ segment = call[c].from
          /\ Step(c, "rotate") /\ rotating' = "drain" /\ rotator' = c
    /\ UNCHANGED <<disk, mode, segment, leases, acks, retiring, harvest, faults, granted, acked>>

\* rotate, having waited for another's rotation.
WaitDone(c) ==
    /\ At(c, "wait")
    /\ rotating = "no" \/ mode # "open"
    /\ IF mode = "open" THEN Step(c, "enter") ELSE Return(c)
    /\ UNCHANGED <<disk, handle, harvest, faults, granted, acked>>

\* Deviation: a handle poisoned meanwhile is forgotten.
DrainedUsable ==
    /\ rotating = "drain" /\ ~InFlight
    /\ mode = "open" /\ rotating' = "archive" /\ UNCHANGED <<rotator, call>>
    /\ UNCHANGED <<disk, mode, segment, leases, acks, retiring, harvest,
                   faults, granted, acked>>

\* rotate: nothing admitted is in flight; an operation may have poisoned the handle.
Drained ==
    /\ rotating = "drain" /\ ~InFlight
    /\ \/ mode = "open" /\ rotating' = "archive" /\ UNCHANGED <<rotator, call>>
       \/ mode # "open" /\ rotating' = "no" /\ rotator' = None /\ Return(rotator)
    /\ UNCHANGED <<disk, mode, segment, leases, acks, retiring, harvest,
                   faults, granted, acked>>

RotationOnly == <<mode, segment, leases, acks, rotator, retiring, call, harvest, faults,
                  granted, acked>>

\* finishCommit: the manifest record commits; the first one has no head yet.
Publish(st) ==
    /\ store' = st
    /\ generations' = IF st # store /\ generations = "none" THEN "headless" ELSE generations

\* archiveWindow publishes what it has written so far; the first lease is always in it.
\* Keys are written in the order of their hashes.
ArchiveSpill ==
    /\ rotating = "archive" /\ leases # {}
    /\ \E ls \in SUBSET leases, ds \in SUBSET acks, w \in BOOLEAN :
          /\ First(leases) \in ls
          /\ store' = [store EXCEPT !.leases = @ \union ls,
                                    !.acks = @ \union ds,
                                    !.last = IF w THEN [s \in Session |-> LastOf(leases, s, @[s])]
                                                  ELSE @]
    /\ generations' = "ok"
    /\ UNCHANGED <<leaseFile, ackFile, denied, frozen, dir, carry, log, base, head, authority,
                   rotating, RotationOnly>>

\* reconcileGenerations
Archive ==
    /\ rotating = "archive"
    /\ Publish(ArchiveWindow(store))
    /\ rotating' = "genhead"
    /\ UNCHANGED <<leaseFile, ackFile, denied, frozen, dir, carry, log, base, head, authority,
                   RotationOnly>>

\* appendGeneration writes the store's head.
GenHead ==
    /\ rotating = "genhead"
    /\ generations' = "ok"
    /\ rotating' = "stage"
    /\ UNCHANGED <<leaseFile, ackFile, denied, frozen, dir, carry, log, base, head, authority,
                   store, RotationOnly>>

\* Deviation: only the window is carried.
CarriedWindow == {l \in leases : l[1] \notin acks}

\* carriedLeases: what this segment carries and its window, less what is acknowledged here.
CarriedLeases == {l \in carry[segment] \union leases : l[1] \notin acks}

AfterStaging == IF segment = 0 THEN "freezelease" ELSE "commit"

\* createFreshSegment adopts an identical fresh segment, or begins to create it.
Stage ==
    /\ rotating = "stage"
    /\ \/ /\ dir[segment + 1] = "fresh" /\ carry[segment + 1] = CarriedLeases
          /\ rotating' = AfterStaging /\ UNCHANGED dir
       \/ /\ dir[segment + 1] = "absent"
          /\ dir' = IF TornStaging THEN [dir EXCEPT ![segment + 1] = "partial"] ELSE dir
          /\ rotating' = "carry"
    /\ UNCHANGED <<leaseFile, ackFile, denied, frozen, carry, log, base, head, authority,
                   store, generations, RotationOnly>>

\* createFreshSegment writes the carry last.
StageCarry ==
    /\ rotating = "carry"
    /\ dir' = [dir EXCEPT ![segment + 1] = "fresh"]
    /\ carry' = [carry EXCEPT ![segment + 1] = CarriedLeases]
    /\ rotating' = AfterStaging
    /\ UNCHANGED <<leaseFile, ackFile, denied, frozen, log, base, head, authority, store,
                   generations, RotationOnly>>

\* The handle is poisoned, or the open that rotates returns the error.
Fault == /\ rotating' = "no" /\ rotator' = None
         /\ call' = [c \in Caller |-> IF c = rotator THEN Idle ELSE call[c]]

\* createFreshSegment refuses a directory that is anything else.
StageConflict ==
    /\ rotating = "stage"
    /\ dir[segment + 1] = "partial" \/ (dir[segment + 1] = "fresh" /\ carry[segment + 1] # CarriedLeases)
    /\ Fault
    /\ mode' = IF mode = "opening" THEN "refused" ELSE "fault"
    /\ UNCHANGED <<disk, segment, leases, acks, retiring, harvest, faults,
                   granted, acked>>

\* freezeLegacySeals, one atomic replacement after the other.
Freeze(seal, next) ==
    /\ frozen' = frozen \union {seal}
    /\ rotating' = next
    /\ UNCHANGED <<leaseFile, ackFile, denied, dir, carry, log, base, head, authority, store,
                   generations, RotationOnly>>

FreezeLease == rotating = "freezelease" /\ Freeze("lease", "freezeack")
FreezeAck == rotating = "freezeack" /\ Freeze("ack", "commit")

\* Deviation: the record repeats the outgoing segment's base.
CommitOldBase ==
    /\ rotating = "commit"
    /\ log' = segment + 1
    /\ base' = [base EXCEPT ![segment + 1] = base[segment]]
    /\ rotating' = "head"
    /\ UNCHANGED <<leaseFile, ackFile, denied, frozen, dir, carry, head, authority, store,
                   generations, RotationOnly>>

\* commitTransition: the synced log record switches the authority.
Commit ==
    /\ rotating = "commit"
    /\ log' = segment + 1
    /\ base' = [base EXCEPT ![segment + 1] = store.last]
    /\ rotating' = "head"
    /\ UNCHANGED <<leaseFile, ackFile, denied, frozen, dir, carry, head, authority, store,
                   generations, RotationOnly>>

WriteHead ==
    /\ rotating = "head"
    /\ head' = log
    /\ rotating' = "switch"
    /\ UNCHANGED <<leaseFile, ackFile, denied, frozen, dir, carry, log, base, authority, store,
                   generations, RotationOnly>>

\* switchToSegment, and the end of rotate: the caller tries again.
Switch ==
    /\ rotating = "switch"
    /\ segment' = segment + 1
    /\ leases' = leaseFile[segment + 1] /\ acks' = ackFile[segment + 1]
    /\ mode' = "open"
    /\ rotating' = "no" /\ rotator' = None
    /\ call' = [c \in Caller |-> IF c = rotator THEN [call[c] EXCEPT !.pc = "enter"] ELSE call[c]]
    /\ UNCHANGED <<disk, retiring, harvest, faults, granted, acked>>

\* An error of any step of doRotate: input, output, a cancelled context, a lost lock.
RotateFails ==
    /\ faults < MaxFaults
    /\ rotating \notin {"no", "drain"}
    /\ Fault
    /\ mode' = "fault"
    /\ faults' = faults + 1
    /\ AppendCut
    /\ UNCHANGED <<Files, segment, leases, acks, retiring, harvest, granted, acked>>

\* poison: a batch's append, sync or mirror fails; its line may have been written.
AppendFails(c) ==
    /\ faults < MaxFaults
    /\ call[c].pc \in {"in", "sync"}
    /\ faults' = faults + 1
    /\ mode' = "fault"
    /\ Return(c)
    /\ AppendCut
    /\ UNCHANGED <<Files, segment, leases, acks, rotating, rotator, retiring, harvest, granted, acked>>

-----------------------------------------------------------------------------
(* Crash and open.                                                         *)

\* The process ends, at any point or after a fault.
Crash ==
    /\ mode # "down"
    /\ \/ mode \in {"fault", "refused"} /\ UNCHANGED faults
       \/ faults < MaxFaults /\ faults' = faults + 1
    /\ mode' = "down" /\ segment' = 0 /\ leases' = {} /\ acks' = {}
    /\ rotating' = "no" /\ rotator' = None /\ retiring' = None
    /\ call' = [c \in Caller |-> Idle]
    /\ AppendCut
    /\ UNCHANGED <<Files, harvest, granted, acked>>

OpenKeeps == <<rotator, retiring, call, harvest, faults, granted, acked>>

\* openDeliveryJournal on an unmigrated tree; initActiveZero appends its record.
OpenFresh ==
    /\ mode = "down" /\ authority = "none"
    /\ authority' = "headless"
    /\ mode' = "opening"
    /\ UNCHANGED <<leaseFile, ackFile, denied, frozen, dir, carry, log, base, head, store,
                   generations, segment, leases, acks, rotating, OpenKeeps>>

\* initActiveZero writes the head.
OpenFreshHead ==
    /\ mode = "opening" /\ authority = "headless"
    /\ authority' = "ok"
    /\ mode' = "open"
    /\ UNCHANGED <<leaseFile, ackFile, denied, frozen, dir, carry, log, base, head, store,
                   generations, segment, leases, acks, rotating, OpenKeeps>>

\* loadFrom: each session's arrivals follow on from the base root.
Dense(k) == \A s \in Session :
              {l[2] : l \in Of(leaseFile[k], s)} =
                  (base[k][s] + 1)..(base[k][s] + Cardinality(Of(leaseFile[k], s)))

\* loadAcksFrom: every acknowledgement names a lease of the window or the store.
AcksResolve(k) == ackFile[k] \subseteq Nonces(leaseFile[k] \union store.leases)

\* recoverGenerations and finishFrozenLegacyRotation: the window was being archived.
Interrupted(k) == leaseFile[k] # {} /\ First(leaseFile[k]) \in store.leases

Readable ==
    /\ authority = "ok" /\ generations \in {"none", "ok"}
    /\ Dense(log) /\ AcksResolve(log)
    /\ log = 0 /\ frozen # {} => Interrupted(0)

OpenRefused ==
    /\ mode = "down" /\ authority # "none"
    /\ ~Readable
    /\ mode' = "refused"
    /\ UNCHANGED <<disk, segment, leases, acks, rotating, OpenKeeps>>

\* openDeliverySegments adopts the log's tail, ensureLegacyFrozen freezes, the files load.
Load ==
    /\ mode = "down" /\ Readable
    /\ head' = log
    /\ frozen' = IF log >= 1 THEN {"lease", "ack"} ELSE frozen
    /\ segment' = log
    /\ leases' = leaseFile[log] /\ acks' = ackFile[log]
    /\ UNCHANGED <<leaseFile, ackFile, denied, dir, carry, log, base, authority, rotator, retiring,
                   call, harvest, granted, acked>>

\* rotateAtOpen
OpenRotates ==
    /\ Load
    /\ Interrupted(log)
    /\ mode' = "opening" /\ rotating' = "archive"
    /\ UNCHANGED <<store, generations, faults>>

\* recoverGenerations: the acknowledgements of archived leases, to be mirrored again.
ToMirror == ackFile[log] \ Nonces(leaseFile[log])

Open ==
    /\ Load
    /\ ~Interrupted(log)
    /\ mode' = "open" /\ rotating' = "no"
    /\ UNCHANGED <<generations, faults>>
    /\ store' = IF ToMirror = {} THEN store ELSE CommitAck(store, ToMirror)

\* recoverGenerations fails, its manifest append cut short; the open returns the error.
OpenMirrorFails ==
    /\ faults < MaxFaults
    /\ Load
    /\ ~Interrupted(log) /\ ToMirror \ store.acks # {}
    /\ mode' = "fault" /\ rotating' = "no"
    /\ faults' = faults + 1
    /\ generations' \in {generations, "torn"}
    /\ UNCHANGED store

-----------------------------------------------------------------------------
(* A collection's harvest of the open leases, in any process.              *)

HarvestOnly == <<disk, handle, call, faults, granted, acked>>

\* dsegRequireSegmentFiles: a frozen seal is admitted only once segment 0 is archived.
SealsAdmitted(k) == frozen = {} \/ k >= 1

\* resolveDeliverySegments: the log's last record is active; a later directory is staged.
Resolve ==
    /\ gpc = "idle" /\ passes < MaxPasses
    /\ authority \in {"none", "ok"} /\ SealsAdmitted(log)
    /\ gpc' = "acks" /\ passes' = passes + 1
    /\ view' = [log |-> log, head |-> head, authority |-> authority,
                staged |-> {k \in Seg : k > log /\ dir[k] # "absent"}]
    /\ owed' = Nonces(granted) \ acked
    /\ UNCHANGED <<gacks, kept, HarvestOnly>>

Harvested == {view.log} \union view.staged

\* acknowledgedDeliveriesFrom the active and the staged segments.
HarvestAcks ==
    /\ gpc = "acks"
    /\ gacks' = UNION {ackFile[k] : k \in Harvested}
    /\ gpc' = "leases"
    /\ UNCHANGED <<view, kept, passes, owed, HarvestOnly>>

\* harvestFile of each journal and each carry, less what openLeaseLines releases.
HarvestLeases ==
    /\ gpc = "leases"
    /\ kept' = Nonces(UNION {leaseFile[k] \union carry[k] : k \in Harvested}) \ gacks
    /\ gpc' = "recheck"
    /\ UNCHANGED <<view, gacks, passes, owed, HarvestOnly>>

\* dsegRecheckFrontier: the authority is as it was, or the pass halts.
FrontierStable ==
    log = view.log /\ head = view.head /\ authority = view.authority /\ SealsAdmitted(view.log)

\* The pass goes on to mark and sweep what is not kept (StoreGC), or halts.
PassEnds ==
    /\ gpc = "recheck"
    /\ gpc' = "idle" /\ view' = NoView /\ gacks' = {} /\ kept' = {} /\ owed' = {}
    /\ UNCHANGED <<passes, HarvestOnly>>

-----------------------------------------------------------------------------
CallStep(c) ==
    \/ Enter(c)
    \/ LeaseKnown(c) \/ LeaseFull(c) \/ LeaseAppend(c) \/ LeaseAdmit(c)
    \/ AckKnown(c) \/ AckFull(c) \/ AckAppend(c) \/ AckAdmit(c)
    \/ Rotate(c) \/ WaitDone(c)

RotationStep ==
    \/ Drained \/ Archive \/ GenHead \/ Stage \/ StageCarry \/ StageConflict
    \/ FreezeLease \/ FreezeAck \/ Commit \/ WriteHead \/ Switch

OpenStep == \/ OpenFresh \/ OpenFreshHead \/ OpenRefused \/ OpenRotates \/ Open
            \/ OpenMirrorFails

HarvestStep == Resolve \/ HarvestAcks \/ HarvestLeases \/ PassEnds

Next ==
    \/ \E c \in Caller : CallStep(c) \/ AppendFails(c)
    \/ \E c \in Caller, o \in {"lease", "ack"}, d \in Delivery : CallBegins(c, o, d)
    \/ \E d \in Deniable : RetireWrite(d) \/ AskTerminal(d)
    \/ RetireMirror \/ RetireFails \/ RetireBehindFault
    \/ RotationStep \/ ArchiveSpill \/ RotateFails
    \/ Crash \/ OpenStep
    \/ HarvestStep

Spec == Init /\ [][Next]_vars

\* The goroutines of calls and of the rotation keep running, and a queued call gets its turn:
\* the queue is served first come, first served (GroupCommit).
Fairness ==
    /\ \A c \in Caller : WF_vars(CallStep(c)) /\ SF_vars(Enter(c))
    /\ WF_vars(RotationStep) /\ WF_vars(RetireMirror \/ RetireBehindFault)

FairSpec == Spec /\ Fairness

-----------------------------------------------------------------------------
(* Properties.                                                             *)

Everything == store.leases \union UNION {leaseFile[k] : k \in Seg}

Ledger == INSTANCE LeaseLedger WITH
              assigned <- Everything,
              settled <- store.acks \union UNION {ackFile[k] : k \in Seg}

\* The journal implements the ledger: over every segment, rotation, crash and reopen, a
\* nonce has one lease, a session's arrivals are dense, and no lease and no acknowledgement
\* is ever undone (leaseBatch.decide, ackBatch.decide, reconcileGenerations, recover).
ImplementsLedger == Ledger!LedgerSpec

\* An answer is final and stays findable: every lease answered is in the active segment's
\* journal or in the generation store, and so is every acknowledgement, although a rotation
\* empties the window (doRotate archives before it commits).
AnsweredFindable ==
    /\ granted \subseteq store.leases \union leaseFile[log]
    /\ acked \subseteq store.acks \union ackFile[log]

\* At rest the store's frontier of a session is exactly its oldest archived delivery that is
\* neither acknowledged nor mirrored as denied: the ordering gate neither waits for a settled
\* delivery for ever nor passes over an unsettled one (advanceFrontier, recoverGenerations).
FrontierExact ==
    LET Settled(d) == d \in store.acks \union ackFile[log] \union store.terms
        Oldest(s) == {l[2] : l \in {k \in Of(store.leases, s) : ~Settled(k[1])}}
    IN  mode = "open" /\ rotating = "no" /\ ~InFlight =>
          \A s \in Session : store.frontier[s] = Min(Oldest(s) \union {store.last[s] + 1})

\* What a rotation archives is neither lost nor misjudged: an answer stays findable, and at
\* rest the frontier stands at the oldest unsettled delivery (doRotate, advanceFrontier).
StoreKeeps == AnsweredFindable /\ FrontierExact

\* Segment 0 is frozen only with its window archived, and both its seals are frozen before
\* the authority names another segment, so that a build without segments never numbers an
\* arrival twice (doRotate, step 3).
FrozenInTime ==
    /\ frozen # {} => leaseFile[0] \subseteq store.leases
    /\ log >= 1 => frozen = {"lease", "ack"}

\* A harvest that its recheck admits names every delivery that was open when it began and
\* has no acknowledgement on disk since, in whichever segment it was leased (carriedLeases,
\* deliveryLeaseSources, dsegRecheckFrontier).
HarvestNamesOpen ==
    gpc = "recheck" /\ FrontierStable => owed \ UNION {ackFile[k] : k \in Seg} \subseteq kept

\* An open is refused only over what an interrupted append or staging left: a record of the
\* authority or of the generation manifest that is torn, or the first one without its head;
\* an incomplete staged directory; or a directory staged for other leases (recover,
\* scanSegTail, scanGenTail, createFreshSegment).
RefusedInWindows ==
    mode = "refused" =>
        \/ authority \in {"headless", "torn"} \/ generations \in {"headless", "torn"}
        \/ dir[log + 1] = "partial"
        \/ dir[log + 1] = "fresh" /\ carry[log + 1] # CarriedLeases

\* "The durable state it leaves is always consistent for the next open": a rotation that
\* stopped after it staged a complete directory never makes an open fail.
StagedNeverBlocks ==
    mode = "refused" =>
        authority \in {"headless", "torn"} \/ generations \in {"headless", "torn"}

\* Every call of lease and of acknowledge returns: the barrier's waits end.
EveryCallReturns == \A c \in Caller : ~At(c, "idle") ~> At(c, "idle")

\* A rotation stopped anywhere is finished or repeated by an open: segment 0 is frozen in time, and
\* only a torn or headless record and a directory left half staged or staged for other leases have
\* an open refused.
RotationRecovers == FrozenInTime /\ RefusedInWindows
=============================================================================
