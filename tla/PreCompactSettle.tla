-------------------------- MODULE PreCompactSettle --------------------------
(***************************************************************************)
(* What a PreCompact does before it seals (daemon/precompact_settle.go,    *)
(* daemon/delivery_unheld.go): it waits for the session's captures that    *)
(* came before it, replays the hook client spools that hold some, and      *)
(* counts in the checkpoint's drop report whatever is still unpublished.   *)
(*                                                                         *)
(* The settle looks for captures in several places, one after the other:   *)
(* the client spools, file by file, the session's lane together with the   *)
(* record of the jobs no lane holds, and the delivery journal.  Meanwhile  *)
(* a capture may move from one place to the next: the lane publishes, gives*)
(* jobs up and takes them back, and drains lease, publish and consume      *)
(* spooled lines.  The settle's own wait and replay are those same steps,  *)
(* cut off anywhere by the bound, so the model lets it go on at any time.  *)
(*                                                                         *)
(* One session; each capture has a client spool file of its own.  The      *)
(* drainer is stored before the first request is served, so the settle     *)
(* always has one.                                                         *)
(***************************************************************************)
EXTENDS Naturals, FiniteSets

CONSTANTS
    Capture,
    MaxGiveUps    \* bound: how often the lanes give jobs up

VARIABLES
    line,       \* the capture's line in its client spool: none, spooled, consumed
    lease,      \* its ArrivalSeq, 0 while it has no lease
    job,        \* none, ring (no lane has it and the record is full), unheld (recorded, no
                \* lane has it), queued (in the lane)
    acked,      \* on the committed frontier: it is in the store
    readable,   \* the journal can be read: not rotating
    archived,   \* the captures whose lease a rotation moved out of the active window
    giveUps,
    settling    \* the PreCompact's settle: its step, upTo, the files to look at, its
                \* report, the leases it found with no lane and no record, and what it
                \* owes an account of

vars == <<line, lease, job, acked, readable, archived, giveUps, settling>>

Arrivals == {lease[c] : c \in Capture}
NextArrival == 1 + (CHOOSE n \in Arrivals \cup {0} : \A m \in Arrivals : m <= n)

\* A capture is not there yet, waits in a spool, or was left by the daemon before.
Init ==
    /\ \E old \in SUBSET Capture :
        /\ line \in [Capture -> {"none", "spooled"}]
        /\ lease \in [Capture -> 0 .. Cardinality(old)]
        /\ \A c \in Capture : lease[c] > 0 <=> c \in old
        /\ \A c, d \in old : c # d => lease[c] # lease[d]
    /\ job = [c \in Capture |-> "none"]
    /\ acked = [c \in Capture |-> FALSE]
    /\ readable = TRUE
    /\ \E old \in SUBSET Capture : archived = {c \in old : lease[c] > 0}
    /\ giveUps = 0
    /\ settling = [at |-> "idle", upTo |-> 0, look |-> {},
                   report |-> {}, bare |-> {}, spooled |-> {}, leased |-> {}, blind |-> FALSE]

-----------------------------------------------------------------------------
(* The captures' way to the store. *)

\* predecessorsAcknowledged: the ordering gate of a session's leased arrivals.
Ready(c) == \A d \in Capture : lease[d] > 0 /\ lease[d] < lease[c] => acked[d]

\* Accept leases the capture and records the job, unless the record is full, before it offers it to
\* the ring.
Accept(c) ==
    /\ lease[c] = 0 /\ line[c] = "none"
    /\ readable
    /\ lease' = [lease EXCEPT ![c] = NextArrival]
    /\ \E noted \in {"unheld", "ring"} : job' = [job EXCEPT ![c] = noted]
    /\ UNCHANGED <<line, acked, readable, archived, giveUps, settling>>

\* The hook's ACK deadline lapsed, or the hot path is in spool submode.
HookSpools(c) ==
    /\ line[c] = "none"
    /\ line' = [line EXCEPT ![c] = "spooled"]
    /\ UNCHANGED <<lease, job, acked, readable, archived, giveUps, settling>>

\* dispatchLanes.join, and its evictions and forgets.
Join(c) ==
    /\ job[c] \in {"unheld", "ring"} /\ ~acked[c]
    /\ job' = [job EXCEPT ![c] = "queued"]
    /\ UNCHANGED <<line, lease, acked, readable, archived, giveUps, settling>>

LaneGivesUp(c) ==
    /\ job[c] = "queued"
    /\ giveUps < MaxGiveUps
    /\ giveUps' = giveUps + 1
    /\ \E noted \in {"unheld", "none"} : job' = [job EXCEPT ![c] = noted]
    /\ UNCHANGED <<line, lease, acked, readable, archived, settling>>

\* The lane's worker publishes and acknowledges, and then removes the job.
LanePublishes(c) ==
    /\ job[c] = "queued" /\ ~acked[c] /\ readable
    /\ Ready(c)
    /\ acked' = [acked EXCEPT ![c] = TRUE]
    /\ UNCHANGED <<line, lease, job, readable, archived, giveUps, settling>>

LaneSettles(c) ==
    /\ job[c] # "none" /\ acked[c]
    /\ job' = [job EXCEPT ![c] = "none"]
    /\ UNCHANGED <<line, lease, acked, readable, archived, giveUps, settling>>

\* A drain, a WAL's or the settle's own replay: admission leases a spooled line.
DrainLeases(c) ==
    /\ line[c] = "spooled" /\ lease[c] = 0 /\ readable
    /\ lease' = [lease EXCEPT ![c] = NextArrival]
    /\ UNCHANGED <<line, job, acked, readable, archived, giveUps, settling>>

\* A lane's own job is left to the lane; anything else the WAL or a spool holds is published.
DrainPublishes(c) ==
    /\ lease[c] > 0 /\ ~acked[c] /\ job[c] # "queued" /\ readable
    /\ Ready(c)
    /\ acked' = [acked EXCEPT ![c] = TRUE]
    /\ UNCHANGED <<line, lease, job, readable, archived, giveUps, settling>>

DrainConsumes(c) ==
    /\ line[c] = "spooled" /\ acked[c]
    /\ line' = [line EXCEPT ![c] = "consumed"]
    /\ UNCHANGED <<lease, job, acked, readable, archived, giveUps, settling>>

\* A rotation closes the journal to readers for a while, and archives every lease there is unless it
\* fails.
Rotates ==
    /\ readable
    /\ readable' = FALSE
    /\ UNCHANGED <<line, lease, job, acked, archived, giveUps, settling>>

RotationEnds ==
    /\ ~readable
    /\ readable' = TRUE
    /\ archived' \in {archived, {c \in Capture : lease[c] > 0}}
    /\ UNCHANGED <<line, lease, job, acked, giveUps, settling>>

-----------------------------------------------------------------------------
(* settleBeforeSeal *)

\* leasedUpTo: one past the newest leased arrival, 0 when the journal cannot say.
leasedUpTo == IF readable THEN NextArrival ELSE 0

Unpublished(upTo) == {c \in Capture : lease[c] > 0 /\ lease[c] < upTo /\ ~acked[c]}

\* What a look at the client spools can find: notYetAcknowledged drops the published.
SpooledLines == {c \in Capture : line[c] = "spooled" /\ ~acked[c]}

\* leasedUpTo and the first look: the files a read within the bound told about, and
\* the ones it left unread.  Nothing to settle returns at once.
SettleBegins ==
    /\ settling.at = "idle"
    /\ \E missed \in SUBSET {c \in Capture : line[c] = "spooled"} :
        LET upTo == leasedUpTo
            own == SpooledLines \ missed
        IN settling' = [at |-> IF own = {} /\ missed = {} /\ Unpublished(upTo) = {}
                               THEN "sealed" ELSE "settling",
                        upTo |-> upTo,
                        look |-> own \cup missed \cup {c \in Capture : line[c] # "spooled"},
                        report |-> {}, bare |-> {},
                        spooled |-> SpooledLines,
                        leased |-> {c \in Capture : lease[c] > 0 /\ ~acked[c]},
                        blind |-> ~readable]
    /\ UNCHANGED <<line, lease, job, acked, readable, archived, giveUps>>

\* The last look takes one file at a time: the session's own, the ones not listed at
\* first and the ones left unread.  The report counts a
\* line it finds, and a file it could not read within the bound.
LastLook(c) ==
    /\ settling.at = "settling"
    /\ c \in settling.look
    /\ \E unread \in {FALSE, line[c] = "spooled"} :
        settling' = [settling EXCEPT !.look = @ \ {c},
                                   !.report = IF c \in SpooledLines \/ unread THEN @ \cup {c} ELSE @]
    /\ UNCHANGED <<line, lease, job, acked, readable, archived, giveUps>>

\* unreplayedCaptures, first half: the lane and the record, as of one moment.
LookAtLanes ==
    /\ settling.at = "settling" /\ settling.look = {}
    /\ LET held == {c \in Unpublished(settling.upTo) : job[c] \in {"unheld", "queued"}}
       IN settling' = [settling EXCEPT !.at = "lanes", !.report = @ \cup held,
                                       !.bare = Unpublished(settling.upTo) \ held]
    /\ UNCHANGED <<line, lease, job, acked, readable, archived, giveUps>>

\* Deviation: the journal is not asked; the lane and the record are taken for the whole.
JournalUnasked ==
    /\ settling.at = "lanes"
    /\ settling' = [settling EXCEPT !.at = "sealed"]
    /\ UNCHANGED <<line, lease, job, acked, readable, archived, giveUps>>

\* unsettledLeases: whatever else the active window holds; the report is what the seal carries.
LookAtJournal ==
    /\ settling.at = "lanes"
    /\ settling' = [settling EXCEPT !.at = "sealed",
                                    !.report = IF readable THEN @ \cup (Unpublished(settling.upTo) \ archived)
                                               ELSE @,
                                    !.blind = @ \/ ~readable]
    /\ UNCHANGED <<line, lease, job, acked, readable, archived, giveUps>>

Next ==
    \/ \E c \in Capture :
        \/ Accept(c) \/ HookSpools(c) \/ Join(c) \/ LaneGivesUp(c) \/ LanePublishes(c) \/ LaneSettles(c)
        \/ DrainLeases(c) \/ DrainPublishes(c) \/ DrainConsumes(c) \/ LastLook(c)
    \/ Rotates \/ RotationEnds \/ SettleBegins \/ LookAtLanes \/ LookAtJournal

Spec == Init /\ [][Next]_vars

-----------------------------------------------------------------------------
TypeOK ==
    /\ line \in [Capture -> {"none", "spooled", "consumed"}]
    /\ lease \in [Capture -> 0 .. Cardinality(Capture)]
    /\ job \in [Capture -> {"none", "ring", "unheld", "queued"}]
    /\ acked \in [Capture -> BOOLEAN]
    /\ readable \in BOOLEAN /\ archived \subseteq {c \in Capture : lease[c] > 0}
    /\ settling.at \in {"idle", "settling", "lanes", "sealed"}

(* A capture of the session that was spooled or leased when the PreCompact came *)
(* is in the store when the checkpoint is sealed, is counted in its drop        *)
(* report, or lies in a spool file the report counts as unread, whichever way   *)
(* it moved while the settle looked.  Two kinds of lease are excused: one the   *)
(* journal could not name, because a rotation had closed it, and one a rotation *)
(* archived unsettled that the settle found in no lane and not in the record    *)
(* (settleBeforeSeal, unreplayedCaptures, unsettledLeases).                     *)
NeverSilentlyMissing ==
    settling.at = "sealed" =>
        \A c \in settling.spooled \cup (IF settling.blind THEN {} ELSE settling.leased) :
            \/ acked[c]
            \/ c \in settling.report
            \/ c \in archived \intersect settling.bare
=============================================================================
