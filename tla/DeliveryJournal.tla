-------------------------- MODULE DeliveryJournal --------------------------
(***************************************************************************)
(* The delivery journal of internal/daemon/delivery_lease.go, over one     *)
(* segment: the lease journal, which binds a delivery nonce to a session   *)
(* arrival (an assignment), and the acknowledgement journal, which records *)
(* that the delivery was published (the committed frontier).  Each is an   *)
(* append-only file of canonical lines beside a position seal.             *)
(*                                                                         *)
(* A batch of either pipeline is decided one request at a time against the *)
(* admitted maps, then appended with one Write, one Sync and one seal, then*)
(* admitted and answered.  The two pipelines have a queue and a leader     *)
(* each (module GroupCommit) and interleave freely.  Any failed step       *)
(* poisons the whole handle.  A crash keeps what was synced and any part   *)
(* of what was only written, possibly ending inside a line.                *)
(*                                                                         *)
(* An acknowledgement line holds the delivery and the observation id,      *)
(* which is a function of session and arrival, so it is represented by the *)
(* lease it acknowledges.  The chain hash of a seal identifies the sealed  *)
(* lines, so a seal is represented by them.                                *)
(***************************************************************************)
EXTENDS Naturals, Sequences, FiniteSets, Functions

CONSTANTS Delivery,     \* delivery nonces
          Session,      \* sessions
          MaxEntries,   \* deliveryLeaseMaxEntries
          MaxBatch      \* groupCommitMaxRequests

Kind == {"lease", "ack"}
Lease == [delivery : Delivery, session : Session, arrival : Nat \ {0}]
Pending == [session : Session, lease : Lease]

VARIABLES file,      \* each journal's complete lines, in the order they were appended
          synced,    \* how many of them are known to be durable
          seal,      \* the lines the position sidecar seals
          torn,      \* the journals whose file ends inside a line
          slot,      \* the journals whose seal file has a torn slot
          up,        \* the handle: down, at a stage of its open, open, poisoned or refused
          scan,      \* how many lines loadFrom has read
          leases, arrivals, acks,   \* the admitted maps
          pc,        \* where each pipeline's batch is
          order,     \* batch.order: the lines this batch mints
          known,     \* the batch's requests that no append can change
          minted,    \* the batch's requests whose answer depends on the append
          next,      \* leaseBatch.next, defaulting to arrivals
          granted,   \* history: the leases ever answered to a caller
          acked      \* history: the acknowledgements ever answered to a caller

disk == <<file, synced, seal, torn, slot>>
mem == <<leases, arrivals, acks>>
batch == <<pc, order, known, minted, next>>
vars == <<file, synced, seal, torn, slot, up, scan, leases, arrivals, acks,
          pc, order, known, minted, next, granted, acked>>

Stage == {"down", "loadLeases", "sealLeases", "loadAcks", "sealAcks",
          "open", "poisoned", "refused"}

\* The shape of every variable: the two files, their seals, the maps and the batches.
TypeOK ==
    /\ file \in [Kind -> Seq(Lease)]
    /\ synced \in [Kind -> Nat]
    /\ seal \in [Kind -> Seq(Lease)]
    /\ torn \subseteq Kind /\ slot \subseteq Kind
    /\ up \in Stage
    /\ scan \in Nat
    /\ leases \subseteq Lease
    /\ arrivals \in [Session -> Nat]
    /\ acks \subseteq Lease
    /\ pc \in [Kind -> {"idle", "decide", "written", "synced", "sealed"}]
    /\ order \in [Kind -> Seq(Lease)]
    /\ known \in [Kind -> SUBSET Pending]
    /\ minted \in [Kind -> SUBSET Pending]
    /\ next \in [Session -> Nat]
    /\ granted \subseteq Lease
    /\ acked \subseteq Lease

\* Two empty files and their empty positions; nothing is open yet.
Init ==
    /\ file = [k \in Kind |-> <<>>]
    /\ synced = [k \in Kind |-> 0]
    /\ seal = [k \in Kind |-> <<>>]
    /\ torn = {} /\ slot = {}
    /\ up = "down"
    /\ scan = 0
    /\ leases = {} /\ arrivals = [x \in Session |-> 0] /\ acks = {}
    /\ pc = [k \in Kind |-> "idle"]
    /\ order = [k \in Kind |-> <<>>]
    /\ known = [k \in Kind |-> {}]
    /\ minted = [k \in Kind |-> {}]
    /\ next = [x \in Session |-> 0]
    /\ granted = {} /\ acked = {}

-----------------------------------------------------------------------------
(* Opening: openDeliveryJournal, load, openSeal, openAckLocked, loadAcks.   *)

IsPrefixOf(s, t) == Len(s) <= Len(t) /\ \A i \in 1..Len(s) : s[i] = t[i]

NoDuplicate(s) == \A i, j \in 1..Len(s) : s[i].delivery = s[j].delivery => i = j

\* The lease seal is read (selectSeal takes no torn slot), and the size check that starts the
\* scan of loadFrom passes.
SealReads == "lease" \notin slot /\ Len(file["lease"]) >= Len(seal["lease"])

OpenStart ==
    /\ up = "down"
    /\ SealReads
    /\ up' = "loadLeases"
    /\ UNCHANGED <<disk, scan, mem, batch, granted, acked>>

\* One line of the scan is admissible: a new delivery, at its session's next
\* arrival, and at the sealed position the lines are the sealed ones.
LineLoads(l) ==
    /\ \A m \in leases : m.delivery # l.delivery
    /\ l.arrival = arrivals[l.session] + 1
    /\ scan + 1 = Len(seal["lease"]) => IsPrefixOf(seal["lease"], file["lease"])

LoadLease ==
    /\ up = "loadLeases"
    /\ scan < Len(file["lease"])
    /\ LET l == file["lease"][scan + 1] IN
          /\ LineLoads(l)
          /\ leases' = leases \cup {l}
          /\ arrivals' = [arrivals EXCEPT ![l.session] = l.arrival]
    /\ scan' = scan + 1
    /\ UNCHANGED <<disk, up, acks, batch, granted, acked>>

\* The end of the scan, then the writer's Sync: every complete line has been
\* admitted, a tail past the seal included, and is durable from here on.
LoadedLeases ==
    /\ up = "loadLeases"
    /\ scan = Len(file["lease"])
    /\ "lease" \notin torn
    /\ synced' = [synced EXCEPT !["lease"] = Len(file["lease"])]
    /\ up' = "sealLeases"
    /\ scan' = 0
    /\ UNCHANGED <<file, seal, torn, slot, mem, batch, granted, acked>>

\* openSeal: seal the position the load recovered.
OpenSealLeases ==
    /\ up = "sealLeases"
    /\ seal' = [seal EXCEPT !["lease"] = file["lease"]]
    /\ up' = "loadAcks"
    /\ UNCHANGED <<file, synced, torn, slot, scan, mem, batch, granted, acked>>

\* What loadAcksFrom admits: a readable seal, whole lines, the sealed prefix, no delivery
\* twice, and only acknowledgements of admitted leases.
AcksLoad ==
    /\ "ack" \notin torn \cup slot
    /\ IsPrefixOf(seal["ack"], file["ack"])
    /\ NoDuplicate(file["ack"])
    /\ Range(file["ack"]) \subseteq leases

OpenAcks ==
    /\ up = "loadAcks"
    /\ AcksLoad
    /\ acks' = Range(file["ack"])
    /\ synced' = [synced EXCEPT !["ack"] = Len(file["ack"])]
    /\ up' = "sealAcks"
    /\ UNCHANGED <<file, seal, torn, slot, scan, leases, arrivals, batch, granted, acked>>

\* openAckSeal, after which the writers are ready and journalOpenFault is cleared.
OpenSealAcks ==
    /\ up = "sealAcks"
    /\ seal' = [seal EXCEPT !["ack"] = file["ack"]]
    /\ up' = "open"
    /\ UNCHANGED <<file, synced, torn, slot, scan, mem, batch, granted, acked>>

\* A load that does not check out leaves every byte in place and the journal
\* unavailable for the life of the process.
OpenRefuses ==
    /\ \/ up = "down" /\ ~SealReads
       \/ /\ up = "loadLeases"
          /\ IF scan < Len(file["lease"]) THEN ~LineLoads(file["lease"][scan + 1])
                                          ELSE "lease" \in torn
       \/ up = "loadAcks" /\ ~AcksLoad
    /\ up' = "refused"
    /\ UNCHANGED <<disk, scan, mem, batch, granted, acked>>

\* The slot write of a seal fails: the old position, the new one, or a torn slot (a position that
\* is sealed already is not written).
SealWriteFails(k) ==
    \/ UNCHANGED <<seal, slot>>
    \/ seal' = [seal EXCEPT ![k] = file[k]] /\ UNCHANGED slot
    \/ seal[k] # file[k] /\ slot' = slot \cup {k} /\ UNCHANGED seal

\* openSealHandle fails: the handle is poisoned and closed.
OpenSealFails(k) ==
    /\ up = IF k = "lease" THEN "sealLeases" ELSE "sealAcks"
    /\ SealWriteFails(k)
    /\ up' = "poisoned"
    /\ UNCHANGED <<file, synced, torn, scan, mem, batch, granted, acked>>

-----------------------------------------------------------------------------
(* A batch: commitLeases and commitAcks.                                    *)

\* enter: a batch's leader passes the gate of an open, unfaulted journal.
Begin(k) ==
    /\ pc[k] = "idle"
    /\ up = "open"
    /\ pc' = [pc EXCEPT ![k] = "decide"]
    /\ next' = IF k = "lease" THEN arrivals ELSE next
    /\ UNCHANGED <<disk, up, scan, mem, order, known, minted, granted, acked>>

Room(k) == Cardinality(known[k]) + Cardinality(minted[k]) < MaxBatch

\* The request p of pipeline k is answered with what is already sealed, joins
\* a line this batch mints, or mints one.
AsKnown(k, p) ==
    known' = [known EXCEPT ![k] = @ \cup {p}] /\ UNCHANGED <<minted, order>>
Joins(k, p) ==
    minted' = [minted EXCEPT ![k] = @ \cup {p}] /\ UNCHANGED <<known, order>>
Mints(k, p) ==
    /\ Len(file[k]) + Len(order[k]) < MaxEntries
    /\ minted' = [minted EXCEPT ![k] = @ \cup {p}]
    /\ order' = [order EXCEPT ![k] = Append(@, p.lease)]
    /\ UNCHANGED known

\* leaseBatch.decide for a request of delivery d from session x: a known
\* delivery keeps its lease, a copy of one this batch minted joins it, and a
\* new one takes the session's next arrival.  At the entry cap the request is
\* refused and leaves no trace.
DecideLease(d, x) ==
    /\ pc["lease"] = "decide" /\ Room("lease")
    /\ \/ \E l \in leases : /\ l.delivery = d
                            /\ AsKnown("lease", [session |-> x, lease |-> l])
                            /\ UNCHANGED next
       \/ \E l \in Range(order["lease"]) : /\ l.delivery = d
                                           /\ Joins("lease", [session |-> x, lease |-> l])
                                           /\ UNCHANGED next
       \/ /\ \A l \in leases \cup Range(order["lease"]) : l.delivery # d
          /\ LET l == [delivery |-> d, session |-> x, arrival |-> next[x] + 1] IN
                Mints("lease", [session |-> x, lease |-> l])
          /\ next' = [next EXCEPT ![x] = @ + 1]
    /\ UNCHANGED <<disk, up, scan, mem, pc, granted, acked>>

\* commitAcks' evaluation of one request, from a caller that holds lease l:
\* the lease must be an admitted one; an acknowledgement already recorded or
\* minted in this batch is not written twice.
DecideAck(l) ==
    /\ pc["ack"] = "decide" /\ Room("ack")
    /\ l \in granted /\ l \in leases
    /\ LET p == [session |-> l.session, lease |-> l] IN
          \/ l \in acks /\ AsKnown("ack", p)
          \/ l \in Range(order["ack"]) /\ Joins("ack", p)
          \/ l \notin acks \cup Range(order["ack"]) /\ Mints("ack", p)
    /\ UNCHANGED <<disk, up, scan, mem, pc, next, granted, acked>>

\* The answers (leaseReq.answer, ackReq.answer): a lease bound to another
\* session is refused, everything else in S is given to its caller.
Given(S) == {p.lease : p \in {p \in S : p.lease.session = p.session}}

Answer(k, S) ==
    /\ granted' = IF k = "lease" THEN granted \cup Given(S) ELSE granted
    /\ acked' = IF k = "ack" THEN acked \cup Given(S) ELSE acked

EndBatch(k) ==
    /\ pc' = [pc EXCEPT ![k] = "idle"]
    /\ order' = [order EXCEPT ![k] = <<>>]
    /\ known' = [known EXCEPT ![k] = {}]
    /\ minted' = [minted EXCEPT ![k] = {}]

\* A batch that minted nothing is answered without an append.
AnswerKnown(k) ==
    /\ pc[k] = "decide"
    /\ order[k] = <<>>
    /\ Answer(k, known[k])
    /\ EndBatch(k)
    /\ UNCHANGED <<disk, up, scan, mem, next>>

\* One Write of every minted line.
Write(k) ==
    /\ pc[k] = "decide"
    /\ order[k] # <<>>
    /\ file' = [file EXCEPT ![k] = @ \o order[k]]
    /\ pc' = [pc EXCEPT ![k] = "written"]
    /\ UNCHANGED <<synced, seal, torn, slot, up, scan, mem, order, known, minted, next, granted, acked>>

\* One Sync.
Sync(k) ==
    /\ pc[k] = "written"
    /\ synced' = [synced EXCEPT ![k] = Len(file[k])]
    /\ pc' = [pc EXCEPT ![k] = "synced"]
    /\ UNCHANGED <<file, seal, torn, slot, up, scan, mem, order, known, minted, next, granted, acked>>

\* One seal of the position the batch reaches.
Seal(k) ==
    /\ pc[k] = "synced"
    /\ seal' = [seal EXCEPT ![k] = file[k]]
    /\ pc' = [pc EXCEPT ![k] = "sealed"]
    /\ UNCHANGED <<file, synced, torn, slot, up, scan, mem, order, known, minted, next, granted, acked>>

\* Deviation: the arrival counters are not advanced with the leases.
AdmitLeasesOnly ==
    /\ pc["lease"] = "sealed"
    /\ leases' = leases \cup Range(order["lease"])
    /\ Answer("lease", known["lease"] \cup minted["lease"])
    /\ EndBatch("lease")
    /\ UNCHANGED <<disk, up, scan, arrivals, acks, next>>

\* appendLeases' and appendAcks' admission, and the batch's answers.
AdmitLeases ==
    /\ pc["lease"] = "sealed"
    /\ leases' = leases \cup Range(order["lease"])
    /\ arrivals' = next
    /\ Answer("lease", known["lease"] \cup minted["lease"])
    /\ EndBatch("lease")
    /\ UNCHANGED <<disk, up, scan, acks, next>>

AdmitAcks ==
    /\ pc["ack"] = "sealed"
    /\ acks' = acks \cup Range(order["ack"])
    /\ Answer("ack", known["ack"] \cup minted["ack"])
    /\ EndBatch("ack")
    /\ UNCHANGED <<disk, up, scan, leases, arrivals, next>>

\* poison: the handle refuses every later batch of both pipelines, while a
\* batch of the other one that is already past the gate goes on.  The members
\* that minted are failed; the others keep the answer already decided (none
\* of them does when the batch panicked).
Poison(k) ==
    /\ up' = "poisoned"
    /\ \E S \in {{}, known[k]} : Answer(k, S)
    /\ EndBatch(k)

\* A Write that fails may have appended any part of the batch.
WriteFails(k) ==
    /\ pc[k] = "decide"
    /\ order[k] # <<>>
    /\ \E n \in 0..Len(order[k]) :
          /\ file' = [file EXCEPT ![k] = @ \o SubSeq(order[k], 1, n)]
          /\ \/ torn' = torn
             \/ n < Len(order[k]) /\ torn' = torn \cup {k}
    /\ Poison(k)
    /\ UNCHANGED <<synced, seal, slot, scan, mem, next>>

\* A Sync that fails leaves the lines written and not known to be durable.
SyncFails(k) ==
    /\ pc[k] = "written"
    /\ Poison(k)
    /\ UNCHANGED <<disk, scan, mem, next>>

SealFails(k) ==
    /\ pc[k] = "synced"
    /\ SealWriteFails(k)
    /\ Poison(k)
    /\ UNCHANGED <<file, synced, torn, scan, mem, next>>

-----------------------------------------------------------------------------
(* A crash of the process or of the machine, or a release of the lock: the  *)
(* handle is gone.  Each file keeps its synced lines and a prefix of the    *)
(* rest, which may end inside a line, and the slot a seal was being written *)
(* to may be torn.                                                          *)

Sealing == {k \in Kind : /\ seal[k] # file[k]
                         /\ \/ pc[k] = "synced"
                            \/ up = (IF k = "lease" THEN "sealLeases" ELSE "sealAcks")}

Survives(k, n, t) ==
    /\ n \in synced[k]..Len(file[k])
    /\ k \in t => k \in torn \/ n < Len(file[k])

Crash ==
    /\ up # "down"
    /\ \E n \in [Kind -> 0..MaxEntries], t \in SUBSET Kind :
          /\ \A k \in Kind : Survives(k, n[k], t)
          /\ file' = [k \in Kind |-> SubSeq(file[k], 1, n[k])]
          /\ torn' = t
    /\ \E S \in SUBSET Sealing : slot' = slot \cup S
    /\ up' = "down"
    /\ scan' = 0
    /\ leases' = {} /\ arrivals' = [x \in Session |-> 0] /\ acks' = {}
    /\ pc' = [k \in Kind |-> "idle"]
    /\ order' = [k \in Kind |-> <<>>]
    /\ known' = [k \in Kind |-> {}]
    /\ minted' = [k \in Kind |-> {}]
    /\ next' = [x \in Session |-> 0]
    /\ UNCHANGED <<synced, seal, granted, acked>>

Open == \/ OpenStart \/ LoadLease \/ LoadedLeases \/ OpenSealLeases
        \/ OpenAcks \/ OpenSealAcks \/ OpenRefuses
        \/ \E k \in Kind : OpenSealFails(k)

BatchStep(k) == \/ Begin(k) \/ AnswerKnown(k) \/ Write(k) \/ Sync(k) \/ Seal(k)
              \/ WriteFails(k) \/ SyncFails(k) \/ SealFails(k)

Next ==
    \/ Open
    \/ \E k \in Kind : BatchStep(k)
    \/ \E d \in Delivery, x \in Session : DecideLease(d, x)
    \/ \E l \in leases : DecideAck(l)
    \/ AdmitLeases \/ AdmitAcks
    \/ Crash

Spec == Init /\ [][Next]_vars

-----------------------------------------------------------------------------

\* An identity is given once and for ever: two leases ever answered, in
\* whatever batches, processes or retries, agree when they name the same
\* delivery or the same arrival of a session.  A lease answered before it was
\* durable, or an arrival reused after a crash, would break it.
OneIdentity ==
    \A l, m \in granted :
        (l.delivery = m.delivery \/ (l.session = m.session /\ l.arrival = m.arrival)) => l = m

\* The lines of a journal that no crash can take away.
Durable(k) == {file[k][i] : i \in (1..synced[k]) \intersect DOMAIN file[k]}

\* Nothing answered can be lost by a crash: every lease and acknowledgement
\* ever answered is among the durable lines of its journal.
AnsweredIsDurable ==
    /\ granted \subseteq Durable("lease")
    /\ acked \subseteq Durable("ack")

\* Whatever a crash keeps of the two files, every acknowledgement left names
\* a lease that is left: an acknowledgement is written only when its lease is
\* durable (loadAcksFrom refuses the journal otherwise).
AckHasDurableLease == Range(file["ack"]) \subseteq Durable("lease")

\* A seal never runs ahead of the durable lines, and a batch that reaches
\* checkFile finds its file and its seal as its own maps have them: the check
\* never poisons a journal nobody else wrote to.
SealBehindFile ==
    /\ \A k \in Kind : Len(seal[k]) <= synced[k] /\ IsPrefixOf(seal[k], file[k])
    /\ \A k \in Kind : pc[k] = "decide" => seal[k] = file[k] /\ k \notin torn \cup slot

\* Only a torn line or a torn seal slot makes an open refuse the journal: any
\* crash between any two steps of the two pipelines leaves files that load.
OnlyTornRefuses == up = "refused" => torn \cup slot # {}

\* What a caller was answered stands: one identity for a delivery, its line durable, and no
\* acknowledgement on disk without its lease (leaseBatch.decide, ackBatch.decide).
AnswersStand == OneIdentity /\ AnsweredIsDurable /\ AckHasDurableLease

\* A segment reopens: its seals never run ahead of its lines, a batch finds the file its maps
\* describe, and only a torn line or a torn slot has it refused (openSeal, checkFile, load).
ReopensCleanly == SealBehindFile /\ OnlyTornRefuses
=============================================================================
