----------------------------- MODULE MCJournal -----------------------------
(* The delivery journal, for TLC: the rotation of its segments                *)
(* (SegmentRotation), the batches of one segment (DeliveryJournal) and the    *)
(* paged index of the retired generations (DeliveryRadix).  The three share   *)
(* no variable, so one behaviour takes the steps of one of them (part) and    *)
(* leaves the others in their initial state.                                  *)
EXTENDS SegmentRotation, Sequences, TLC

CONSTANTS Nonce, Owner, MaxEntries, MaxBatch,
          Key, Value, Width, MaxPacks

VARIABLES part,
          jfile, synced, seal, torn, slot, up, scan, jleases, arrivals, jacks, pc, order, known,
          minted, next, jgranted, jacked,
          packs, roots, gens, txn, phase

\* Four keys: two that share two leading bits, one that leaves their prefix at its first bit,
\* and one whose digest equals another's (a collision).
Digests == [k1 |-> <<0, 1, 1>>, k2 |-> <<0, 1, 0>>, k3 |-> <<1, 0, 1>>, k4 |-> <<0, 1, 1>>]

Journal == INSTANCE DeliveryJournal WITH
    Delivery <- Nonce, Session <- Owner, file <- jfile, leases <- jleases, acks <- jacks,
    granted <- jgranted, acked <- jacked
Radix == INSTANCE DeliveryRadix WITH HashOf <- Digests

journalVars == <<jfile, synced, seal, torn, slot, up, scan, jleases, arrivals, jacks, pc, order,
                 known, minted, next, jgranted, jacked>>
radixVars == <<packs, roots, gens, txn, phase>>
parts == <<vars, journalVars, radixVars, part>>

\* Two deliveries of one session.
OneSession == [d \in Delivery |-> 1]

Symmetry == Permutations(Caller)

Busy == Cardinality({c \in Caller : ~At(c, "idle")})

\* Of the rotation: two concurrent calls with a crash or a failure, one call with two of them,
\* or one call with one of them and a harvest or a retirement.  Of a segment: three deliveries of one session,
\* or two deliveries of two sessions, leased in the order of their numbers.
Scenario ==
    /\ Busy + faults <= IF passes = 0 /\ denied = {} THEN 3 ELSE 2
    /\ passes = 0 \/ denied = {}
    /\ LET used == jgranted \cup {jfile["lease"][i] : i \in DOMAIN jfile["lease"]}
                             \cup {order["lease"][i] : i \in DOMAIN order["lease"]}
       IN /\ (\A l \in used : l.session = 1) \/ (\A l \in used : l.delivery \in {1, 2})
          /\ \A l \in used : l.delivery = 1 \/ \E m \in used : m.delivery = l.delivery - 1

PartInit ==
    /\ part \in {"rotation", "segment", "index"}
    /\ Init
    /\ Journal!Init
    /\ Radix!Init

PartNext ==
    \/ /\ part = "rotation"
       /\ Next
       /\ UNCHANGED <<journalVars, radixVars, part>>
    \/ /\ part = "segment"
       /\ Journal!Next
       /\ UNCHANGED <<vars, radixVars, part>>
    \/ /\ part = "index"
       /\ Radix!Next
       /\ UNCHANGED <<vars, journalVars, part>>

PartSpec == PartInit /\ [][PartNext]_parts

(* What a caller of a segment was answered stands, one identity, durable,    *)
(* and no acknowledgement without its lease, and the segment reopens: its    *)
(* seals never run ahead of its lines, and only a torn line or a torn seal   *)
(* slot has it refused (leaseBatch, ackBatch, openSeal, checkFile, load).    *)
SegmentSound == Journal!AnswersStand /\ Journal!ReopensCleanly

(* The pages of a committed index are the canonical radix tree of the keys   *)
(* it holds, however its updates were merged, and every generation a root    *)
(* pointer names answers its keys as when it was committed (radixTxn.merge). *)
IndexSound == Radix!IndexSound
=============================================================================
