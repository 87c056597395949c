---------------------------- MODULE LeaseLedger ----------------------------
(***************************************************************************)
(* What the delivery journal promises its callers, with no files, windows, *)
(* segments or crashes: every delivery nonce is assigned at most one       *)
(* place, the next one of its session, and at most one acknowledgement,    *)
(* and neither is ever taken back (daemon/delivery_lease.go, deliveryLease *)
(* and deliveryAck).                                                       *)
(***************************************************************************)
EXTENDS Naturals, FiniteSets

CONSTANTS Delivery,    \* nonces
          SessionOf    \* the session each is a delivery of

VARIABLES assigned,    \* the leases: <<delivery, ArrivalSeq>>
          settled      \* the deliveries acknowledged

ledger == <<assigned, settled>>

\* The arrivals a session has been assigned are 1..Arrivals.
Arrivals(s) == Cardinality({l \in assigned : SessionOf[l[1]] = s})

LedgerInit == assigned = {} /\ settled = {}

\* leaseBatch.decide, a nonce neither in the window nor archived.
Assign(d) ==
    /\ \A l \in assigned : l[1] # d
    /\ assigned' = assigned \union {<<d, Arrivals(SessionOf[d]) + 1>>}
    /\ UNCHANGED settled

\* ackBatch.decide, an assigned nonce.
Settle(d) ==
    /\ \E l \in assigned : l[1] = d
    /\ settled' = settled \union {d}
    /\ UNCHANGED assigned

LedgerNext == \E d \in Delivery : Assign(d) \/ Settle(d)

LedgerSpec == LedgerInit /\ [][LedgerNext]_ledger
=============================================================================
