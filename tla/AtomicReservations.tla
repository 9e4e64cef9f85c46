------------------------- MODULE AtomicReservations -------------------------
(***************************************************************************)
(* What the reservation store promises its callers: one table of           *)
(* reservations that changes by whole batches.  Each changed reservation   *)
(* is created at version 1 or moves to a successor the command family      *)
(* allows, and after every batch each resource key carries at most one     *)
(* live reservation.                                                       *)
(***************************************************************************)
EXTENDS ReservationRecords

VARIABLE store

Legal(old, new) == IF Exists(old) THEN IsSuccessor(old, new) ELSE IsCreation(new)

AtomicInit ==
    /\ store \in [Ids -> Reservation \cup {NoRecord}]
    /\ Crowded(store) = {}

ApplyBatch ==
    /\ \A id \in Ids : store'[id] # store[id] => Legal(store[id], store'[id])
    /\ Crowded(store') = {}

AtomicSpec == AtomicInit /\ [][ApplyBatch]_store

=============================================================================
