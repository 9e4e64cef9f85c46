------------------------- MODULE MCReservationStore -------------------------
(***************************************************************************)
(* Instance of ReservationStore for TLC.                                   *)
(***************************************************************************)
EXTENDS ReservationStore, TLC

CONSTANTS t1, t2, r1, r2, r3

\* t2's claim precedes t1's.
MCClaim ==
    t1 :> [at |-> 2, cmd |-> 1, actor |-> 1] @@
    t2 :> [at |-> 1, cmd |-> 2, actor |-> 2]

MCKeySets == t1 :> {{1}, {1, 2}} @@ t2 :> {{1}, {2}, {1, 2}}

\* r1 may be created on either key; r2 competes with it for key 1, r3 for key 2.
SharedKeys == r1 :> {1, 2} @@ r2 :> {1} @@ r3 :> {2}

\* The instants fall before, inside and after the one window.
OneWindow == {[opens |-> 1, closes |-> 2]}

\* An empty store, one with a fresh claim on key 1, one with a held claim on
\* key 1 and a committed one on key 2.
Empty == [id \in Ids |-> NoRecord]
Fresh(k) == Created(k, [opens |-> 1, closes |-> 2], {})

MCSeeds ==
    {Empty,
     [Empty EXCEPT ![r1] = Fresh(1)],
     [Empty EXCEPT ![r1] = Held(Fresh(1)), ![r3] = Committed(Fresh(2), 1)]}

=============================================================================
