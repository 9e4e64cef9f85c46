------------------------------ MODULE MCClearing ------------------------------
(***************************************************************************)
(* An instance of Clearing for TLC: a owes b, b owes c and a in one asset. *)
(* One obligation runs through its whole lifecycle, the others through the *)
(* part of it that netting looks at.                                       *)
(***************************************************************************)
EXTENDS Clearing, TLC

CONSTANTS a, b, c, r1, r2, r3, n1, n2, usd

MCLeg ==
    r1 :> [payer |-> a, payee |-> b, asset |-> usd, amount |-> 2] @@
    r2 :> [payer |-> b, payee |-> c, asset |-> usd, amount |-> 1] @@
    r3 :> [payer |-> b, payee |-> a, asset |-> usd, amount |-> 1]

MCMaxVersion == [o \in ObligationIds |-> IF o = r1 THEN 4 ELSE IF o = r2 THEN 3 ELSE 2]

MCSymmetry == Permutations({n1, n2})

=============================================================================
