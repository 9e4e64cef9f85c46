---------------------------- MODULE MCValueLedger ----------------------------
(***************************************************************************)
(* An instance of ValueLedger for TLC: a customer account and the          *)
(* custodian's cash account in one asset, an account in another asset, two *)
(* holds, and callers that also post to ENCUMBERED.                        *)
(***************************************************************************)
EXTENDS ValueLedger, TLC

CONSTANTS cust, cash, other, x1, x2, h1, h2

MCAssetOf == cust :> x1 @@ cash :> x1 @@ other :> x2

\* n from the credit side, <<a, v>>, to the debit side, <<b, w>>.
Transfer(b, w, a, v, n) ==
    [c \in Accounts |-> [u \in LEDGER_VIEWS |->
        CASE <<c, u>> = <<b, w>> -> n
          [] <<c, u>> = <<a, v>> -> -n
          [] OTHER -> 0]]

\* n out of nowhere to account a: two credit legs.
Credits(a, n) ==
    [c \in Accounts |-> [u \in LEDGER_VIEWS |->
        IF c = a /\ u \in {"AVAILABLE", "PENDING"} THEN -n ELSE 0]]

\* Funding, spending, the consumption of encumbered value, a posting that
\* balances only across assets, and one with credit legs only.
MCEntries ==
    {Transfer(cash, "AVAILABLE", cust, "AVAILABLE", 2),
     Transfer(cust, "AVAILABLE", cash, "AVAILABLE", 1),
     Transfer(cust, "ENCUMBERED", cash, "SETTLED", 1),
     Transfer(other, "AVAILABLE", cust, "AVAILABLE", 1),
     Credits(cust, 1)}

MCSymmetry == Permutations({h1, h2})

=============================================================================
