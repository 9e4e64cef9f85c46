------------------------------- MODULE MCMarket -------------------------------
(***************************************************************************)
(* An instance of Market for TLC: three offers of three providers, one of  *)
(* which may change its price.                                             *)
(***************************************************************************)
EXTENDS Market

CONSTANTS o1, o2, o3, p1, p2, p3

MCProvider == [o \in {o1, o2, o3} |-> CASE o = o1 -> p1 [] o = o2 -> p2 [] OTHER -> p3]

Sheet(price, min, max) == [price |-> price, fee |-> 0, min |-> min, max |-> max]

MCTermSheets == [o \in {o1, o2, o3} |->
    CASE o = o1 -> {Sheet(1, 1, 1), Sheet(2, 1, 1)}
      [] OTHER -> {Sheet(1, 2, 2)}]

\* A demand that may be split in two payments, one that may not be split, and
\* one the market is not for.
MCDemands ==
    {[min |-> 1, max |-> 3, split |-> TRUE, count |-> 2],
     [min |-> 2, max |-> 2, split |-> FALSE, count |-> 1],
     [min |-> 4, max |-> 4, split |-> FALSE, count |-> 1]}

MCWindow == [from |-> 0, until |-> 2]
MCAvailable == [o \in {o1, o2, o3} |-> [from |-> 0, until |-> IF o = o1 THEN 2 ELSE 3]]
MCPriceBand == [min |-> 1, max |-> 2]
MCAmountWindow == [min |-> 1, max |-> 3]
MCMaxSequence == [k \in MechanismKind |-> IF k = "RFQ" THEN 2 ELSE 3]

=============================================================================
