----------------------------- MODULE MCSettlement -----------------------------
(***************************************************************************)
(* Instances of Settlement for TLC: a batch of two legs, and a batch of    *)
(* one of them.                                                            *)
(***************************************************************************)
EXTENDS Settlement, TLC

CONSTANTS o1, o2, s1, s2, k1

MCDrafts == s1 :> {{o1, o2}} @@ s2 :> {{o1}}

=============================================================================
