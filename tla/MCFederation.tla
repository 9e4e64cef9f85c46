----------------------------- MODULE MCFederation -----------------------------
(***************************************************************************)
(* An instance of Federation for TLC with two principals with a key each:  *)
(* d1 has room to register, to publish two commitments and to change its   *)
(* key between, before or after them; d2 and d3 join d1, another domain or *)
(* themselves with the right or the wrong key, d2 accepts twice, d3 once.  *)
(***************************************************************************)
EXTENDS Federation, TLC

CONSTANTS d1, d2, d3, k1, k2, p1, p2, m1, m2, a1, a2, c1, c2

MCOwner == k1 :> p1 @@ k2 :> p2

MCMaxJournal == d1 :> 4 @@ d2 :> 4 @@ d3 :> 3
MCMaxPublished == d1 :> 2 @@ d2 :> 0 @@ d3 :> 0
MCMaxAccepted == d1 :> 0 @@ d2 :> 2 @@ d3 :> 1

\* What was issued decides only which ids a later message may take; any publication
\* can do without a message, so states that differ in `messages` alone behave alike.
MCView == <<domain, commitments, acceptances, journal>>

\* The two keys are interchanged together with their owners.
MCSymmetry ==
    UNION {Permutations({m1, m2}), Permutations({a1, a2}), Permutations({c1, c2}),
           {k1 :> k2 @@ k2 :> k1 @@ p1 :> p2 @@ p2 :> p1}}

=============================================================================
