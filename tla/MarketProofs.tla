---------------------------- MODULE MarketProofs ----------------------------
(***************************************************************************)
(* The market session, for any offers, demands and instants and any number *)
(* of submissions: what an allocation fills follows price-time priority    *)
(* and serves the demand, and a batch's reservations go with its winners.  *)
(*                                                                         *)
(* RankedBefore is a strict total order on the submissions, so the greedy  *)
(* pass fills an initial part of the ranking, all of it whole but for the  *)
(* last; the sums over it are those of module Sums.                        *)
(***************************************************************************)
EXTENDS Market, Sums, TLAPS

SubmissionState ==
    {"SUBMITTED", "ACCEPTED", "WITHDRAWN", "REJECTED", "ALLOCATED_FULL", "ALLOCATED_PARTIAL", "UNALLOCATED"}

SubmissionRecord ==
    [offer : OfferIds, amount : Nat \ {0}, price : Int, fee : Int, at : Int, state : SubmissionState]

MarketTypeOK ==
    /\ kind \in MechanismKind
    /\ market \in MarketState
    /\ offers \in [OfferIds -> [state : LiquidityOfferState, terms : Terms]]
    /\ submissions \in Seq(SubmissionRecord)

-----------------------------------------------------------------------------
(* Orders and sums. *)

\* A strict total order R on a finite set has a first element.
LEMMA FirstExists ==
    ASSUME NEW S, IsFiniteSet(S), S # {}, NEW R,
           \A i \in S : <<i, i>> \notin R,
           \A i, j \in S : i # j => <<i, j>> \in R \/ <<j, i>> \in R,
           \A i, j, k \in S : <<i, j>> \in R /\ <<j, k>> \in R => <<i, k>> \in R
    PROVE  \E i \in S : \A j \in S \ {i} : <<i, j>> \in R
<1> DEFINE Below == [i \in S |-> {j \in S : <<j, i>> \in R}]
           B == {Below[i] : i \in S}
<1>1. \A i \in S : Below[i] \in SUBSET S
  OBVIOUS
<1>2. \A i, j \in S : j \in Below[i] <=> <<j, i>> \in R
  OBVIOUS
<1> HIDE DEF Below
<1>3. B \subseteq SUBSET S /\ B # {}
  BY <1>1
<1>4. PICK T \in B : \A U \in B : U \subseteq T => U = T
  <2> HIDE DEF B
  <2> QED
    BY <1>3, MinimalSubset
<1>5. PICK i \in S : T = Below[i]
  OBVIOUS
<1>6. ASSUME NEW j \in S \ {i}, <<i, j>> \notin R PROVE FALSE
  <2>1. <<j, i>> \in R
    BY <1>6
  <2>2. Below[j] \subseteq Below[i]
    <3> SUFFICES ASSUME NEW k \in Below[j] PROVE k \in Below[i]
      OBVIOUS
    <3>1. k \in S
      BY <1>1
    <3> QED
      BY <1>2, <2>1, <3>1
  <2>3. Below[j] = Below[i]
    BY <1>4, <1>5, <2>2
  <2> QED
    BY <1>2, <2>1, <2>3
<1> QED
  BY <1>6

\* A sum of naturals grows with the set.
LEMMA SumGrows ==
    ASSUME NEW f, NEW S, IsFiniteSet(S), NEW T \in SUBSET S, \A x \in S : f[x] \in Nat
    PROVE  /\ SumFunctionOnSet(f, T) \in Nat /\ SumFunctionOnSet(f, S) \in Nat
           /\ SumFunctionOnSet(f, T) <= SumFunctionOnSet(f, S)
<1>1. /\ IsFiniteSet(T) /\ IsFiniteSet(S \ T) /\ S = (S \ T) \cup T
      /\ \A x \in (S \ T) \cup T : f[x] \in Int
  BY FS_Subset
<1>2. SumFunctionOnSet(f, (S \ T) \cup T) = SumFunctionOnSet(f, S \ T) + SumFunctionOnSet(f, T)
  BY <1>1, SumDisjoint
<1>3. SumFunctionOnSet(f, S \ T) \in Nat /\ SumFunctionOnSet(f, T) \in Nat /\ SumFunctionOnSet(f, S) \in Nat
  BY <1>1, SumNatural
<1> QED
  BY <1>1, <1>2, <1>3

\* The lesser of two numbers.
LEMMA MinOfTwo ==
    ASSUME NEW a \in Int, NEW b \in Int
    PROVE  Min({a, b}) = IF a <= b THEN a ELSE b
<1> DEFINE m == IF a <= b THEN a ELSE b
<1>1. m \in {a, b} /\ \A y \in {a, b} : m <= y
  OBVIOUS
<1>2. \A x \in {a, b} : (\A y \in {a, b} : x <= y) => x = m
  OBVIOUS
<1> HIDE DEF m
<1>3. Min({a, b}) = m
  BY <1>1, <1>2 DEF Min
<1> QED
  BY <1>3 DEF m

-----------------------------------------------------------------------------
(* The ranking. *)

\* What is known of a submission.
LEMMA SubmissionType ==
    ASSUME MarketTypeOK, NEW i \in Sequence
    PROVE  /\ submissions[i] \in SubmissionRecord
           /\ submissions[i].amount \in Nat \ {0} /\ submissions[i].price \in Int
           /\ submissions[i].fee \in Int /\ submissions[i].at \in Int /\ i \in Nat
<1>1. submissions[i] \in SubmissionRecord /\ i \in Nat
  BY DEF MarketTypeOK, Sequence
<1> QED
  BY <1>1 DEF SubmissionRecord

\* The rank key orders the submissions strictly and totally.
LEMMA RankIsOrder ==
    ASSUME MarketTypeOK
    PROVE  /\ \A i \in Sequence : ~RankedBefore(i, i)
           /\ \A i, j \in Sequence : i # j => RankedBefore(i, j) \/ RankedBefore(j, i)
           /\ \A i, j, k \in Sequence : RankedBefore(i, j) /\ RankedBefore(j, k) => RankedBefore(i, k)
<1>1. ASSUME NEW i \in Sequence PROVE ~RankedBefore(i, i)
  BY SubmissionType DEF RankedBefore
<1>2. ASSUME NEW i \in Sequence, NEW j \in Sequence, i # j PROVE RankedBefore(i, j) \/ RankedBefore(j, i)
  <2>1. /\ submissions[i].price \in Int /\ submissions[i].fee \in Int /\ submissions[i].at \in Int /\ i \in Nat
        /\ submissions[j].price \in Int /\ submissions[j].fee \in Int /\ submissions[j].at \in Int /\ j \in Nat
    BY SubmissionType
  <2> QED
    BY <1>2, <2>1 DEF RankedBefore
<1>3. ASSUME NEW i \in Sequence, NEW j \in Sequence, NEW k \in Sequence,
             RankedBefore(i, j), RankedBefore(j, k)
      PROVE  RankedBefore(i, k)
  <2>1. /\ submissions[i].price \in Int /\ submissions[i].fee \in Int /\ submissions[i].at \in Int /\ i \in Nat
        /\ submissions[j].price \in Int /\ submissions[j].fee \in Int /\ submissions[j].at \in Int /\ j \in Nat
        /\ submissions[k].price \in Int /\ submissions[k].fee \in Int /\ submissions[k].at \in Int /\ k \in Nat
    BY SubmissionType
  <2> QED
    BY <1>3, <2>1 DEF RankedBefore
<1> QED
  BY <1>1, <1>2, <1>3

\* There are finitely many submissions, so every non-empty set of them has a
\* first and a last in the ranking.
LEMMA RankEnds ==
    ASSUME MarketTypeOK, NEW S \in SUBSET Sequence, S # {}
    PROVE  /\ IsFiniteSet(S)
           /\ \E i \in S : \A j \in S \ {i} : RankedBefore(i, j)
           /\ \E i \in S : \A j \in S \ {i} : RankedBefore(j, i)
<1> DEFINE R == {k \in Sequence \X Sequence : RankedBefore(k[1], k[2])}
           Q == {k \in Sequence \X Sequence : RankedBefore(k[2], k[1])}
<1>1. IsFiniteSet(S)
  <2>1. IsFiniteSet(Sequence)
    <3>1. Len(submissions) \in Nat
      BY DEF MarketTypeOK
    <3> QED
      BY <3>1, FS_Interval DEF Sequence
  <2> QED
    BY <2>1, FS_Subset
<1>2. \A i, j \in Sequence : (<<i, j>> \in R <=> RankedBefore(i, j)) /\ (<<i, j>> \in Q <=> RankedBefore(j, i))
  OBVIOUS
<1> HIDE DEF R, Q
<1>3. \E i \in S : \A j \in S \ {i} : <<i, j>> \in R
  <2>1. /\ \A i \in S : <<i, i>> \notin R
        /\ \A i, j \in S : i # j => <<i, j>> \in R \/ <<j, i>> \in R
        /\ \A i, j, k \in S : <<i, j>> \in R /\ <<j, k>> \in R => <<i, k>> \in R
    BY <1>2, RankIsOrder
  <2> QED
    BY <1>1, <2>1, FirstExists
<1>4. \E i \in S : \A j \in S \ {i} : <<i, j>> \in Q
  <2>1. /\ \A i \in S : <<i, i>> \notin Q
        /\ \A i, j \in S : i # j => <<i, j>> \in Q \/ <<j, i>> \in Q
        /\ \A i, j, k \in S : <<i, j>> \in Q /\ <<j, k>> \in Q => <<i, k>> \in Q
    BY <1>2, RankIsOrder
  <2> QED
    BY <1>1, <2>1, FirstExists
<1> QED
  BY <1>1, <1>2, <1>3, <1>4

-----------------------------------------------------------------------------
(* The greedy pass. *)

\* The amounts submitted.
Offered == [i \in Sequence |-> submissions[i].amount]

\* What lies ahead of a submission in the ranking, added up.
LEMMA AheadSum ==
    ASSUME MarketTypeOK, NEW i \in Batch
    PROVE  /\ i \in Sequence /\ Ahead(i) \in SUBSET Batch /\ Batch \in SUBSET Sequence
           /\ IsFiniteSet(Ahead(i)) /\ IsFiniteSet(Batch) /\ i \notin Ahead(i)
           /\ AmountAhead(i) = SumFunctionOnSet(Offered, Ahead(i))
           /\ AmountAhead(i) \in Nat
           /\ \A j \in Sequence : Offered[j] = submissions[j].amount /\ Offered[j] \in Nat \ {0}
<1>1. i \in Sequence /\ Ahead(i) \in SUBSET Batch /\ Batch \in SUBSET Sequence
  BY DEF Batch, Eligible, Ahead
<1>2. IsFiniteSet(Batch) /\ IsFiniteSet(Ahead(i))
  <2>1. Batch # {}
    OBVIOUS
  <2> QED
    BY <1>1, <2>1, RankEnds, FS_Subset
<1>3. i \notin Ahead(i)
  BY <1>1, RankIsOrder DEF Ahead
<1>4. \A j \in Sequence : Offered[j] = submissions[j].amount /\ Offered[j] \in Nat \ {0}
  BY SubmissionType DEF Offered
<1>5. AmountAhead(i) = SumFunctionOnSet(Offered, Ahead(i))
  <2> DEFINE f == [j \in Ahead(i) |-> submissions[j].amount]
  <2>1. DOMAIN f = Ahead(i) /\ \A j \in Ahead(i) : f[j] = Offered[j]
    BY <1>1, <1>4
  <2> HIDE DEF f
  <2>2. SumFunction(f) = SumFunctionOnSet(Offered, Ahead(i))
    BY <1>2, <2>1, SumOfValues
  <2> QED
    BY <2>2 DEF f, AmountAhead
<1>6. SumFunctionOnSet(Offered, Ahead(i)) \in Nat
  BY <1>1, <1>2, <1>4, SumNatural
<1> QED
  BY <1>1, <1>2, <1>3, <1>4, <1>5, <1>6

\* Further down the ranking there is more ahead, by at least the submission
\* passed.
LEMMA AheadGrows ==
    ASSUME MarketTypeOK, NEW i \in Batch, NEW j \in Ahead(i)
    PROVE  /\ j \in Batch
           /\ AmountAhead(j) + submissions[j].amount <= AmountAhead(i)
           /\ Cardinality(Ahead(j)) \in Nat /\ Cardinality(Ahead(i)) \in Nat
           /\ Cardinality(Ahead(j)) <= Cardinality(Ahead(i))
<1>1. j \in Batch /\ RankedBefore(j, i)
  BY DEF Ahead
<1>2. /\ i \in Sequence /\ j \in Sequence /\ j \notin Ahead(j) /\ Batch \in SUBSET Sequence
      /\ IsFiniteSet(Ahead(i)) /\ IsFiniteSet(Ahead(j))
      /\ Ahead(i) \in SUBSET Batch /\ Ahead(j) \in SUBSET Batch
      /\ AmountAhead(i) = SumFunctionOnSet(Offered, Ahead(i))
      /\ AmountAhead(j) = SumFunctionOnSet(Offered, Ahead(j)) /\ AmountAhead(j) \in Nat
      /\ \A k \in Sequence : Offered[k] = submissions[k].amount /\ Offered[k] \in Nat \ {0}
  BY <1>1, AheadSum
<1>3. Ahead(j) \cup {j} \in SUBSET Ahead(i)
  <2> SUFFICES ASSUME NEW k \in Ahead(j) PROVE k \in Ahead(i)
    OBVIOUS
  <2>1. k \in Batch /\ k \in Sequence /\ RankedBefore(k, j)
    BY <1>2 DEF Ahead
  <2>2. RankedBefore(k, i)
    BY <1>1, <1>2, <2>1, RankIsOrder
  <2> QED
    BY <2>1, <2>2 DEF Ahead
<1>4. IsFiniteSet(Ahead(j) \cup {j}) /\ (Ahead(j) \cup {j}) \ {j} = Ahead(j)
  BY <1>2, <1>3, FS_Subset
<1>5. SumFunctionOnSet(Offered, Ahead(j) \cup {j}) =
          Offered[j] + SumFunctionOnSet(Offered, (Ahead(j) \cup {j}) \ {j})
  <2> DEFINE U == Ahead(j) \cup {j}
  <2>1. IsFiniteSet(U) /\ j \in U /\ \A k \in U : Offered[k] \in Int
    BY <1>2, <1>4
  <2> HIDE DEF U
  <2>2. SumFunctionOnSet(Offered, U) = Offered[j] + SumFunctionOnSet(Offered, U \ {j})
    BY <2>1, SumRemove
  <2> QED
    BY <2>2 DEF U
<1>6. SumFunctionOnSet(Offered, Ahead(j) \cup {j}) <= SumFunctionOnSet(Offered, Ahead(i))
  <2>1. \A k \in Ahead(i) : Offered[k] \in Nat
    BY <1>2
  <2> QED
    BY <1>2, <1>3, <2>1, SumGrows
<1>7. /\ Cardinality(Ahead(j)) \in Nat /\ Cardinality(Ahead(i)) \in Nat
      /\ Cardinality(Ahead(j)) <= Cardinality(Ahead(i))
  <2>1. Ahead(j) \in SUBSET Ahead(i)
    BY <1>3
  <2> QED
    BY <1>2, <2>1, FS_Subset, FS_CardinalityType
<1> QED
  BY <1>1, <1>2, <1>4, <1>5, <1>6, <1>7

\* What is ahead of a filled submission is filled whole, and a fill is neither
\* empty nor more than was offered.
LEMMA FilledAhead ==
    ASSUME MarketTypeOK, NEW d \in Demands, NEW i \in DOMAIN Fills(d)
    PROVE  /\ i \in Batch /\ AmountAhead(i) < d.max
           /\ Fills(d)[i] \in Nat \ {0} /\ Fills(d)[i] <= submissions[i].amount
           /\ Fills(d)[i] <= d.max - AmountAhead(i)
           /\ \A j \in Ahead(i) : j \in DOMAIN Fills(d) /\ Fills(d)[j] = submissions[j].amount
<1> DEFINE cap == IF d.split THEN d.count ELSE 1
<1>1. d.min \in Nat /\ d.max \in Nat /\ cap \in Nat
  BY DemandsAssumption
<1>2. \A k \in Batch : AmountAhead(k) \in Nat /\ submissions[k].amount \in Nat \ {0}
  BY AheadSum, SubmissionType
<1>3. \A k : k \in DOMAIN Fills(d) <=> (k \in Batch /\ ~Reached(d, k))
  BY DEF Fills
<1>4. \A k \in Batch :
          Reached(d, k) <=> (AmountAhead(k) >= d.max \/ (Cardinality(Ahead(k)) >= cap /\ AmountAhead(k) >= d.min))
  BY DEF Reached
<1>5. \A k \in DOMAIN Fills(d) :
          Fills(d)[k] = IF d.max - AmountAhead(k) <= submissions[k].amount
                        THEN d.max - AmountAhead(k) ELSE submissions[k].amount
  <2> TAKE k \in DOMAIN Fills(d)
  <2>1. k \in Batch
    BY <1>3
  <2>2. Fills(d)[k] = Min({d.max - AmountAhead(k), submissions[k].amount})
    BY <1>3 DEF Fills, Take
  <2>3. d.max - AmountAhead(k) \in Int /\ submissions[k].amount \in Int
    BY <1>1, <1>2, <2>1
  <2> QED
    BY <2>2, <2>3, MinOfTwo
<1>6. i \in Batch /\ AmountAhead(i) < d.max
  <2>1. i \in Batch /\ ~(AmountAhead(i) >= d.max)
    BY <1>3, <1>4
  <2> QED
    BY <1>1, <1>2, <2>1
<1>7. ASSUME NEW j \in Ahead(i) PROVE j \in DOMAIN Fills(d) /\ Fills(d)[j] = submissions[j].amount
  <2>1. /\ j \in Batch
        /\ AmountAhead(j) + submissions[j].amount <= AmountAhead(i)
        /\ Cardinality(Ahead(j)) \in Nat /\ Cardinality(Ahead(i)) \in Nat
        /\ Cardinality(Ahead(j)) <= Cardinality(Ahead(i))
    BY <1>6, AheadGrows
  <2>2. AmountAhead(j) \in Nat /\ submissions[j].amount \in Nat \ {0} /\ AmountAhead(i) \in Nat
    BY <1>2, <1>6, <2>1
  <2>3. ~Reached(d, j)
    <3>1. ~Reached(d, i)
      BY <1>3
    <3> HIDE DEF cap
    <3>2. ~(Cardinality(Ahead(i)) >= cap /\ AmountAhead(i) >= d.min)
      BY <1>4, <1>6, <3>1
    <3> QED
      BY <1>1, <1>4, <1>6, <2>1, <2>2, <3>2
  <2>4. j \in DOMAIN Fills(d)
    BY <1>3, <2>1, <2>3
  <2> QED
    BY <1>1, <1>5, <1>6, <2>1, <2>2, <2>4
<1>8. submissions[i].amount \in Nat \ {0} /\ AmountAhead(i) \in Nat
  BY <1>2, <1>6
<1> QED
  BY <1>1, <1>5, <1>6, <1>7, <1>8

\* The fills of the pass add up to no more than the demand's maximum.
LEMMA FillsBounded ==
    ASSUME MarketTypeOK, NEW d \in Demands, DOMAIN Fills(d) # {}
    PROVE  /\ SumFunction(Fills(d)) \in Int
           /\ SumFunction(Fills(d)) <= d.max
<1> DEFINE W == DOMAIN Fills(d)
           F == Fills(d)
<1>1. W \in SUBSET Batch /\ W \in SUBSET Sequence
  BY DEF Fills, Batch, Eligible
<1>2. PICK i \in W : \A j \in W \ {i} : RankedBefore(j, i)
  BY <1>1, RankEnds
<1>3. /\ i \in Batch /\ F[i] \in Nat /\ F[i] <= d.max - AmountAhead(i)
      /\ \A j \in Ahead(i) : j \in W /\ F[j] = submissions[j].amount
  BY FilledAhead
<1>4. /\ i \notin Ahead(i) /\ Ahead(i) \in SUBSET Batch /\ Batch \in SUBSET Sequence /\ IsFiniteSet(Ahead(i))
      /\ AmountAhead(i) = SumFunctionOnSet(Offered, Ahead(i)) /\ AmountAhead(i) \in Nat
      /\ \A j \in Sequence : Offered[j] = submissions[j].amount
  BY <1>3, AheadSum
<1>5. W \ {i} = Ahead(i)
  BY <1>1, <1>2, <1>3, <1>4 DEF Ahead
<1>6. \A j \in W : F[j] \in Int
  BY FilledAhead
<1>7. IsFiniteSet(W)
  BY <1>1, RankEnds
<1>8. d.max \in Nat
  BY DemandsAssumption
<1> HIDE DEF W, F
<1>9. SumFunctionOnSet(F, W) = F[i] + SumFunctionOnSet(F, W \ {i})
  BY <1>6, <1>7, SumRemove
<1>10. \A j \in Ahead(i) : F[j] = Offered[j]
  BY <1>3, <1>4
<1>11. SumFunctionOnSet(F, Ahead(i)) = SumFunctionOnSet(Offered, Ahead(i))
  BY <1>4, <1>10, SumSame
<1>12. SumFunctionOnSet(F, W) = F[i] + AmountAhead(i)
  BY <1>4, <1>5, <1>9, <1>11
<1>13. SumFunction(Fills(d)) = SumFunctionOnSet(F, W)
  BY DEF SumFunction, F, W
<1> QED
  BY <1>3, <1>4, <1>8, <1>12, <1>13

\* What an allocation with fills is worth to the demand and to the winners.
Serves(out) ==
    /\ out.demand.min <= SumFunction(out.fills) /\ SumFunction(out.fills) <= out.demand.max
    /\ DOMAIN out.fills \subseteq Eligible
    /\ \A i \in DOMAIN out.fills :
          /\ out.fills[i] <= submissions[i].amount
          /\ submissions[i].price <= out.price

\* The batch auction serves its demand.
LEMMA BatchServes ==
    ASSUME MarketTypeOK, NEW d \in Demands
    PROVE  /\ BatchOutcome(d).demand = d
           /\ \/ BatchOutcome(d).fills = NoFills
              \/ BatchOutcome(d).fills = Fills(d) /\ Serves(BatchOutcome(d))
<1> DEFINE F == Fills(d)
           W == DOMAIN F
           last == CHOOSE i \in W : \A j \in W \ {i} : RankedBefore(j, i)
<1>1. CASE SumFunction(F) < d.min \/ W = {}
  BY <1>1 DEF BatchOutcome
<1>2. CASE ~(SumFunction(F) < d.min \/ W = {})
  <2>1. BatchOutcome(d) = [demand |-> d, fills |-> F, price |-> submissions[last].price]
    BY <1>2 DEF BatchOutcome
  <2>2. W \in SUBSET Batch /\ Batch \in SUBSET Sequence /\ Batch \in SUBSET Eligible /\ W \in SUBSET Sequence
    BY DEF Fills, Batch, Eligible
  <2>3. \E i \in W : \A j \in W \ {i} : RankedBefore(j, i)
    <3>1. W # {}
      BY <1>2
    <3> HIDE DEF W
    <3> QED
      BY <2>2, <3>1, RankEnds
  <2>4. last \in W /\ \A j \in W \ {last} : RankedBefore(j, last)
    <3> HIDE DEF W
    <3> QED
      BY <2>3
  <2>5. SumFunction(F) \in Int /\ SumFunction(F) <= d.max
    BY <1>2, FillsBounded
  <2>6. d.min \in Nat /\ d.min <= SumFunction(F)
    BY <1>2, <2>5, DemandsAssumption
  <2>7. \A i \in W : F[i] <= submissions[i].amount
    BY FilledAhead
  <2>8. \A i \in W : submissions[i].price <= submissions[last].price
    <3> TAKE i \in W
    <3>1. submissions[i].price \in Int /\ submissions[last].price \in Int
      BY <2>2, <2>4, SubmissionType
    <3>2. i = last \/ RankedBefore(i, last)
      BY <2>4
    <3> HIDE DEF last
    <3> QED
      BY <3>1, <3>2 DEF RankedBefore
  <2> HIDE DEF F, last, W
  <2>9. /\ BatchOutcome(d).demand = d /\ BatchOutcome(d).fills = F
        /\ BatchOutcome(d).price = submissions[last].price
    BY <2>1
  <2> QED
    BY <2>2, <2>5, <2>6, <2>7, <2>8, <2>9 DEF Serves, F, W
<1> QED
  BY <1>1, <1>2

\* The RFQ fills its best candidate, for what the demand can use of it.
LEMMA RfqServes ==
    ASSUME MarketTypeOK, NEW d \in Demands
    PROVE  /\ RfqOutcome(d).demand = d
           /\ \/ RfqOutcome(d).fills = NoFills
              \/ \E best \in Eligible :
                    /\ RfqOutcome(d).fills = [i \in {best} |-> Min({d.max, submissions[i].amount})]
                    /\ RfqOutcome(d).price = submissions[best].price
                    /\ \A j \in Eligible : RankedBefore(j, best) => submissions[j].amount < d.min
                    /\ Serves(RfqOutcome(d))
<1> DEFINE C == {i \in Eligible : submissions[i].amount >= d.min}
           best == CHOOSE i \in C : \A j \in C \ {i} : RankedBefore(i, j)
           F == [i \in {best} |-> Min({d.max, submissions[i].amount})]
<1>1. CASE C = {}
  BY <1>1 DEF RfqOutcome
<1>2. CASE C # {}
  <2>1. RfqOutcome(d) = [demand |-> d, fills |-> F, price |-> submissions[best].price]
    BY <1>2 DEF RfqOutcome
  <2>2. C \in SUBSET Eligible /\ Eligible \in SUBSET Sequence /\ C \in SUBSET Sequence
    BY DEF Eligible
  <2>3. \E i \in C : \A j \in C \ {i} : RankedBefore(i, j)
    <3> HIDE DEF C
    <3> QED
      BY <1>2, <2>2, RankEnds
  <2>4. best \in C /\ \A j \in C \ {best} : RankedBefore(best, j)
    <3> HIDE DEF C
    <3> QED
      BY <2>3
  <2>5. \A j \in C : submissions[j].amount >= d.min
    OBVIOUS
  <2>6. \A j \in Eligible : j \notin C => ~(submissions[j].amount >= d.min)
    OBVIOUS
  <2>7. d.min \in Nat /\ d.max \in Nat /\ d.min <= d.max
    BY DemandsAssumption
  <2> HIDE DEF C, best
  <2>8. best \in Eligible /\ best \in Sequence /\ submissions[best].amount \in Nat /\ submissions[best].price \in Int
    BY <2>2, <2>4, SubmissionType
  <2>9. F[best] = (IF d.max <= submissions[best].amount THEN d.max ELSE submissions[best].amount) /\ DOMAIN F = {best}
    BY <2>7, <2>8, MinOfTwo
  <2>10. d.min <= F[best] /\ F[best] <= d.max /\ F[best] <= submissions[best].amount /\ F[best] \in Int
    BY <2>4, <2>5, <2>7, <2>8, <2>9
  <2>11. SumFunction(F) = F[best]
    <3>1. IsFiniteSet({best})
      BY FS_Singleton
    <3>2. best \in {best} /\ \A y \in {best} \ {best} : F[y] = 0
      OBVIOUS
    <3>3. DOMAIN F = {best}
      BY <2>9
    <3> HIDE DEF F
    <3>4. SumFunctionOnSet(F, {best}) = F[best]
      BY <2>10, <3>1, <3>2, SumSingle
    <3> QED
      BY <3>3, <3>4 DEF SumFunction
  <2>12. \A j \in Eligible : RankedBefore(j, best) => submissions[j].amount < d.min
    <3> SUFFICES ASSUME NEW j \in Eligible, RankedBefore(j, best) PROVE submissions[j].amount < d.min
      OBVIOUS
    <3>1. j \in Sequence /\ submissions[j].amount \in Nat
      BY <2>2, SubmissionType
    <3>2. j \notin C
      BY <2>4, <2>8, <3>1, RankIsOrder
    <3> QED
      BY <2>6, <2>7, <3>1, <3>2
  <2>13. RfqOutcome(d).demand = d /\ RfqOutcome(d).fills = F /\ RfqOutcome(d).price = submissions[best].price
    BY <2>1
  <2>14. Serves(RfqOutcome(d))
    <3> HIDE DEF F
    <3> QED
      BY <2>7, <2>8, <2>9, <2>10, <2>11, <2>13 DEF Serves
  <2> QED
    BY <2>8, <2>12, <2>13, <2>14
<1> QED
  BY <1>1, <1>2

-----------------------------------------------------------------------------
(* The invariant. *)

\* A provider has one active submission at most.
OneBidEach ==
    \A i, j \in ActiveSubmissions : i # j => Provider[submissions[i].offer] # Provider[submissions[j].offer]

\* Until it is allocated, a market has no outcome, no quote, no
\* winners and no reservations.
NothingYet ==
    market \in {"CREATED", "OPEN", "CLOSED", "CANCELLED"} =>
       /\ outcome = None /\ quote = None /\ reservations = << >>
       /\ \A i \in Sequence : submissions[i].state \notin Won

\* Fills are of submissions, and the quote and the reservations an allocated
\* market keeps have a state to be advanced.
OutcomeKnown ==
    /\ outcome # None /\ outcome.fills # NoFills => DOMAIN outcome.fills \subseteq Sequence
    /\ market = "ALLOCATED" /\ quote # None => "state" \in DOMAIN quote
    /\ market = "ALLOCATED" => \A i \in DOMAIN reservations : {"state", "amount"} \subseteq DOMAIN reservations[i]

MarketInv ==
    /\ MarketTypeOK /\ OneBidEach /\ NothingYet /\ OutcomeKnown
    /\ FillsServeDemand /\ ReservationsFollowMarket

\* A new session satisfies the invariant.
LEMMA MarketInitInv == Init => MarketInv
<1> SUFFICES ASSUME Init PROVE MarketInv
  OBVIOUS
<1>1. /\ submissions = << >> /\ reservations = << >> /\ outcome = None /\ quote = None /\ market = "CREATED"
      /\ kind \in MechanismKind
  BY DEF Init
<1>2. Sequence = {}
  BY <1>1 DEF Sequence
<1>3. offers \in [OfferIds -> [state : LiquidityOfferState, terms : Terms]]
  <2>1. \A o \in OfferIds : offers[o].terms \in Terms /\ offers[o] \in [state : {"ACTIVE"}, terms : UNION {TermSheets[k] : k \in OfferIds}]
    BY TermsAssumption DEF Init
  <2>2. \A o \in OfferIds : offers[o] \in [state : LiquidityOfferState, terms : Terms]
    BY <2>1 DEF LiquidityOfferState
  <2> QED
    BY <2>2 DEF Init
<1>4. MarketTypeOK
  BY <1>1, <1>3 DEF MarketTypeOK, MarketState
<1>5. OneBidEach /\ NothingYet /\ OutcomeKnown /\ FillsServeDemand
  BY <1>1, <1>2 DEF OneBidEach, ActiveSubmissions, NothingYet, OutcomeKnown, FillsServeDemand
<1>6. ReservationsFollowMarket
  BY <1>1, <1>2 DEF ReservationsFollowMarket
<1> QED
  BY <1>4, <1>5, <1>6 DEF MarketInv

\* What the session does not look at: offers, the parties' quote and deal.
LEMMA OutsideStepInv ==
    ASSUME MarketInv, UNCHANGED <<kind, sessionVars>>,
           offers' \in [OfferIds -> [state : LiquidityOfferState, terms : Terms]]
    PROVE  MarketInv'
<1>1. UNCHANGED <<kind, market, submissions, reservations, quote, outcome>> /\ Sequence' = Sequence
  BY DEF sessionVars, Sequence
<1>2. MarketTypeOK'
  BY <1>1 DEF MarketInv, MarketTypeOK
<1>3. OneBidEach' /\ NothingYet' /\ OutcomeKnown'
  BY <1>1 DEF MarketInv, OneBidEach, ActiveSubmissions, NothingYet, OutcomeKnown
<1>4. FillsServeDemand' /\ ReservationsFollowMarket'
  BY <1>1 DEF MarketInv, FillsServeDemand, ReservationsFollowMarket
<1> QED
  BY <1>2, <1>3, <1>4 DEF MarketInv

\* The offers stay well formed.
LEMMA OfferStepInv ==
    ASSUME MarketInv, OfferStep
    PROVE  MarketInv'
<1> USE DEF LiquidityOfferState
<1>1. offers \in [OfferIds -> [state : LiquidityOfferState, terms : Terms]]
  BY DEF MarketInv, MarketTypeOK
<1>2. PICK o \in Volatile :
         \/ \E terms \in TermSheets[o] : AmendOffer(o, terms)
         \/ \E from, to \in {"ACTIVE", "SUSPENDED", "WITHDRAWN", "EXPIRED"} : \E S : AdvanceOffer(o, S, to)
  BY DEF OfferStep, SuspendOffer, ResumeOffer, WithdrawOffer, ExpireOffer
<1>3. o \in OfferIds
  BY VolatileAssumption
<1>4. ASSUME NEW terms \in TermSheets[o], AmendOffer(o, terms) PROVE MarketInv'
  <2>1. terms \in Terms
    BY <1>3, TermsAssumption
  <2>2. offers' \in [OfferIds -> [state : LiquidityOfferState, terms : Terms]]
    BY <1>1, <1>3, <1>4, <2>1 DEF AmendOffer
  <2> QED
    BY <1>4, <2>2, OutsideStepInv DEF AmendOffer
<1>5. ASSUME NEW S, NEW to \in LiquidityOfferState, AdvanceOffer(o, S, to) PROVE MarketInv'
  <2>1. offers' \in [OfferIds -> [state : LiquidityOfferState, terms : Terms]]
    BY <1>1, <1>3, <1>5 DEF AdvanceOffer
  <2> QED
    BY <1>5, <2>1, OutsideStepInv DEF AdvanceOffer
<1> QED
  BY <1>2, <1>4, <1>5

\* So does all the parties do with the emitted quote.
LEMMA QuoteStepInv ==
    ASSUME MarketInv, QuoteStep
    PROVE  MarketInv'
<1>1. UNCHANGED <<kind, offers, sessionVars>>
  BY DEF QuoteStep, AmendQuote, AcceptQuote, CommitQuote, RejectQuote, VoidQuote, ExpireQuote, AdvanceQuote,
         CommitDeal, ExpireDeal, ReleaseDeal, AdvanceDeal
<1> QED
  BY <1>1, OutsideStepInv DEF MarketInv, MarketTypeOK

\* Submissions come and go while there is nothing yet, one per provider.
LEMMA SubmissionStepInv ==
    ASSUME MarketInv, SubmissionStep
    PROVE  MarketInv'
<1>0. MarketTypeOK /\ OneBidEach /\ NothingYet
  BY DEF MarketInv
<1>1. market = "OPEN" /\ UNCHANGED <<kind, market, offers, reservations, quote, issued, deal, outcome>>
  BY DEF SubmissionStep, Submit, Withdraw, Admit, RejectSubmission, AdvanceSubmission
<1>2. /\ submissions' \in Seq(SubmissionRecord)
      /\ \A i \in Sequence' : submissions'[i].state \notin Won
      /\ OneBidEach'
  <2>1. \A i \in Sequence : submissions[i].state \notin Won
    BY <1>0, <1>1 DEF NothingYet
  <2>2. ASSUME NEW o \in OfferIds, NEW amount \in Amounts, NEW t \in Instants, Submit(o, amount, t)
        PROVE  /\ submissions' \in Seq(SubmissionRecord)
               /\ \A i \in Sequence' : submissions'[i].state \notin Won
               /\ OneBidEach'
    <3> DEFINE r == Submission(o, amount, t)
               n == Len(submissions)
    <3>1. r \in SubmissionRecord /\ r.state = "SUBMITTED" /\ r.offer = o
      <4>1. offers[o] \in [state : LiquidityOfferState, terms : Terms]
        BY <1>0 DEF MarketTypeOK
      <4>2. offers[o].terms.price \in Int /\ offers[o].terms.fee \in Int
        BY <4>1 DEF Terms
      <4>3. amount \in Nat \ {0} /\ t \in Int
        BY AmountsAssumption, InstantsAssumption
      <4> QED
        BY <4>2, <4>3 DEF Submission, SubmissionRecord, SubmissionState
    <3>2. submissions' = Append(submissions, r) /\ ~HasBid(Provider[o])
      BY <2>2 DEF Submit
    <3> HIDE DEF r
    <3>3. /\ n \in Nat /\ Sequence = 1..n /\ Sequence' = 1..(n + 1)
          /\ submissions' \in Seq(SubmissionRecord)
          /\ \A i \in 1..n : submissions'[i] = submissions[i]
          /\ submissions'[n + 1] = r
      BY <1>0, <3>1, <3>2 DEF MarketTypeOK, Sequence
    <3>4. \A i \in Sequence' : i \in Sequence \/ i = n + 1
      BY <3>3
    <3>5. \A i \in Sequence' : submissions'[i].state \notin Won
      BY <2>1, <3>1, <3>3, <3>4 DEF Won
    <3>6. OneBidEach'
      <4> SUFFICES ASSUME NEW i \in ActiveSubmissions', NEW j \in ActiveSubmissions', i # j
                   PROVE  Provider[submissions'[i].offer] # Provider[submissions'[j].offer]
        BY DEF OneBidEach
      <4>1. \A k \in ActiveSubmissions' : (k \in ActiveSubmissions /\ submissions'[k] = submissions[k]) \/ k = n + 1
        BY <3>3, <3>4 DEF ActiveSubmissions
      <4>2. \A k \in ActiveSubmissions : Provider[submissions[k].offer] # Provider[o]
        BY <3>2 DEF HasBid
      <4> QED
        BY <1>0, <3>1, <3>3, <4>1, <4>2 DEF OneBidEach
    <3> QED
      BY <3>3, <3>5, <3>6
  <2>3. ASSUME NEW i \in Sequence, NEW from \in SUBSET ACTIVE_SUBMISSION_STATES,
               NEW to \in {"WITHDRAWN", "ACCEPTED", "REJECTED"}, AdvanceSubmission(i, from, to)
        PROVE  /\ submissions' \in Seq(SubmissionRecord)
               /\ \A k \in Sequence' : submissions'[k].state \notin Won
               /\ OneBidEach'
    <3>1. submissions[i].state \in ACTIVE_SUBMISSION_STATES /\ submissions' = [submissions EXCEPT ![i].state = to]
      BY <2>3 DEF AdvanceSubmission
    <3>2. submissions \in Seq(SubmissionRecord) /\ submissions[i] \in SubmissionRecord
      BY <1>0, SubmissionType DEF MarketTypeOK
    <3>3. [submissions[i] EXCEPT !.state = to] \in SubmissionRecord
      BY <3>2 DEF SubmissionRecord, SubmissionState
    <3>4. /\ submissions' \in Seq(SubmissionRecord) /\ Sequence' = Sequence
          /\ \A k \in Sequence : k # i => submissions'[k] = submissions[k]
          /\ submissions'[i] = [submissions[i] EXCEPT !.state = to]
      BY <3>1, <3>2, <3>3 DEF Sequence
    <3>5. submissions'[i].state = to /\ submissions'[i].offer = submissions[i].offer
      BY <3>2, <3>4 DEF SubmissionRecord
    <3>6. \A k \in Sequence : submissions'[k].offer = submissions[k].offer
      BY <3>4, <3>5
    <3>7. ActiveSubmissions' \subseteq ActiveSubmissions
      BY <3>1, <3>4 DEF ActiveSubmissions
    <3>8. OneBidEach'
      BY <1>0, <3>6, <3>7 DEF OneBidEach, ActiveSubmissions
    <3>9. \A k \in Sequence' : submissions'[k].state \notin Won
      BY <2>1, <3>4, <3>5 DEF Won
    <3> QED
      BY <3>4, <3>8, <3>9
  <2> QED
    BY <2>2, <2>3 DEF SubmissionStep, Withdraw, Admit, RejectSubmission, ACTIVE_SUBMISSION_STATES
<1>3. MarketTypeOK'
  BY <1>0, <1>1, <1>2 DEF MarketTypeOK
<1>4. outcome' = None /\ quote' = None /\ reservations' = << >> /\ market' = "OPEN"
  BY <1>0, <1>1 DEF NothingYet
<1>5. NothingYet' /\ OutcomeKnown' /\ FillsServeDemand'
  BY <1>2, <1>4 DEF NothingYet, OutcomeKnown, FillsServeDemand
<1>6. ReservationsFollowMarket'
  BY <1>2, <1>4 DEF ReservationsFollowMarket
<1> QED
  BY <1>2, <1>3, <1>5, <1>6 DEF MarketInv

-----------------------------------------------------------------------------
(* The phases. *)

\* Answering the submissions changes nothing of them but their states: the
\* filled ones have won, an admitted one without a fill is unallocated.
LEMMA AnsweredStates ==
    ASSUME MarketTypeOK, NEW F, submissions' = Answered(F)
    PROVE  /\ submissions' \in Seq(SubmissionRecord) /\ Sequence' = Sequence
           /\ \A i \in Sequence :
                 /\ submissions'[i].offer = submissions[i].offer
                 /\ submissions'[i].amount = submissions[i].amount
                 /\ submissions'[i].price = submissions[i].price
                 /\ i \in DOMAIN F => submissions'[i].state \in Won
                 /\ i \in DOMAIN F /\ F[i] = submissions[i].amount => submissions'[i].state = "ALLOCATED_FULL"
                 /\ i \notin DOMAIN F =>
                       submissions'[i].state = IF submissions[i].state = "ACCEPTED" THEN "UNALLOCATED"
                                               ELSE submissions[i].state
<1> DEFINE n == Len(submissions)
           st == [i \in Sequence |->
                    IF i \in DOMAIN F
                    THEN IF F[i] = submissions[i].amount THEN "ALLOCATED_FULL" ELSE "ALLOCATED_PARTIAL"
                    ELSE IF submissions[i].state = "ACCEPTED" THEN "UNALLOCATED" ELSE submissions[i].state]
<1>1. n \in Nat /\ Sequence = 1..n
  BY DEF MarketTypeOK, Sequence
<1>2. \A i \in Sequence : submissions[i] \in SubmissionRecord
  BY SubmissionType
<1>3. \A i \in Sequence : st[i] \in SubmissionState
  BY <1>2 DEF SubmissionRecord, SubmissionState
<1>4. submissions' = [i \in Sequence |-> [submissions[i] EXCEPT !.state = st[i]]]
  <2>1. \A i \in Sequence :
           st[i] = CASE i \in DOMAIN F /\ F[i] = submissions[i].amount -> "ALLOCATED_FULL"
                     [] i \in DOMAIN F /\ F[i] # submissions[i].amount -> "ALLOCATED_PARTIAL"
                     [] i \notin DOMAIN F /\ submissions[i].state = "ACCEPTED" -> "UNALLOCATED"
                     [] OTHER -> submissions[i].state
    OBVIOUS
  <2> HIDE DEF st
  <2> QED
    BY <2>1 DEF Answered
<1>5. /\ \A i \in Sequence : i \in DOMAIN F => st[i] \in Won
      /\ \A i \in Sequence : i \in DOMAIN F /\ F[i] = submissions[i].amount => st[i] = "ALLOCATED_FULL"
      /\ \A i \in Sequence : i \notin DOMAIN F =>
            st[i] = IF submissions[i].state = "ACCEPTED" THEN "UNALLOCATED" ELSE submissions[i].state
  BY DEF Won
<1> HIDE DEF st
<1>6. \A i \in Sequence :
         /\ [submissions[i] EXCEPT !.state = st[i]] \in SubmissionRecord
         /\ submissions'[i] = [submissions[i] EXCEPT !.state = st[i]]
  BY <1>2, <1>3, <1>4 DEF SubmissionRecord
<1>7. submissions' \in [1..n -> SubmissionRecord]
  BY <1>1, <1>4, <1>6
<1>8. submissions' \in Seq(SubmissionRecord) /\ Len(submissions') = n
  BY <1>1, <1>7
<1>9. \A i \in Sequence :
         /\ submissions'[i].offer = submissions[i].offer
         /\ submissions'[i].amount = submissions[i].amount
         /\ submissions'[i].price = submissions[i].price
         /\ submissions'[i].state = st[i]
  BY <1>2, <1>6 DEF SubmissionRecord
<1> QED
  BY <1>1, <1>5, <1>8, <1>9 DEF Sequence

\* An allocation keeps one active submission per provider.
LEMMA AnsweredOneBid ==
    ASSUME MarketTypeOK, OneBidEach, NEW F, submissions' = Answered(F)
    PROVE  OneBidEach'
<1>1. /\ Sequence' = Sequence
      /\ \A i \in Sequence :
            /\ submissions'[i].offer = submissions[i].offer
            /\ i \in DOMAIN F => submissions'[i].state \in Won
            /\ i \notin DOMAIN F =>
                  submissions'[i].state = IF submissions[i].state = "ACCEPTED" THEN "UNALLOCATED"
                                          ELSE submissions[i].state
  BY AnsweredStates
<1>2. ActiveSubmissions' \subseteq ActiveSubmissions
  BY <1>1 DEF ActiveSubmissions, ACTIVE_SUBMISSION_STATES, Won
<1> QED
  BY <1>1, <1>2 DEF OneBidEach, ActiveSubmissions

\* An eligible submission is an admitted one.
LEMMA EligibleActive ==
    ASSUME NEW i \in Eligible
    PROVE  i \in Sequence /\ i \in ActiveSubmissions
BY DEF Eligible, EligibleSubmission, ActiveSubmissions, ACTIVE_SUBMISSION_STATES

\* Opening, closing, cancelling, and an allocation the engine refuses.
LEMMA AdvanceMarketInv ==
    ASSUME MarketInv, NEW from, NEW to \in {"OPEN", "CLOSED", "CANCELLED", "ALLOCATED"},
           from \subseteq {"CREATED", "OPEN", "CLOSED"}, AdvanceMarket(from, to)
    PROVE  MarketInv'
<1>1. /\ market \in {"CREATED", "OPEN", "CLOSED"} /\ market' = to
      /\ UNCHANGED <<kind, offers, submissions, reservations, quote, issued, deal, outcome>>
  BY DEF AdvanceMarket
<1>2. /\ outcome = None /\ quote = None /\ reservations = << >>
      /\ \A i \in Sequence : submissions[i].state \notin Won
  BY <1>1 DEF MarketInv, NothingYet
<1>3. MarketTypeOK' /\ OneBidEach' /\ NothingYet' /\ OutcomeKnown' /\ Sequence' = Sequence
  BY <1>1, <1>2 DEF MarketInv, MarketTypeOK, MarketState, OneBidEach, ActiveSubmissions, Sequence, NothingYet,
                    OutcomeKnown
<1>4. FillsServeDemand'
  BY <1>1, <1>2 DEF FillsServeDemand
<1>5. ReservationsFollowMarket'
  BY <1>1, <1>2, <1>3 DEF ReservationsFollowMarket
<1> QED
  BY <1>3, <1>4, <1>5 DEF MarketInv

\* The batch auction: the winners are the reservations, and a provider that was
\* admitted once has won once.
LEMMA AllocateBatchInv ==
    ASSUME MarketInv, NEW d \in Demands, NEW t \in Instants, AllocateBatch(d, t)
    PROVE  MarketInv'
<1>0. MarketTypeOK /\ OneBidEach /\ NothingYet
  BY DEF MarketInv
<1>1. /\ kind = "BATCH_AUCTION" /\ market = "CLOSED" /\ market' = "ALLOCATED" /\ outcome' = BatchOutcome(d)
      /\ submissions' = Answered(outcome'.fills)
      /\ reservations' = [i \in DOMAIN outcome'.fills |-> Reservation(outcome'.fills[i], t, t + HoldTime)]
      /\ UNCHANGED <<kind, offers, quote, issued, deal>>
  BY DEF AllocateBatch
<1>2. PICK out : out = BatchOutcome(d)
  OBVIOUS
<1>3. PICK F : F = out.fills
  OBVIOUS
<1>4. outcome' = out /\ submissions' = Answered(F)
      /\ reservations' = [i \in DOMAIN F |-> Reservation(F[i], t, t + HoldTime)]
  BY <1>1, <1>2, <1>3
<1>5. F = NoFills \/ Serves(out)
  BY <1>0, <1>2, <1>3, BatchServes
<1>6. DOMAIN F \in SUBSET Eligible
  BY <1>3, <1>5 DEF NoFills, Serves
<1>7. \A i \in DOMAIN F : i \in Sequence /\ i \in ActiveSubmissions
  BY <1>6, EligibleActive
<1>8. quote' = None /\ \A i \in Sequence : submissions[i].state \notin Won
  BY <1>0, <1>1 DEF NothingYet
<1>9. /\ submissions' \in Seq(SubmissionRecord) /\ Sequence' = Sequence
      /\ \A i \in Sequence :
            /\ submissions'[i].offer = submissions[i].offer
            /\ submissions'[i].amount = submissions[i].amount
            /\ submissions'[i].price = submissions[i].price
            /\ i \in DOMAIN F => submissions'[i].state \in Won
            /\ i \notin DOMAIN F =>
                  submissions'[i].state = IF submissions[i].state = "ACCEPTED" THEN "UNALLOCATED"
                                          ELSE submissions[i].state
  BY <1>0, <1>4, AnsweredStates
<1>10. MarketTypeOK' /\ OneBidEach' /\ NothingYet'
  <2>1. OneBidEach'
    BY <1>0, <1>4, AnsweredOneBid
  <2> QED
    BY <1>0, <1>1, <1>9, <2>1 DEF MarketTypeOK, MarketState, NothingYet
<1>11. OutcomeKnown'
  <2>1. \A i \in DOMAIN reservations' : {"state", "amount"} \subseteq DOMAIN reservations'[i]
    BY <1>4 DEF Reservation
  <2> QED
    BY <1>3, <1>4, <1>7, <1>8, <1>9, <2>1 DEF OutcomeKnown
<1>12. FillsServeDemand'
  <2> SUFFICES ASSUME outcome' # None, F # NoFills
               PROVE  /\ out.demand.min <= SumFunction(F) /\ SumFunction(F) <= out.demand.max
                      /\ \A i \in DOMAIN F : F[i] <= submissions'[i].amount /\ submissions'[i].price <= out.price
    BY <1>1, <1>3, <1>4 DEF FillsServeDemand
  <2> QED
    BY <1>3, <1>5, <1>7, <1>9 DEF Serves
<1>13. ReservationsFollowMarket'
  <2>1. DOMAIN reservations' = DOMAIN F
    BY <1>4
  <2>2. DOMAIN F = {i \in Sequence' : submissions'[i].state \in Won}
    BY <1>7, <1>8, <1>9 DEF Won
  <2>3. \A i, j \in DOMAIN F : i # j => Provider[submissions'[i].offer] # Provider[submissions'[j].offer]
    BY <1>0, <1>7, <1>9 DEF OneBidEach
  <2>4. \A i \in DOMAIN F : reservations'[i].amount = outcome'.fills[i] /\ reservations'[i].state = "RESERVED"
    BY <1>3, <1>4 DEF Reservation
  <2>5. \A i \in DOMAIN F :
           /\ reservations'[i].amount = outcome'.fills[i]
           /\ CASE market' = "ALLOCATED" -> reservations'[i].state = "RESERVED"
                [] market' = "ACCEPTED" -> reservations'[i].state = "COMMITTED"
                [] market' = "REJECTED" -> reservations'[i].state = "RELEASED"
    BY <1>1, <2>4
  <2>6. /\ DOMAIN reservations' = {i \in Sequence' : submissions'[i].state \in Won}
        /\ \A i, j \in DOMAIN reservations' :
              i # j => Provider[submissions'[i].offer] # Provider[submissions'[j].offer]
    BY <2>1, <2>2, <2>3
  <2> QED
    BY <2>1, <2>5, <2>6, Zenon DEF ReservationsFollowMarket
<1> QED
  BY <1>10, <1>11, <1>12, <1>13 DEF MarketInv

\* The RFQ: the outcome is kept only when the winner's quote could be made, and
\* that quote promises the fill at the winner's price.
LEMMA AllocateRfqInv ==
    ASSUME MarketInv, NEW d \in Demands, NEW t \in Instants, AllocateRfq(d, t)
    PROVE  MarketInv'
<1>0. MarketTypeOK /\ OneBidEach /\ NothingYet
  BY DEF MarketInv
<1>1. PICK out : out = RfqOutcome(d)
  OBVIOUS
<1>2. PICK F : F = out.fills
  OBVIOUS
<1> DEFINE firm(i) == FirmQuote(d, i, F[i], t)
           quotes == {firm(i) : i \in {w \in DOMAIN F : Quotable(firm(w), submissions[w].offer)}}
<1>3. /\ kind = "RFQ" /\ market = "CLOSED" /\ market' = "ALLOCATED"
      /\ submissions' = Answered(F)
      /\ outcome' = IF quotes = {} /\ DOMAIN F # {} THEN None ELSE out
      /\ quote' = IF quotes = {} THEN None ELSE CHOOSE q \in quotes : TRUE
      /\ UNCHANGED <<kind, offers, reservations, deal>>
  BY <1>1, <1>2 DEF AllocateRfq
<1>4. /\ out.demand = d
      /\ \/ F = NoFills
         \/ \E best \in Eligible :
               /\ F = [i \in {best} |-> Min({d.max, submissions[i].amount})]
               /\ out.price = submissions[best].price
               /\ Serves(out)
  BY <1>0, <1>1, <1>2, RfqServes
<1>5. DOMAIN F \in SUBSET Eligible
  <2>1. CASE F = NoFills
    BY <2>1 DEF NoFills
  <2>2. CASE F # NoFills
    <3>1. PICK best \in Eligible : F = [i \in {best} |-> Min({d.max, submissions[i].amount})]
      BY <1>4, <2>2
    <3>2. DOMAIN F = {best}
      BY <3>1
    <3> QED
      BY <3>2
  <2> QED
    BY <2>1, <2>2
<1>6. \A i \in DOMAIN F : i \in Sequence
  BY <1>5, EligibleActive
<1>7. \A q \in quotes : \E i \in DOMAIN F :
         q.state = "FIRM" /\ "state" \in DOMAIN q /\ q.price = submissions[i].price /\ q.max = Min({d.max, F[i]})
  <2> TAKE q \in quotes
  <2>1. PICK i \in DOMAIN F : q = FirmQuote(d, i, F[i], t)
    OBVIOUS
  <2> QED
    BY <2>1 DEF FirmQuote
<1> HIDE DEF quotes, firm
<1>8. quote' = None \/ quote' \in quotes
  BY <1>3
<1>9. /\ submissions' \in Seq(SubmissionRecord) /\ Sequence' = Sequence
      /\ \A i \in Sequence :
            /\ submissions'[i].amount = submissions[i].amount
            /\ submissions'[i].price = submissions[i].price
  BY <1>0, <1>3, AnsweredStates
<1>10. MarketTypeOK' /\ OneBidEach' /\ NothingYet' /\ ReservationsFollowMarket'
  <2>1. OneBidEach'
    BY <1>0, <1>3, AnsweredOneBid
  <2>2. ReservationsFollowMarket'
    BY <1>3 DEF ReservationsFollowMarket
  <2> QED
    BY <1>0, <1>3, <1>9, <2>1, <2>2 DEF MarketTypeOK, MarketState, NothingYet
<1>11. OutcomeKnown'
  <2>1. reservations' = << >>
    BY <1>0, <1>3 DEF NothingYet
  <2>2. outcome' = None \/ outcome' = out
    BY <1>3
  <2>3. outcome' # None => DOMAIN outcome'.fills \subseteq Sequence'
    BY <1>2, <1>6, <1>9, <2>2
  <2>4. quote' # None => "state" \in DOMAIN quote'
    BY <1>7, <1>8
  <2>5. \A i \in DOMAIN reservations' : {"state", "amount"} \subseteq DOMAIN reservations'[i]
    BY <2>1
  <2> QED
    BY <2>3, <2>4, <2>5 DEF OutcomeKnown
<1>12. FillsServeDemand'
  <2>1. CASE outcome' = None \/ outcome'.fills = NoFills
    BY <2>1 DEF FillsServeDemand
  <2>2. CASE outcome' # None /\ outcome'.fills # NoFills
    <3>1. outcome' = out /\ F # NoFills
      BY <1>2, <1>3, <2>2
    <3>2. PICK best \in Eligible :
             /\ F = [i \in {best} |-> Min({d.max, submissions[i].amount})]
             /\ out.price = submissions[best].price
             /\ Serves(out)
      BY <1>4, <3>1
    <3>3. DOMAIN F = {best} /\ F[best] = Min({d.max, submissions[best].amount})
      BY <3>2
    <3>4. quotes # {}
      BY <1>3, <2>2, <3>3
    <3>5. quote' \in quotes
      BY <1>3, <3>4
    <3>6. quote'.price = submissions[best].price /\ quote'.max = Min({d.max, F[best]})
      BY <1>7, <3>3, <3>5
    <3>7. F[best] \in Int /\ d.max \in Int
      <4>1. submissions[best].amount \in Int /\ d.max \in Int
        BY <1>0, <1>6, <3>3, SubmissionType, DemandsAssumption
      <4> QED
        BY <3>3, <4>1, MinOfTwo
    <3>8. quote'.max <= F[best]
      BY <3>6, <3>7, MinOfTwo
    <3>9. /\ out.demand.min <= SumFunction(F) /\ SumFunction(F) <= out.demand.max
          /\ \A i \in DOMAIN F : F[i] <= submissions'[i].amount /\ submissions'[i].price <= out.price
          /\ \A i \in DOMAIN F : quote'.max <= F[i] /\ quote'.price = out.price
      BY <1>2, <1>6, <1>9, <3>2, <3>3, <3>6, <3>8 DEF Serves
    <3> QED
      BY <1>2, <3>1, <3>9 DEF FillsServeDemand
  <2> QED
    BY <2>1, <2>2
<1> QED
  BY <1>10, <1>11, <1>12 DEF MarketInv

\* Accepting and rejecting a batch settles every reservation in one way.
LEMMA AnswerBatchInv ==
    ASSUME MarketInv, (\E t \in Instants : AcceptBatch(t)) \/ RejectBatch
    PROVE  MarketInv'
<1>1. PICK to \in {"COMMITTED", "RELEASED"} :
         /\ kind = "BATCH_AUCTION" /\ market = "ALLOCATED" /\ reservations' = Settled(to)
         /\ market' = IF to = "COMMITTED" THEN "ACCEPTED" ELSE "REJECTED"
         /\ \A i \in DOMAIN reservations : reservations[i].state = "RESERVED"
         /\ UNCHANGED <<kind, offers, submissions, quote, issued, deal, outcome>>
  BY DEF AcceptBatch, RejectBatch
<1>2. MarketTypeOK' /\ OneBidEach' /\ NothingYet' /\ OutcomeKnown' /\ Sequence' = Sequence
  BY <1>1 DEF MarketInv, MarketTypeOK, MarketState, OneBidEach, ActiveSubmissions, Sequence, NothingYet,
              OutcomeKnown
<1>3. FillsServeDemand'
  BY <1>1 DEF MarketInv, FillsServeDemand
<1>4. /\ DOMAIN reservations = {i \in Sequence : submissions[i].state \in Won}
      /\ \A i, j \in DOMAIN reservations :
            i # j => Provider[submissions[i].offer] # Provider[submissions[j].offer]
      /\ \A i \in DOMAIN reservations : reservations[i].amount = outcome.fills[i]
  BY <1>1, Zenon DEF MarketInv, ReservationsFollowMarket
<1>5. DOMAIN reservations' = DOMAIN reservations
  BY <1>1 DEF Settled
<1>6. \A i \in DOMAIN reservations :
         reservations'[i].amount = reservations[i].amount /\ reservations'[i].state = to
  <2>1. \A i \in DOMAIN reservations : {"state", "amount"} \subseteq DOMAIN reservations[i]
    BY <1>1 DEF MarketInv, OutcomeKnown
  <2>2. \A i \in DOMAIN reservations : reservations'[i] = [reservations[i] EXCEPT !.state = to]
    BY <1>1 DEF Settled
  <2> QED
    BY <2>1, <2>2
<1>7. ReservationsFollowMarket'
  <2>1. \A i \in DOMAIN reservations' :
           /\ reservations'[i].amount = outcome'.fills[i]
           /\ CASE market' = "ALLOCATED" -> reservations'[i].state = "RESERVED"
                [] market' = "ACCEPTED" -> reservations'[i].state = "COMMITTED"
                [] market' = "REJECTED" -> reservations'[i].state = "RELEASED"
    BY <1>1, <1>4, <1>5, <1>6
  <2>2. /\ DOMAIN reservations' = {i \in Sequence' : submissions'[i].state \in Won}
        /\ \A i, j \in DOMAIN reservations' :
              i # j => Provider[submissions'[i].offer] # Provider[submissions'[j].offer]
    BY <1>1, <1>2, <1>4, <1>5
  <2> QED
    BY <2>1, <2>2, Zenon DEF ReservationsFollowMarket
<1> QED
  BY <1>2, <1>3, <1>7 DEF MarketInv

\* Once accepted or rejected, an RFQ's session keeps no firm quote.
LEMMA AnswerRfqInv ==
    ASSUME MarketInv, (\E q : AcceptRfq(q)) \/ RejectRfq
    PROVE  MarketInv'
<1>1. /\ kind = "RFQ" /\ market = "ALLOCATED" /\ market' \in {"ACCEPTED", "REJECTED"}
      /\ UNCHANGED <<kind, offers, submissions, reservations, issued, deal, outcome>>
  BY DEF AcceptRfq, RejectRfq
<1>2. MarketTypeOK' /\ OneBidEach' /\ NothingYet' /\ OutcomeKnown' /\ Sequence' = Sequence
  BY <1>1 DEF MarketInv, MarketTypeOK, MarketState, OneBidEach, ActiveSubmissions, Sequence, NothingYet,
              OutcomeKnown
<1>3. ReservationsFollowMarket'
  BY <1>1 DEF ReservationsFollowMarket
<1>4. quote' = quote \/ quote'.state # "FIRM"
  <2>1. quote # None => "state" \in DOMAIN quote
    BY <1>1 DEF MarketInv, OutcomeKnown
  <2> QED
    BY <2>1 DEF AcceptRfq, RejectRfq
<1>5. FillsServeDemand'
  BY <1>1, <1>4 DEF MarketInv, FillsServeDemand
<1> QED
  BY <1>2, <1>3, <1>5 DEF MarketInv

\* Every phase of the market keeps the invariant.
LEMMA PhaseStepInv ==
    ASSUME MarketInv, PhaseStep
    PROVE  MarketInv'
<1>1. ASSUME NEW t \in Instants, Open(t) \/ Close(t) PROVE MarketInv'
  BY <1>1, AdvanceMarketInv DEF Open, Close
<1>2. ASSUME Cancel PROVE MarketInv'
  BY <1>2, AdvanceMarketInv DEF Cancel
<1>3. ASSUME NEW d \in Demands, AllocateRaises(d) PROVE MarketInv'
  BY <1>3, AdvanceMarketInv DEF AllocateRaises
<1>4. ASSUME NEW d \in Demands, NEW t \in Instants, AllocateBatch(d, t) \/ AllocateRfq(d, t) PROVE MarketInv'
  BY <1>4, AllocateBatchInv, AllocateRfqInv
<1>5. ASSUME NEW q, AcceptRfq(q) PROVE MarketInv'
  BY <1>5, AnswerRfqInv
<1> QED
  BY <1>1, <1>2, <1>3, <1>4, <1>5, AnswerBatchInv, AnswerRfqInv DEF PhaseStep

\* The invariant of the session: types, one active submission per provider,
\* nothing given out before the allocation, and the two properties below.
THEOREM MarketInvariance == Spec => []MarketInv
<1>1. ASSUME MarketInv, [Next]_vars PROVE MarketInv'
  <2>1. ASSUME UNCHANGED vars PROVE MarketInv'
    <3>1. UNCHANGED <<kind, sessionVars>> /\ offers' \in [OfferIds -> [state : LiquidityOfferState, terms : Terms]]
      BY <1>1, <2>1 DEF vars, MarketInv, MarketTypeOK
    <3> QED
      BY <1>1, <3>1, OutsideStepInv
  <2> QED
    BY <1>1, <2>1, OfferStepInv, SubmissionStepInv, PhaseStepInv, QuoteStepInv DEF Next
<1> QED
  BY <1>1, MarketInitInv, PTL DEF Spec

\* Whatever was offered, admitted and demanded, an allocation gives the demand
\* an amount it asked for, takes from no submission more than it offered, pays
\* none less than it asked, and quotes no more than it filled.
THEOREM AllocationsServeDemands == Spec => []FillsServeDemand
<1>1. MarketInv => FillsServeDemand
  BY DEF MarketInv
<1> QED
  BY <1>1, MarketInvariance, PTL

\* The reservations of a batch are its winners', one per provider, and are
\* committed or released together with the market.
THEOREM WinnersHoldReservations == Spec => []ReservationsFollowMarket
<1>1. MarketInv => ReservationsFollowMarket
  BY DEF MarketInv
<1> QED
  BY <1>1, MarketInvariance, PTL

-----------------------------------------------------------------------------
(* Price-time priority. *)

\* What an allocation owes to the submissions ranked before a filled one.
Priority(i) ==
    /\ i \in Eligible
    /\ \A j \in Eligible :
          RankedBefore(j, i) =>
             IF kind = "RFQ" THEN submissions[j].amount < outcome'.demand.min
             ELSE j \in Flagged \/ submissions'[j].state = "ALLOCATED_FULL"

\* The batch auction fills what is ahead of a filled submission whole.
LEMMA BatchPriority ==
    ASSUME MarketInv, NEW d \in Demands, NEW t \in Instants, AllocateBatch(d, t), NEW i \in DOMAIN outcome'.fills
    PROVE  Priority(i)
<1>1. MarketTypeOK /\ kind = "BATCH_AUCTION" /\ outcome' = BatchOutcome(d) /\ submissions' = Answered(outcome'.fills)
  BY DEF MarketInv, AllocateBatch
<1>2. PICK F : F = Fills(d)
  OBVIOUS
<1>3. outcome'.fills = F
  BY <1>1, <1>2, BatchServes DEF NoFills
<1>4. i \in DOMAIN F /\ submissions' = Answered(F)
  BY <1>1, <1>3
<1>5. i \in Batch /\ \A j \in Ahead(i) : j \in DOMAIN F /\ F[j] = submissions[j].amount
  BY <1>1, <1>2, <1>4, FilledAhead
<1>6. i \in Eligible
  BY <1>5 DEF Batch
<1>7. ASSUME NEW j \in Eligible, RankedBefore(j, i), j \notin Flagged
      PROVE  submissions'[j].state = "ALLOCATED_FULL"
  <2>1. j \in Ahead(i)
    BY <1>7 DEF Ahead, Batch
  <2>2. j \in Sequence
    BY EligibleActive
  <2> QED
    BY <1>1, <1>4, <1>5, <2>1, <2>2, AnsweredStates
<1> QED
  BY <1>1, <1>6, <1>7 DEF Priority

\* The RFQ passes by only submissions too small for the demand.
LEMMA RfqPriority ==
    ASSUME MarketInv, NEW d \in Demands, NEW t \in Instants, AllocateRfq(d, t),
           outcome' # None, NEW i \in DOMAIN outcome'.fills
    PROVE  Priority(i)
<1>1. MarketTypeOK /\ kind = "RFQ" /\ outcome' = RfqOutcome(d)
  BY DEF MarketInv, AllocateRfq
<1>2. outcome'.demand = d
  BY <1>1, RfqServes
<1>3. outcome'.fills # NoFills
  BY DEF NoFills
<1>4. PICK best \in Eligible :
         /\ outcome'.fills = [k \in {best} |-> Min({d.max, submissions[k].amount})]
         /\ \A j \in Eligible : RankedBefore(j, best) => submissions[j].amount < d.min
  BY <1>1, <1>3, RfqServes
<1>5. i = best
  BY <1>4
<1> QED
  BY <1>1, <1>2, <1>4, <1>5 DEF Priority

\* Price-time priority, for any ranking that can arise: only submissions their
\* offers still back are filled, and none of them is passed by in favour of one
\* with a worse price, fee, instant or sequence, but for a flagged one, or one an
\* RFQ could not use.
THEOREM AllocationsKeepPriority == Spec => PriceTimePriority
<1>1. ASSUME MarketInv, [Next]_vars, outcome = None, outcome' # None, NEW i \in DOMAIN outcome'.fills
      PROVE  Priority(i)
  <2>1. \E d \in Demands, t \in Instants : AllocateBatch(d, t) \/ AllocateRfq(d, t)
    <3>1. outcome' # outcome
      BY <1>1
    <3>2. ASSUME OfferStep \/ SubmissionStep \/ QuoteStep \/ UNCHANGED vars PROVE outcome' = outcome
      BY <3>2 DEF OfferStep, AmendOffer, SuspendOffer, ResumeOffer, WithdrawOffer, ExpireOffer, AdvanceOffer,
                  SubmissionStep, Submit, Withdraw, Admit, RejectSubmission, AdvanceSubmission,
                  QuoteStep, AmendQuote, AcceptQuote, CommitQuote, RejectQuote, VoidQuote, ExpireQuote, AdvanceQuote,
                  CommitDeal, ExpireDeal, ReleaseDeal, AdvanceDeal, vars, sessionVars
    <3>3. PhaseStep
      BY <1>1, <3>1, <3>2 DEF Next
    <3> QED
      BY <3>1, <3>3 DEF PhaseStep, Open, Close, Cancel, AllocateRaises, AdvanceMarket, AcceptBatch, RejectBatch,
                        AcceptRfq, RejectRfq
  <2> QED
    BY <1>1, <2>1, BatchPriority, RfqPriority
<1>2. ASSUME MarketInv, [Next]_vars
      PROVE  outcome = None /\ outcome' # None =>
                \A i \in DOMAIN outcome'.fills :
                   /\ i \in Standing
                   /\ \A j \in {e \in Standing :
                                LET s == submissions[i]
                                    u == submissions[e]
                                IN  \/ u.price < s.price
                                    \/ u.price = s.price /\ u.fee < s.fee
                                    \/ u.price = s.price /\ u.fee = s.fee /\ u.at < s.at
                                    \/ u.price = s.price /\ u.fee = s.fee /\ u.at = s.at /\ e < i} :
                        IF kind = "RFQ" THEN submissions[j].amount < outcome'.demand.min
                        ELSE j \in Flagged \/ submissions'[j].state = "ALLOCATED_FULL"
  <2>1. Standing = Eligible
    BY DEF Standing, Eligible, EligibleSubmission, Bracketed
  <2> QED BY <1>1, <1>2, <2>1 DEF Priority, RankedBefore
<1> QED
  BY <1>2, MarketInvariance, PTL DEF Spec, PriceTimePriority

=============================================================================
