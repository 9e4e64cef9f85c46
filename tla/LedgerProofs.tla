----------------------------- MODULE LedgerProofs -----------------------------
(***************************************************************************)
(* The books of the value ledger and of the settlement domain.             *)
(*                                                                         *)
(* The ledger, for every set of accounts, assets, journals, holds and      *)
(* entries, and any number of postings.  LedgerInv is inductive: type      *)
(* correctness says what a hold's amount is, which the effects of hold     *)
(* movements need; the two safety invariants then follow from the posting  *)
(* guards, because a posting changes no account it does not touch.  That   *)
(* the books balance, and that what the holds hold is what the encumbered  *)
(* views show, is about sums over all accounts and all holds (module Sums).*)
(*                                                                         *)
(* Settlement, for every set of obligations, batches and cases and every   *)
(* length of the observation lists.  SettleInv adds to the properties what *)
(* each kind of record says on its own (RecordsCoherent), that the store of*)
(* the kernel knows every record (StoreKnows), and how certificates and    *)
(* cases hang together with the settled legs.                              *)
(***************************************************************************)
EXTENDS ValueLedger, Settlement, Sums, SequenceTheorems, TLAPS

LedgerInv ==
    /\ LedgerTypeOK
    /\ SafeguardedNonNegative
    /\ ClosedAccountsEmpty

\* A new ledger satisfies the invariant.
LEMMA LedgerInitInv == LedgerInit => LedgerInv
<1> SUFFICES ASSUME LedgerInit PROVE LedgerInv
  OBVIOUS
<1>1. LedgerTypeOK
  BY DEF LedgerInit, LedgerTypeOK
<1>2. SafeguardedNonNegative
  BY SafeguardedAssumption DEF LedgerInit, SafeguardedNonNegative, Total, LEDGER_VIEWS
<1>3. ClosedAccountsEmpty
  BY DEF LedgerInit, ClosedAccountsEmpty
<1> QED BY <1>1, <1>2, <1>3 DEF LedgerInv

\* The effect of a hold movement is an effect.
LEMMA MovementType ==
    ASSUME NEW a \in Accounts, NEW n \in Int
    PROVE  Movement(a, n) \in Effect
  BY DEF Movement, Effect, Oriented

\* So is the mirror of an effect.
LEMMA MirroredType ==
    ASSUME NEW e \in Effect
    PROVE  Mirrored(e) \in Effect
  BY DEF Mirrored, Effect

\* A recorded posting keeps the journal and the balances well typed, keeps
\* safeguarded totals non-negative and leaves closed accounts alone.
LEMMA RecordPostingInv ==
    ASSUME LedgerInv, NEW j \in Journals, NEW e \in Effect, NEW h \in Holds \cup {NoHold},
           NEW r \in Nat, NEW S, RecordPosting(j, e, h, r, S)
    PROVE  /\ postings' \in Seq(Posting)
           /\ views' \in [Accounts -> [LEDGER_VIEWS -> Int]]
           /\ SafeguardedNonNegative'
           /\ \A a \in Accounts : account[a] = "CLOSED" => views'[a] = views[a]
<1> USE DEF LedgerInv
<1>1. postings' \in Seq(Posting)
  <2>1. [journal |-> j, effect |-> e, hold |-> h, reverses |-> r] \in Posting
    BY DEF Posting
  <2> QED BY <2>1 DEF RecordPosting, LedgerTypeOK
<1>2. \A a \in Accounts : \A v \in LEDGER_VIEWS :
          /\ views[a][v] \in Int
          /\ e[a][v] \in Int
          /\ views'[a][v] = views[a][v] + Oriented(a, e[a][v])
  BY DEF RecordPosting, LedgerTypeOK, Effect
<1>3. views' \in [Accounts -> [LEDGER_VIEWS -> Int]]
  BY DEF RecordPosting, LedgerTypeOK, Effect, Oriented
<1>4. \A a \in Accounts : a \notin Touched(e) => views'[a] = views[a]
  <2> SUFFICES ASSUME NEW a \in Accounts, a \notin Touched(e) PROVE views'[a] = views[a]
    OBVIOUS
  <2>1. \A v \in LEDGER_VIEWS : views'[a][v] = views[a][v]
    BY <1>2 DEF Touched, Oriented
  <2> QED BY <1>3, <2>1 DEF LedgerTypeOK
<1>5. SafeguardedNonNegative'
  <2> SUFFICES ASSUME NEW a \in Safeguarded PROVE Total(views'[a]) >= 0
    BY DEF SafeguardedNonNegative
  <2>1. CASE a \notin Touched(e)
    BY <2>1, <1>4, SafeguardedAssumption DEF SafeguardedNonNegative
  <2>2. CASE a \in Touched(e)
    <3>1. Total(views[a]) + Oriented(a, Total(e[a])) >= 0
      BY <2>2 DEF RecordPosting, PostingGuards, Safeguard
    <3>2. Total(views'[a]) = Total(views[a]) + Oriented(a, Total(e[a]))
      BY <1>2, SafeguardedAssumption DEF Total, Oriented, LEDGER_VIEWS
    <3> QED BY <3>1, <3>2
  <2> QED BY <2>1, <2>2
<1>6. \A a \in Accounts : account[a] = "CLOSED" => a \notin Touched(e)
  BY DEF RecordPosting, PostingGuards
<1> QED BY <1>1, <1>3, <1>4, <1>5, <1>6

\* An operation that records a posting, keeps accounts as they are and makes no
\* hold active on a closed account preserves the invariant.
LEMMA PostingStepInv ==
    ASSUME LedgerInv, NEW j \in Journals, NEW e \in Effect, NEW h \in Holds \cup {NoHold},
           NEW r \in Nat, NEW S, RecordPosting(j, e, h, r, S),
           UNCHANGED <<asset, account, journal, verdict>>,
           holds' \in [Holds -> Hold \cup {NotCreated}],
           \A g \in Holds : holds'[g].state = "ACTIVE" =>
               \/ holds[g].state = "ACTIVE" /\ holds'[g].account = holds[g].account
               \/ account[holds'[g].account] # "CLOSED"
    PROVE  LedgerInv'
<1>1. /\ postings' \in Seq(Posting)
      /\ views' \in [Accounts -> [LEDGER_VIEWS -> Int]]
      /\ SafeguardedNonNegative'
      /\ \A a \in Accounts : account[a] = "CLOSED" => views'[a] = views[a]
  BY RecordPostingInv
<1>2. LedgerTypeOK'
  BY <1>1 DEF LedgerInv, LedgerTypeOK
<1>3. ClosedAccountsEmpty'
  <2> SUFFICES ASSUME NEW a \in Accounts, account[a] = "CLOSED"
               PROVE  /\ \A v \in LEDGER_VIEWS : views'[a][v] = 0
                      /\ \A g \in Holds : ~(holds'[g].state = "ACTIVE" /\ holds'[g].account = a)
    BY DEF ClosedAccountsEmpty, ActiveHolds
  <2>1. /\ \A v \in LEDGER_VIEWS : views[a][v] = 0
        /\ \A g \in Holds : ~(holds[g].state = "ACTIVE" /\ holds[g].account = a)
    BY DEF LedgerInv, ClosedAccountsEmpty, ActiveHolds
  <2> QED BY <1>1, <2>1
<1> QED BY <1>1, <1>2, <1>3 DEF LedgerInv

-----------------------------------------------------------------------------

\* What is known of an active hold.
LEMMA ActiveHoldType ==
    ASSUME LedgerTypeOK, NEW h \in Holds, holds[h].state = "ACTIVE"
    PROVE  /\ holds[h] \in [state : {"ACTIVE"}, account : Accounts, amount : Nat \ {0}]
           /\ holds[h].account \in Accounts
           /\ holds[h].amount \in Nat \ {0}
<1>1. holds[h] \in Hold \cup {NotCreated}
  BY DEF LedgerTypeOK
<1>2. holds[h] \in Hold
  BY <1>1 DEF NotCreated
<1>3. holds[h] \in [state : {"ACTIVE"}, account : Accounts, amount : Nat \ {0}]
  BY <1>2 DEF Hold
<1> QED BY <1>3

\* A hold reduced by at most its amount is a hold, and stays on its account.
LEMMA ReducedType ==
    ASSUME LedgerTypeOK, NEW h \in Holds, holds[h].state = "ACTIVE",
           NEW n \in Nat, n <= holds[h].amount, NEW s \in {"RELEASED", "EXPIRED"}
    PROVE  /\ Reduced(h, n, s) \in Hold
           /\ Reduced(h, n, s).account = holds[h].account
<1>1. /\ holds[h] \in [state : {"ACTIVE"}, account : Accounts, amount : Nat \ {0}]
      /\ holds[h].amount \in Nat \ {0}
  BY ActiveHoldType
<1>2. CASE holds[h].amount = n
  BY <1>1, <1>2 DEF Reduced, Hold
<1>3. CASE holds[h].amount # n
  BY <1>1, <1>3 DEF Reduced, Hold
<1> QED BY <1>2, <1>3

\* Every step preserves the invariant.
LEMMA LedgerStepInv ==
    ASSUME LedgerInv, [LedgerNext]_ledgerVars
    PROVE  LedgerInv'
<1> USE DEF LedgerInv
<1>1. ASSUME NEW x \in Assets, AssetStep(x) PROVE LedgerInv'
  <2>1. LedgerTypeOK'
    BY <1>1 DEF AssetStep, AdvanceAsset, LedgerTypeOK, AssetState
  <2>2. SafeguardedNonNegative' /\ ClosedAccountsEmpty'
    BY <1>1 DEF AssetStep, AdvanceAsset, SafeguardedNonNegative, ClosedAccountsEmpty, ActiveHolds
  <2> QED BY <2>1, <2>2
<1>2. ASSUME NEW a \in Accounts, AccountStep(a) PROVE LedgerInv'
  <2> USE DEF AccountStep, CreateAccount, ActivateAccount, RestrictAccount, CloseAccount, AdvanceAccount
  <2>1. LedgerTypeOK'
    BY <1>2 DEF LedgerTypeOK, AccountState
  <2>2. SafeguardedNonNegative'
    BY <1>2 DEF SafeguardedNonNegative
  <2>3. ClosedAccountsEmpty'
    <3> SUFFICES ASSUME NEW b \in Accounts, account'[b] = "CLOSED"
                 PROVE  (\A v \in LEDGER_VIEWS : views[b][v] = 0) /\ ActiveHolds(b) = {}
      BY <1>2 DEF ClosedAccountsEmpty, ActiveHolds
    <3>1. CASE account[b] = "CLOSED"
      BY <3>1 DEF ClosedAccountsEmpty
    <3>2. CASE account[b] # "CLOSED"
      <4>1. b = a /\ CloseAccount(a)
        BY <1>2, <3>2 DEF LedgerTypeOK
      <4> QED BY <4>1
    <3> QED BY <3>1, <3>2
  <2> QED BY <2>1, <2>2, <2>3
<1>3. ASSUME NEW j \in Journals, OpenJournal(j) \/ Reconcile(j) PROVE LedgerInv'
  <2>1. LedgerTypeOK'
    BY <1>3 DEF OpenJournal, Reconcile, LedgerTypeOK, JournalState
  <2>2. SafeguardedNonNegative' /\ ClosedAccountsEmpty'
    BY <1>3 DEF OpenJournal, Reconcile, SafeguardedNonNegative, ClosedAccountsEmpty, ActiveHolds
  <2> QED BY <2>1, <2>2
<1>4. ASSUME NEW j \in Journals, NEW e \in Entries, Post(j, e) PROVE LedgerInv'
  <2>1. e \in Effect
    BY EntriesAssumption
  <2> QED BY <1>4, <2>1, PostingStepInv DEF Post, LedgerTypeOK
<1>5. ASSUME NEW i \in DOMAIN postings, ReversePosting(i) PROVE LedgerInv'
  <2>1. i \in Nat /\ postings[i] \in Posting
    BY <1>5 DEF LedgerTypeOK
  <2>2. postings[i].journal \in Journals /\ postings[i].effect \in Effect
    BY <2>1 DEF Posting
  <2>3. Mirrored(postings[i].effect) \in Effect
    BY <2>2, MirroredType
  <2> QED BY <1>5, <2>1, <2>2, <2>3, PostingStepInv DEF ReversePosting, LedgerTypeOK
<1>6. ASSUME NEW j \in Journals, NEW h \in Holds, NEW a \in Accounts, NEW n \in Amounts,
             HoldCreate(j, h, a, n)
      PROVE  LedgerInv'
  <2>1. n \in Nat \ {0} /\ Movement(a, n) \in Effect
    BY AmountsAssumption, MovementType
  <2>2. /\ holds' \in [Holds -> Hold \cup {NotCreated}]
        /\ \A g \in Holds : holds'[g].state = "ACTIVE" =>
               \/ holds[g].state = "ACTIVE" /\ holds'[g].account = holds[g].account
               \/ account[holds'[g].account] # "CLOSED"
    BY <1>6, <2>1 DEF HoldCreate, LedgerTypeOK, Hold
  <2> QED BY <1>6, <2>1, <2>2, PostingStepInv DEF HoldCreate
<1>7. ASSUME NEW j \in Journals, NEW h \in Holds, NEW n \in Amounts, HoldIncrease(j, h, n)
      PROVE  LedgerInv'
  <2>1. /\ holds[h] \in [state : {"ACTIVE"}, account : Accounts, amount : Nat \ {0}]
        /\ holds[h].account \in Accounts
    BY <1>7, ActiveHoldType DEF HoldIncrease
  <2>2. n \in Nat \ {0} /\ Movement(holds[h].account, n) \in Effect
    BY <2>1, AmountsAssumption, MovementType
  <2>3. holds' = [holds EXCEPT ![h] = [holds[h] EXCEPT !.amount = @ + n]]
    BY <1>7 DEF HoldIncrease
  <2>4. [holds[h] EXCEPT !.amount = @ + n] \in Hold
    BY <2>1, <2>2 DEF Hold
  <2>5. /\ holds' \in [Holds -> Hold \cup {NotCreated}]
        /\ \A g \in Holds : holds'[g].state = "ACTIVE" =>
               \/ holds[g].state = "ACTIVE" /\ holds'[g].account = holds[g].account
               \/ account[holds'[g].account] # "CLOSED"
    BY <2>1, <2>3, <2>4 DEF LedgerTypeOK
  <2> QED BY <1>7, <2>2, <2>5, PostingStepInv DEF HoldIncrease
<1>8. ASSUME NEW j \in Journals, NEW h \in Holds, NEW n \in Nat, HoldRelease(j, h, n)
      PROVE  LedgerInv'
  <2>1. holds[h].account \in Accounts /\ holds[h].state = "ACTIVE" /\ n <= holds[h].amount
    BY <1>8, ActiveHoldType DEF HoldRelease
  <2>2. Movement(holds[h].account, -n) \in Effect
    BY <2>1, MovementType
  <2>3. /\ Reduced(h, n, "RELEASED") \in Hold
        /\ Reduced(h, n, "RELEASED").account = holds[h].account
    BY <2>1, ReducedType
  <2>4. /\ holds' \in [Holds -> Hold \cup {NotCreated}]
        /\ \A g \in Holds : holds'[g].state = "ACTIVE" =>
               \/ holds[g].state = "ACTIVE" /\ holds'[g].account = holds[g].account
               \/ account[holds'[g].account] # "CLOSED"
    BY <1>8, <2>1, <2>3 DEF HoldRelease, LedgerTypeOK
  <2> QED BY <1>8, <2>2, <2>4, PostingStepInv DEF HoldRelease
<1>9. ASSUME NEW h \in Holds, NEW n \in Amounts, HoldDecrease(h, n) PROVE LedgerInv'
  <2>1. holds[h].account \in Accounts /\ holds[h].state = "ACTIVE" /\ n <= holds[h].amount
    BY <1>9, ActiveHoldType DEF HoldDecrease, DecreaseAllowed
  <2>2. /\ Reduced(h, n, "RELEASED") \in Hold
        /\ Reduced(h, n, "RELEASED").account = holds[h].account
    BY <2>1, ReducedType, AmountsAssumption
  <2>3. LedgerTypeOK'
    BY <1>9, <2>2 DEF HoldDecrease, LedgerTypeOK
  <2>4. SafeguardedNonNegative'
    BY <1>9 DEF HoldDecrease, SafeguardedNonNegative
  <2>5. ClosedAccountsEmpty'
    BY <1>9, <2>1, <2>2 DEF HoldDecrease, ClosedAccountsEmpty, ActiveHolds, LedgerTypeOK
  <2> QED BY <2>3, <2>4, <2>5
<1>10. ASSUME NEW j \in Journals, NEW h \in Holds, HoldExpire(j, h) PROVE LedgerInv'
  <2>1. /\ holds[h].account \in Accounts /\ holds[h].state = "ACTIVE"
        /\ holds[h].amount \in Nat \ {0}
    BY <1>10, ActiveHoldType DEF HoldExpire
  <2>2. Movement(holds[h].account, -holds[h].amount) \in Effect
    BY <2>1, MovementType
  <2>3. /\ Reduced(h, holds[h].amount, "EXPIRED") \in Hold
        /\ Reduced(h, holds[h].amount, "EXPIRED").account = holds[h].account
    BY <2>1, ReducedType
  <2>4. /\ holds' \in [Holds -> Hold \cup {NotCreated}]
        /\ \A g \in Holds : holds'[g].state = "ACTIVE" =>
               \/ holds[g].state = "ACTIVE" /\ holds'[g].account = holds[g].account
               \/ account[holds'[g].account] # "CLOSED"
    BY <1>10, <2>1, <2>3 DEF HoldExpire, LedgerTypeOK
  <2> QED BY <1>10, <2>2, <2>4, PostingStepInv DEF HoldExpire
<1>11. CASE UNCHANGED ledgerVars
  BY <1>11 DEF ledgerVars, LedgerTypeOK, SafeguardedNonNegative, ClosedAccountsEmpty, ActiveHolds
<1>12. ASSUME NEW j \in Journals, NEW h \in Holds, HoldStep(j, h) PROVE LedgerInv'
  <2>1. ASSUME HoldRelease(j, h, holds[h].amount) PROVE LedgerInv'
    <3>1. holds[h].amount \in Nat
      BY <2>1, ActiveHoldType DEF HoldRelease
    <3> QED BY <2>1, <3>1, <1>8
  <2> QED BY <1>12, <1>6, <1>7, <1>8, <1>9, <1>10, <2>1, AmountsAssumption DEF HoldStep
<1> QED
  BY <1>1, <1>2, <1>3, <1>4, <1>5, <1>11, <1>12 DEF LedgerNext

-----------------------------------------------------------------------------

\* LedgerInv is an invariant of the ledger.
THEOREM LedgerInvariant == LedgerSpec => []LedgerInv
<1>1. LedgerInit => LedgerInv
  BY LedgerInitInv
<1>2. LedgerInv /\ [LedgerNext]_ledgerVars => LedgerInv'
  BY LedgerStepInv
<1> QED BY <1>1, <1>2, PTL DEF LedgerSpec

\* The ledger's records stay in their vocabularies: active holds hold something,
\* ended ones nothing.
THEOREM LedgerTypeCorrect == LedgerSpec => []LedgerTypeOK
<1>1. LedgerInv => LedgerTypeOK
  BY DEF LedgerInv
<1> QED BY <1>1, LedgerInvariant, PTL

\* No sequence of postings, reversals and hold operations overdraws a
\* safeguarded account (_check_posting_guards), for any entries callers post.
THEOREM NoOverdraft == LedgerSpec => []SafeguardedNonNegative
<1>1. LedgerInv => SafeguardedNonNegative
  BY DEF LedgerInv
<1> QED BY <1>1, LedgerInvariant, PTL

\* A closed account stays empty and free of holds (close_account), whatever is
\* posted, reversed or released afterwards.
THEOREM ClosedStaysEmpty == LedgerSpec => []ClosedAccountsEmpty
<1>1. LedgerInv => ClosedAccountsEmpty
  BY DEF LedgerInv
<1> QED BY <1>1, LedgerInvariant, PTL

-----------------------------------------------------------------------------
(* The balances, added up. *)

\* The accounts of asset x, and the two sides of its sheet.
Sheet(x) == {a \in Accounts : AssetOf[a] = x}
DebitSide(x) == {a \in Accounts : AssetOf[a] = x /\ a \notin CreditNormal}
CreditSide(x) == {a \in Accounts : AssetOf[a] = x /\ a \in CreditNormal}
Totals(f) == [a \in Accounts |-> Total(f[a])]

\* An asset has finitely many accounts.
LEMMA SheetsFinite ==
    ASSUME NEW x
    PROVE  IsFiniteSet(Sheet(x)) /\ IsFiniteSet(DebitSide(x)) /\ IsFiniteSet(CreditSide(x))
BY FiniteAssumption, FS_Subset DEF Sheet, DebitSide, CreditSide

\* The two sides of an asset's sheet as sums over sets of accounts.
LEMMA SheetSums ==
    ASSUME NEW x \in Assets, NEW V
    PROVE  /\ SumFunction([a \in DebitSide(x) |-> Total(V[a])]) = SumFunctionOnSet(Totals(V), DebitSide(x))
           /\ SumFunction([a \in CreditSide(x) |-> Total(V[a])]) = SumFunctionOnSet(Totals(V), CreditSide(x))
<1> DEFINE f == [a \in DebitSide(x) |-> Total(V[a])]
           g == [a \in CreditSide(x) |-> Total(V[a])]
<1>1. /\ DOMAIN f = DebitSide(x) /\ \A a \in DebitSide(x) : f[a] = Totals(V)[a]
      /\ DOMAIN g = CreditSide(x) /\ \A a \in CreditSide(x) : g[a] = Totals(V)[a]
  BY DEF Totals, DebitSide, CreditSide
<1> HIDE DEF f, g
<1>2. SumFunction(f) = SumFunctionOnSet(Totals(V), DebitSide(x))
  BY <1>1, SheetsFinite, SumOfValues
<1>3. SumFunction(g) = SumFunctionOnSet(Totals(V), CreditSide(x))
  BY <1>1, SheetsFinite, SumOfValues
<1> QED
  BY <1>2, <1>3 DEF f, g

\* In a balanced effect, what the debit side of a sheet gains the credit side
\* loses, in debit-positive amounts, unless the effect only credits the asset:
\* then the credit side gains more.
LEMMA BalancedSums ==
    ASSUME NEW e \in Effect, Balanced(e), NEW x \in Assets
    PROVE  LET n == SumFunctionOnSet(Totals(e), DebitSide(x)) + SumFunctionOnSet(Totals(e), CreditSide(x))
           IN  /\ n \in Int /\ n <= 0
               /\ \/ n = 0
                  \/ x \notin Debited(e) /\ \E a \in Touched(e) : AssetOf[a] = x
<1> DEFINE t == Totals(e)
           T == {b \in Touched(e) : AssetOf[b] = x}
           f == [a \in T |-> Total(e[a])]
           m == [a \in T |-> -t[a]]
<1>1. \A a \in Accounts : t[a] \in Int /\ (a \notin Touched(e) => t[a] = 0)
  BY DEF Totals, Total, Effect, Touched, LEDGER_VIEWS
<1>2. /\ T \in SUBSET Sheet(x) /\ Sheet(x) \subseteq Accounts /\ \A a \in Sheet(x) \ T : t[a] = 0
      /\ \A a \in T : t[a] \in Int /\ m[a] = -t[a]
  BY <1>1 DEF Touched, Sheet
<1>3. /\ x \in Debited(e) => SumFunction(f) = 0
      /\ T # {} => \E a \in Touched(e) : AssetOf[a] = x
  BY DEF Balanced, Net
<1>4. DOMAIN f = T /\ \A a \in T : f[a] = t[a]
  BY DEF Totals, Touched
<1>5. IsFiniteSet(Sheet(x)) /\ IsFiniteSet(T)
  BY <1>2, SheetsFinite, FS_Subset
<1>6. x \notin Debited(e) => \A a \in T : m[a] \in Nat
  <2> SUFFICES ASSUME x \notin Debited(e), NEW a \in T PROVE -t[a] \in Nat
    OBVIOUS
  <2>1. a \in Accounts /\ AssetOf[a] = x
    BY DEF Touched
  <2>2. \A v \in LEDGER_VIEWS : e[a][v] \in Int /\ ~(e[a][v] > 0)
    BY <2>1 DEF Debited, Effect
  <2> QED
    BY <2>1, <2>2 DEF Totals, Total, LEDGER_VIEWS
<1> HIDE DEF t, T, f, m
<1>7. SumFunctionOnSet(t, T) = SumFunction(f)
  BY <1>4, <1>5, SumOfValues
<1>8. SumFunctionOnSet(t, Sheet(x)) = SumFunctionOnSet(t, T)
  BY <1>1, <1>2, <1>5, SumSupport
<1>9. /\ Sheet(x) = DebitSide(x) \cup CreditSide(x) /\ DebitSide(x) \cap CreditSide(x) = {}
      /\ IsFiniteSet(DebitSide(x)) /\ IsFiniteSet(CreditSide(x))
      /\ \A a \in DebitSide(x) \cup CreditSide(x) : t[a] \in Int
  BY <1>1, SheetsFinite DEF Sheet, DebitSide, CreditSide
<1>10. SumFunctionOnSet(t, DebitSide(x) \cup CreditSide(x)) =
          SumFunctionOnSet(t, DebitSide(x)) + SumFunctionOnSet(t, CreditSide(x))
  BY <1>9, SumDisjoint
<1>11. SumFunctionOnSet(m, T) = -SumFunctionOnSet(t, T) /\ SumFunctionOnSet(t, T) \in Int
  BY <1>2, <1>5, SumNegative, SumType
<1>12. x \notin Debited(e) => SumFunctionOnSet(m, T) \in Nat
  BY <1>5, <1>6, SumNatural
<1>13. T = {} => SumFunctionOnSet(t, T) = 0
  BY SumEmpty
<1>14. SumFunctionOnSet(t, T) <= 0
  BY <1>3, <1>7, <1>11, <1>12
<1>15. SumFunctionOnSet(t, T) = 0 \/ (x \notin Debited(e) /\ T # {})
  BY <1>3, <1>7, <1>13
<1>16. SumFunctionOnSet(t, DebitSide(x)) + SumFunctionOnSet(t, CreditSide(x)) = SumFunctionOnSet(t, T)
  BY <1>8, <1>9, <1>10
<1> QED
  BY <1>3, <1>11, <1>14, <1>15, <1>16 DEF t

\* Recording a posting keeps the books as balanced as they were, unless it
\* only credits an asset.
LEMMA RecordPostingBalances ==
    ASSUME LedgerInv, BooksBalance, NEW j \in Journals, NEW e \in Effect,
           NEW h \in Holds \cup {NoHold}, NEW r \in Nat, NEW S, RecordPosting(j, e, h, r, S)
    PROVE  BooksBalance'
<1>1. /\ postings \in Seq(Posting) /\ views \in [Accounts -> [LEDGER_VIEWS -> Int]]
      /\ postings' \in Seq(Posting) /\ views' \in [Accounts -> [LEDGER_VIEWS -> Int]]
  BY RecordPostingInv DEF LedgerInv, LedgerTypeOK
<1>2. \A a \in Accounts : \A v \in LEDGER_VIEWS :
          /\ views[a][v] \in Int /\ e[a][v] \in Int
          /\ views'[a][v] = views[a][v] + Oriented(a, e[a][v])
  BY <1>1 DEF RecordPosting, Effect
<1>3. ASSUME NEW a \in Accounts, NEW v \in LEDGER_VIEWS
      PROVE  views'[a][v] = SumFunction([i \in DOMAIN postings' |-> Oriented(a, postings'[i].effect[a][v])])
  <2> DEFINE n == Len(postings)
             f == [i \in DOMAIN postings |-> Oriented(a, postings[i].effect[a][v])]
             g == [i \in DOMAIN postings' |-> Oriented(a, postings'[i].effect[a][v])]
  <2>1. n \in Nat /\ DOMAIN postings = 1..n /\ DOMAIN postings' = 1..(n + 1)
    BY <1>1 DEF RecordPosting
  <2>2. /\ \A i \in 1..n : postings'[i] = postings[i]
        /\ postings'[n + 1].effect = e
    <3> DEFINE p == [journal |-> j, effect |-> e, hold |-> h, reverses |-> r]
    <3>1. postings' = Append(postings, p) /\ p.effect = e
      BY DEF RecordPosting
    <3> HIDE DEF p
    <3> QED
      BY <1>1, <2>1, <3>1
  <2>3. \A i \in 1..(n + 1) : postings'[i].effect \in Effect
    <3>1. \A i \in DOMAIN postings' : postings'[i] \in Posting
      BY <1>1
    <3> QED
      BY <2>1, <3>1 DEF Posting
  <2>4. /\ DOMAIN f = 1..n /\ DOMAIN g = 1..(n + 1) /\ \A i \in 1..n : f[i] = g[i]
        /\ g[n + 1] = Oriented(a, e[a][v])
    BY <2>1, <2>2
  <2>5. \A i \in 1..(n + 1) : g[i] \in Int
    <3> TAKE i \in 1..(n + 1)
    <3>1. postings'[i].effect[a][v] \in Int
      BY <2>3 DEF Effect
    <3> QED
      BY <2>1, <3>1 DEF Oriented
  <2>6. views[a][v] = SumFunction(f)
    BY DEF BooksBalance
  <2> HIDE DEF f, g, n
  <2>7. /\ IsFiniteSet(1..n) /\ IsFiniteSet(1..(n + 1)) /\ n + 1 \in 1..(n + 1)
        /\ 1..(n + 1) \ {n + 1} = 1..n
    <3>1. 1 \in Int /\ n \in Int /\ n + 1 \in Int
      BY <2>1
    <3>2. IsFiniteSet(1..n) /\ IsFiniteSet(1..(n + 1))
      BY <3>1, FS_Interval
    <3>3. n + 1 \in 1..(n + 1) /\ 1..(n + 1) \ {n + 1} = 1..n
      BY <2>1
    <3> QED
      BY <3>2, <3>3
  <2>8. SumFunction(f) = SumFunctionOnSet(g, 1..n)
    BY <2>4, <2>7, SumOfValues
  <2>9. SumFunctionOnSet(g, 1..(n + 1)) = g[n + 1] + SumFunctionOnSet(g, 1..(n + 1) \ {n + 1})
    BY <2>5, <2>7, SumRemove
  <2>10. SumFunction(g) = Oriented(a, e[a][v]) + views[a][v]
    BY <2>4, <2>6, <2>7, <2>8, <2>9 DEF SumFunction
  <2>11. SumFunction(g) = views'[a][v]
    BY <1>2, <2>10 DEF Oriented
  <2> QED
    BY <2>11 DEF g
<1>4. ASSUME NEW x \in Assets
      PROVE  /\ DebitTotal(x)' <= CreditTotal(x)'
             /\ (\A i \in DOMAIN postings' : ~CreditOnly(postings'[i], x)) => DebitTotal(x)' = CreditTotal(x)'
  <2> DEFINE D == DebitSide(x)
             C == CreditSide(x)
             t == Totals(e)
             u == Totals(views)
             w == Totals(views')
             m == [a \in Accounts |-> -t[a]]
  <2>1. \A a \in Accounts : t[a] \in Int /\ u[a] \in Int
    BY <1>2 DEF Totals, Total, LEDGER_VIEWS
  <2>2. \A a \in Accounts : w[a] = u[a] + Oriented(a, t[a])
    <3> TAKE a \in Accounts
    <3>1. \A v \in {"AVAILABLE", "PENDING", "ENCUMBERED", "RESTRICTED", "SETTLED"} :
              /\ views[a][v] \in Int /\ e[a][v] \in Int
              /\ views'[a][v] = views[a][v] + Oriented(a, e[a][v])
      BY <1>2 DEF LEDGER_VIEWS
    <3>2. Total(views'[a]) = Total(views[a]) + Oriented(a, Total(e[a]))
      BY <3>1 DEF Total, Oriented
    <3> QED
      BY <3>2 DEF Totals
  <2>3. D \subseteq Accounts /\ C \subseteq Accounts /\ IsFiniteSet(D) /\ IsFiniteSet(C)
    BY SheetsFinite DEF DebitSide, CreditSide
  <2>4. \A a \in D : w[a] = u[a] + t[a]
    BY <2>2, <2>3 DEF DebitSide, Oriented
  <2>5. \A a \in C : w[a] = u[a] + m[a]
    BY <2>2, <2>3 DEF CreditSide, Oriented
  <2>6. \A a \in Accounts : m[a] = -t[a] /\ m[a] \in Int
    BY <2>1
  <2> DEFINE n == SumFunctionOnSet(t, D) + SumFunctionOnSet(t, C)
  <2>7. /\ n \in Int /\ n <= 0
        /\ n = 0 \/ (x \notin Debited(e) /\ \E a \in Touched(e) : AssetOf[a] = x)
    BY BalancedSums DEF RecordPosting
  <2>8. DebitTotal(x) = SumFunctionOnSet(u, D) /\ CreditTotal(x) = SumFunctionOnSet(u, C)
    BY SheetSums DEF DebitTotal, CreditTotal, DebitSide, CreditSide
  <2>9. DebitTotal(x)' = SumFunctionOnSet(w, D) /\ CreditTotal(x)' = SumFunctionOnSet(w, C)
    BY SheetSums DEF DebitTotal, CreditTotal, DebitSide, CreditSide
  <2>10. ASSUME \A i \in DOMAIN postings' : ~CreditOnly(postings'[i], x)
         PROVE  n = 0 /\ \A i \in DOMAIN postings : ~CreditOnly(postings[i], x)
    <3> DEFINE p == [journal |-> j, effect |-> e, hold |-> h, reverses |-> r]
    <3>1. postings' = Append(postings, p) /\ p.effect = e
      BY DEF RecordPosting
    <3> HIDE DEF p
    <3>2. /\ DOMAIN postings \subseteq DOMAIN postings' /\ Len(postings) + 1 \in DOMAIN postings'
          /\ \A i \in DOMAIN postings : postings'[i] = postings[i]
          /\ postings'[Len(postings) + 1] = p
      BY <1>1, <3>1
    <3>3. ~CreditOnly(p, x)
      BY <2>10, <3>2
    <3> HIDE DEF n
    <3> QED
      BY <2>7, <2>10, <3>1, <3>2, <3>3 DEF CreditOnly
  <2>11. /\ DebitTotal(x) <= CreditTotal(x)
         /\ (\A i \in DOMAIN postings : ~CreditOnly(postings[i], x)) => DebitTotal(x) = CreditTotal(x)
    BY DEF BooksBalance, SheetBalanced
  <2> HIDE DEF D, C, t, u, w, m
  <2>12. SumFunctionOnSet(w, D) = SumFunctionOnSet(u, D) + SumFunctionOnSet(t, D)
    BY <2>1, <2>3, <2>4, SumAdd
  <2>13. SumFunctionOnSet(w, C) = SumFunctionOnSet(u, C) + SumFunctionOnSet(m, C)
    BY <2>1, <2>3, <2>5, <2>6, SumAdd
  <2>14. SumFunctionOnSet(m, C) = -SumFunctionOnSet(t, C)
    BY <2>1, <2>3, <2>6, SumNegative
  <2>15. /\ SumFunctionOnSet(u, D) \in Int /\ SumFunctionOnSet(t, D) \in Int
         /\ SumFunctionOnSet(u, C) \in Int /\ SumFunctionOnSet(t, C) \in Int
    BY <2>1, <2>3, SumType
  <2>16. DebitTotal(x)' - CreditTotal(x)' = (DebitTotal(x) - CreditTotal(x)) + n
    BY <2>8, <2>9, <2>12, <2>13, <2>14, <2>15
  <2>17. DebitTotal(x) \in Int /\ CreditTotal(x) \in Int /\ DebitTotal(x)' \in Int /\ CreditTotal(x)' \in Int
    BY <2>8, <2>9, <2>12, <2>13, <2>14, <2>15
  <2> HIDE DEF n
  <2>18. DebitTotal(x)' <= CreditTotal(x)'
    BY <2>7, <2>11, <2>16, <2>17
  <2>19. ASSUME \A i \in DOMAIN postings' : ~CreditOnly(postings'[i], x)
         PROVE  DebitTotal(x)' = CreditTotal(x)'
    <3>1. n = 0 /\ \A i \in DOMAIN postings : ~CreditOnly(postings[i], x)
      BY <2>10, <2>19
    <3>2. DebitTotal(x) = CreditTotal(x)
      BY <2>11, <3>1
    <3>3. DebitTotal(x)' - CreditTotal(x)' = 0
      BY <2>16, <2>17, <3>1, <3>2
    <3> QED
      BY <2>17, <3>3, SMT
  <2> QED
    BY <2>18, <2>19
<1> QED
  BY <1>3, <1>4 DEF BooksBalance, SheetBalanced

\* What hold g contributes to HELD of account b when the hold records are H.
Share(H, b) ==
    [g \in Holds |-> IF H[g].state = "ACTIVE" /\ H[g].account = b THEN H[g].amount ELSE 0]

\* The step changes the contribution of hold h to account a by n, and no other.
HoldMoves(h, a, n) ==
    \A b \in Accounts : \A g \in Holds :
        Share(holds', b)[g] = Share(holds, b)[g] + (IF g = h /\ b = a THEN n ELSE 0)

\* A hold contributes a natural number.
LEMMA ShareType ==
    ASSUME LedgerTypeOK, NEW b \in Accounts, NEW g \in Holds
    PROVE  Share(holds, b)[g] \in Nat
<1>1. CASE holds[g].state = "ACTIVE"
  <2>1. holds[g].amount \in Nat
    BY <1>1, ActiveHoldType
  <2> QED
    BY <2>1 DEF Share
<1>2. CASE holds[g].state # "ACTIVE"
  BY <1>2 DEF Share
<1> QED
  BY <1>1, <1>2

\* HELD is the sum of the contributions of all holds.
LEMMA HeldAddsShares ==
    ASSUME NEW b \in Accounts, NEW H, \A g \in Holds : Share(H, b)[g] \in Int
    PROVE  SumFunction([g \in {k \in Holds : H[k].state = "ACTIVE" /\ H[k].account = b} |-> H[g].amount])
             = SumFunctionOnSet(Share(H, b), Holds)
<1> DEFINE A == {k \in Holds : H[k].state = "ACTIVE" /\ H[k].account = b}
           f == [g \in A |-> H[g].amount]
           s == Share(H, b)
<1>1. /\ DOMAIN f = A /\ \A g \in A : f[g] = s[g]
      /\ A \in SUBSET Holds /\ \A g \in Holds \ A : s[g] = 0
      /\ \A g \in A : s[g] \in Int
  BY DEF Share
<1> HIDE DEF A, f, s
<1>2. IsFiniteSet(Holds) /\ IsFiniteSet(A)
  BY <1>1, FiniteAssumption, FS_Subset
<1>3. SumFunction(f) = SumFunctionOnSet(s, A)
  BY <1>1, <1>2, SumOfValues
<1>4. SumFunctionOnSet(s, Holds) = SumFunctionOnSet(s, A)
  BY <1>1, <1>2, SumSupport
<1> QED
  BY <1>3, <1>4 DEF f, A, s

\* A step that moves hold h by n on account a changes HELD there by n, and
\* HELD of no other account.
LEMMA HeldMoved ==
    ASSUME LedgerTypeOK, LedgerTypeOK', NEW h \in Holds, NEW a \in Accounts, NEW n \in Int,
           HoldMoves(h, a, n), NEW b \in Accounts
    PROVE  /\ Held(b) \in Int
           /\ Held(b)' = Held(b) + (IF b = a THEN n ELSE 0)
<1> DEFINE s == Share(holds, b)
           t == Share(holds', b)
<1>1. \A g \in Holds : s[g] \in Int
  BY ShareType
<1>2. \A g \in Holds : t[g] = s[g] + (IF g = h /\ b = a THEN n ELSE 0)
  BY DEF HoldMoves
<1>3. \A g \in Holds : t[g] \in Int
  BY <1>1, <1>2
<1>4. Held(b) = SumFunctionOnSet(s, Holds)
  BY <1>1, HeldAddsShares DEF Held, ActiveHolds
<1>5. Held(b)' = SumFunctionOnSet(t, Holds)
  BY <1>3, HeldAddsShares DEF Held, ActiveHolds
<1> HIDE DEF s, t
<1>6. SumFunctionOnSet(s, Holds) = s[h] + SumFunctionOnSet(s, Holds \ {h})
  BY <1>1, FiniteAssumption, SumRemove
<1>7. SumFunctionOnSet(t, Holds) = t[h] + SumFunctionOnSet(t, Holds \ {h})
  BY <1>3, FiniteAssumption, SumRemove
<1>8. IsFiniteSet(Holds \ {h})
  BY FiniteAssumption, FS_Subset
<1>9. \A g \in Holds \ {h} : t[g] = s[g]
  BY <1>1, <1>2
<1>10. SumFunctionOnSet(t, Holds \ {h}) = SumFunctionOnSet(s, Holds \ {h})
  BY <1>8, <1>9, SumSame
<1>11. SumFunctionOnSet(s, Holds \ {h}) \in Int
  BY <1>1, <1>8, SumType
<1>12. t[h] = s[h] + (IF b = a THEN n ELSE 0) /\ s[h] \in Int
  BY <1>1, <1>2
<1> QED
  BY <1>4, <1>5, <1>6, <1>7, <1>10, <1>11, <1>12

-----------------------------------------------------------------------------

\* A hold reduced by n contributes n less.
LEMMA ReducedMoves ==
    ASSUME LedgerTypeOK, NEW h \in Holds, holds[h].state = "ACTIVE",
           NEW n \in Nat, n <= holds[h].amount, NEW s \in {"RELEASED", "EXPIRED"},
           holds' = [holds EXCEPT ![h] = Reduced(h, n, s)]
    PROVE  HoldMoves(h, holds[h].account, -n)
<1>1. /\ holds[h] \in [state : {"ACTIVE"}, account : Accounts, amount : Nat \ {0}]
      /\ holds[h].account \in Accounts /\ holds[h].amount \in Nat \ {0}
  BY ActiveHoldType
<1>2. SUFFICES ASSUME NEW b \in Accounts, NEW g \in Holds
               PROVE  Share(holds', b)[g] = Share(holds, b)[g] +
                         (IF g = h /\ b = holds[h].account THEN -n ELSE 0)
  BY DEF HoldMoves
<1>3. Share(holds, b)[g] \in Nat
  BY ShareType
<1>4. CASE g # h
  <2>1. holds'[g] = holds[g]
    BY <1>4 DEF LedgerTypeOK
  <2> QED
    BY <1>3, <1>4, <2>1 DEF Share
<1>5. CASE g = h
  <2>1. holds'[h] = Reduced(h, n, s)
    BY DEF LedgerTypeOK
  <2>2. /\ Reduced(h, n, s).account = holds[h].account
        /\ IF holds[h].amount = n THEN Reduced(h, n, s).state # "ACTIVE"
           ELSE /\ Reduced(h, n, s).state = "ACTIVE"
                /\ Reduced(h, n, s).amount = holds[h].amount - n
    BY <1>1 DEF Reduced
  <2> QED
    BY <1>1, <1>5, <2>1, <2>2 DEF Share
<1> QED
  BY <1>4, <1>5

\* What a step does to balances and holds: nothing; a posting of a caller, or a
\* reversal; a hold's movement with the posting that goes with it; or the
\* decrease of a hold, which posts nothing.
LEMMA LedgerStepKinds ==
    ASSUME LedgerInv, [LedgerNext]_ledgerVars
    PROVE  \/ UNCHANGED <<postings, views, holds>>
           \/ \E j \in Journals, e \in Effect, r \in Nat :
                 RecordPosting(j, e, NoHold, r, {}) /\ UNCHANGED holds
           \/ \E j \in Journals, h \in Holds, a \in Accounts, n \in Int, S \in SUBSET Accounts :
                 RecordPosting(j, Movement(a, n), h, 0, S) /\ HoldMoves(h, a, n)
           \/ \E h \in Holds, n \in Nat \ {0} : HoldDecrease(h, n)
<1> DEFINE Still == UNCHANGED <<postings, views, holds>>
           Posted == \E j \in Journals, e \in Effect, r \in Nat :
                        RecordPosting(j, e, NoHold, r, {}) /\ UNCHANGED holds
           Moved == \E j \in Journals, h \in Holds, a \in Accounts, n \in Int, S \in SUBSET Accounts :
                        RecordPosting(j, Movement(a, n), h, 0, S) /\ HoldMoves(h, a, n)
           Decreased == \E h \in Holds, n \in Nat \ {0} : HoldDecrease(h, n)
<1>t. LedgerTypeOK
  BY DEF LedgerInv
<1>1. ASSUME NEW x \in Assets, AssetStep(x) PROVE Still
  BY <1>1 DEF AssetStep, AdvanceAsset
<1>2. ASSUME NEW a \in Accounts, AccountStep(a) PROVE Still
  BY <1>2 DEF AccountStep, CreateAccount, ActivateAccount, RestrictAccount, CloseAccount, AdvanceAccount
<1>3. ASSUME NEW j \in Journals, OpenJournal(j) \/ Reconcile(j) PROVE Still
  BY <1>3 DEF OpenJournal, Reconcile
<1>4. ASSUME NEW j \in Journals, NEW e \in Entries, Post(j, e) PROVE Posted
  BY <1>4, EntriesAssumption DEF Post
<1>5. ASSUME NEW i \in DOMAIN postings, ReversePosting(i) PROVE Posted
  <2>1. i \in Nat /\ postings[i] \in Posting
    BY <1>5, <1>t DEF LedgerTypeOK
  <2>2. postings[i].journal \in Journals /\ Mirrored(postings[i].effect) \in Effect
    BY <2>1, MirroredType DEF Posting
  <2> QED
    BY <1>5, <2>1, <2>2 DEF ReversePosting
<1>6. ASSUME NEW j \in Journals, NEW h \in Holds, NEW a \in Accounts, NEW n \in Amounts,
             HoldCreate(j, h, a, n)
      PROVE  Moved
  <2>1. n \in Nat
    BY AmountsAssumption
  <2>2. HoldMoves(h, a, n)
    <3> SUFFICES ASSUME NEW b \in Accounts, NEW g \in Holds
                 PROVE  Share(holds', b)[g] = Share(holds, b)[g] + (IF g = h /\ b = a THEN n ELSE 0)
      BY DEF HoldMoves
    <3>1. Share(holds, b)[g] \in Nat
      BY <1>t, ShareType
    <3>2. CASE g # h
      <4>1. holds'[g] = holds[g]
        BY <1>6, <1>t, <3>2 DEF HoldCreate, LedgerTypeOK
      <4> QED
        BY <3>1, <3>2, <4>1 DEF Share
    <3>3. CASE g = h
      <4>1. holds'[h] = [state |-> "ACTIVE", account |-> a, amount |-> n] /\ holds[h] = [state |-> "NONE"]
        BY <1>6, <1>t DEF HoldCreate, LedgerTypeOK, NotCreated
      <4>2. Share(holds, b)[h] = 0 /\ Share(holds', b)[h] = IF b = a THEN n ELSE 0
        BY <4>1 DEF Share
      <4> QED
        BY <2>1, <3>3, <4>2
    <3> QED
      BY <3>2, <3>3
  <2>3. RecordPosting(j, Movement(a, n), h, 0, {})
    BY <1>6 DEF HoldCreate
  <2> QED
    BY <2>1, <2>2, <2>3
<1>7. ASSUME NEW j \in Journals, NEW h \in Holds, NEW n \in Amounts, HoldIncrease(j, h, n)
      PROVE  Moved
  <2>1. /\ holds[h] \in [state : {"ACTIVE"}, account : Accounts, amount : Nat \ {0}]
        /\ holds[h].account \in Accounts /\ holds[h].amount \in Nat /\ n \in Nat
    BY <1>7, <1>t, ActiveHoldType, AmountsAssumption DEF HoldIncrease
  <2>2. HoldMoves(h, holds[h].account, n)
    <3> SUFFICES ASSUME NEW b \in Accounts, NEW g \in Holds
                 PROVE  Share(holds', b)[g] = Share(holds, b)[g] +
                           (IF g = h /\ b = holds[h].account THEN n ELSE 0)
      BY DEF HoldMoves
    <3>1. Share(holds, b)[g] \in Nat
      BY <1>t, ShareType
    <3>2. CASE g # h
      <4>1. holds'[g] = holds[g]
        BY <1>7, <1>t, <3>2 DEF HoldIncrease, LedgerTypeOK
      <4> QED
        BY <3>1, <3>2, <4>1 DEF Share
    <3>3. CASE g = h
      <4>1. holds'[h] = [holds[h] EXCEPT !.amount = @ + n]
        BY <1>7, <1>t DEF HoldIncrease, LedgerTypeOK
      <4> QED
        BY <2>1, <3>3, <4>1 DEF Share
    <3> QED
      BY <3>2, <3>3
  <2>3. RecordPosting(j, Movement(holds[h].account, n), h, 0, {})
    BY <1>7 DEF HoldIncrease
  <2> QED
    BY <2>1, <2>2, <2>3
<1>8. ASSUME NEW j \in Journals, NEW h \in Holds, NEW n \in Nat, HoldRelease(j, h, n)
      PROVE  Moved
  <2>1. holds[h].account \in Accounts /\ -n \in Int
    BY <1>8, <1>t, ActiveHoldType DEF HoldRelease
  <2>2. HoldMoves(h, holds[h].account, -n)
    BY <1>8, <1>t, ReducedMoves DEF HoldRelease
  <2>3. RecordPosting(j, Movement(holds[h].account, -n), h, 0, {holds[h].account})
    BY <1>8 DEF HoldRelease
  <2> QED
    BY <2>1, <2>2, <2>3
<1>9. ASSUME NEW j \in Journals, NEW h \in Holds, HoldExpire(j, h) PROVE Moved
  <2>1. holds[h].account \in Accounts /\ holds[h].amount \in Nat /\ -holds[h].amount \in Int
    BY <1>9, <1>t, ActiveHoldType DEF HoldExpire
  <2>2. HoldMoves(h, holds[h].account, -holds[h].amount)
    <3>1. PICK n \in Nat : n = holds[h].amount
      BY <2>1
    <3>2. /\ holds[h].state = "ACTIVE" /\ n <= holds[h].amount
          /\ holds' = [holds EXCEPT ![h] = Reduced(h, n, "EXPIRED")]
      BY <1>9, <3>1 DEF HoldExpire
    <3>3. HoldMoves(h, holds[h].account, -n)
      BY <1>t, <3>2, ReducedMoves
    <3> QED
      BY <3>1, <3>3
  <2>3. RecordPosting(j, Movement(holds[h].account, -holds[h].amount), h, 0, {holds[h].account})
    BY <1>9 DEF HoldExpire
  <2> QED
    BY <2>1, <2>2, <2>3
<1>10. ASSUME NEW h \in Holds, NEW n \in Amounts, HoldDecrease(h, n) PROVE Decreased
  BY <1>10, AmountsAssumption
<1>11. ASSUME UNCHANGED ledgerVars PROVE Still
  BY <1>11 DEF ledgerVars
<1>12. ASSUME NEW j \in Journals, NEW h \in Holds, HoldStep(j, h) PROVE Moved \/ Decreased
  <2>1. ASSUME HoldRelease(j, h, holds[h].amount) PROVE Moved
    <3>1. holds[h].amount \in Nat
      BY <2>1, <1>t, ActiveHoldType DEF HoldRelease
    <3> HIDE DEF Moved
    <3> QED
      BY <2>1, <3>1, <1>8
  <2> HIDE DEF Moved, Decreased
  <2> QED
    BY <1>6, <1>7, <1>8, <1>9, <1>10, <1>12, <2>1, AmountsAssumption DEF HoldStep
<1>13. Still \/ Posted \/ Moved \/ Decreased
  <2> HIDE DEF Still, Posted, Moved, Decreased
  <2> QED
    BY <1>1, <1>2, <1>3, <1>4, <1>5, <1>11, <1>12 DEF LedgerNext
<1> QED
  BY <1>13

\* The balances are what the postings add up to, the credit side of an asset's
\* sheet never falls below the debit side, and the two are equal as long as no
\* posting credits the asset without debiting it: a new ledger's trivially, and
\* each posting moves both sides by amounts that cancel out, or is such a one.
THEOREM BooksAlwaysBalance == LedgerSpec => []BooksBalance
<1>1. LedgerInit => BooksBalance
  <2> SUFFICES ASSUME LedgerInit PROVE BooksBalance
    OBVIOUS
  <2>1. ASSUME NEW a \in Accounts, NEW v \in LEDGER_VIEWS
        PROVE  views[a][v] = SumFunction([i \in DOMAIN postings |-> Oriented(a, postings[i].effect[a][v])])
    <3> DEFINE f == [i \in DOMAIN postings |-> Oriented(a, postings[i].effect[a][v])]
    <3>1. DOMAIN f = {} /\ views[a][v] = 0
      BY DEF LedgerInit
    <3> HIDE DEF f
    <3>2. SumFunction(f) = 0
      BY <3>1, SumEmpty DEF SumFunction
    <3> QED
      BY <3>1, <3>2 DEF f
  <2>2. ASSUME NEW x \in Assets PROVE DebitTotal(x) <= CreditTotal(x) /\ SheetBalanced(x)
    <3> DEFINE u == Totals(views)
    <3>1. \A a \in DebitSide(x) \cup CreditSide(x) : u[a] = 0
      BY DEF LedgerInit, Totals, Total, LEDGER_VIEWS, DebitSide, CreditSide
    <3>2. /\ DebitTotal(x) = SumFunctionOnSet(u, DebitSide(x))
          /\ CreditTotal(x) = SumFunctionOnSet(u, CreditSide(x))
      BY SheetSums DEF DebitTotal, CreditTotal, DebitSide, CreditSide
    <3> HIDE DEF u
    <3>3. SumFunctionOnSet(u, DebitSide(x)) = 0 /\ SumFunctionOnSet(u, CreditSide(x)) = 0
      BY <3>1, SheetsFinite, SumZero
    <3> QED
      BY <3>2, <3>3 DEF SheetBalanced
  <2> QED
    BY <2>1, <2>2 DEF BooksBalance
<1>2. LedgerInv /\ BooksBalance /\ [LedgerNext]_ledgerVars => BooksBalance'
  <2> SUFFICES ASSUME LedgerInv, BooksBalance, [LedgerNext]_ledgerVars PROVE BooksBalance'
    OBVIOUS
  <2>1. CASE UNCHANGED <<postings, views>>
    BY <2>1 DEF BooksBalance, SheetBalanced, DebitTotal, CreditTotal
  <2>2. ASSUME NEW j \in Journals, NEW e \in Effect, NEW h \in Holds \cup {NoHold}, NEW r \in Nat,
               NEW S, RecordPosting(j, e, h, r, S)
        PROVE  BooksBalance'
    BY <2>2, RecordPostingBalances
  <2>3. ASSUME NEW h \in Holds, NEW n \in Nat \ {0}, HoldDecrease(h, n) PROVE BooksBalance'
    BY <2>1, <2>3 DEF HoldDecrease
  <2>4. ASSUME NEW j \in Journals, NEW h \in Holds, NEW a \in Accounts, NEW n \in Int, NEW S,
               RecordPosting(j, Movement(a, n), h, 0, S)
        PROVE  BooksBalance'
    BY <2>2, <2>4, MovementType
  <2> QED
    BY <2>1, <2>2, <2>3, <2>4, LedgerStepKinds
<1> QED
  BY <1>1, <1>2, LedgerInvariant, PTL DEF LedgerSpec

-----------------------------------------------------------------------------

\* A recorded posting is the last one, the earlier ones stay, and it moves the
\* ENCUMBERED views by what it says.
LEMMA RecordPostingAppends ==
    ASSUME LedgerInv, NEW j \in Journals, NEW e \in Effect, NEW h \in Holds \cup {NoHold},
           NEW r \in Nat, NEW S, RecordPosting(j, e, h, r, S)
    PROVE  /\ \A i \in DOMAIN postings : i \in DOMAIN postings' /\ postings'[i] = postings[i]
           /\ \E i \in DOMAIN postings' : postings'[i].hold = h /\ postings'[i].effect = e
           /\ \A b \in Accounts :
                 /\ views[b]["ENCUMBERED"] \in Int /\ e[b]["ENCUMBERED"] \in Int
                 /\ views'[b]["ENCUMBERED"] = views[b]["ENCUMBERED"] + Oriented(b, e[b]["ENCUMBERED"])
<1> DEFINE p == [journal |-> j, effect |-> e, hold |-> h, reverses |-> r]
           n == Len(postings)
<1>1. postings \in Seq(Posting) /\ postings' = Append(postings, p) /\ p.hold = h /\ p.effect = e
  BY DEF RecordPosting, LedgerInv, LedgerTypeOK
<1>2. p \in Posting
  BY DEF Posting
<1> HIDE DEF p
<1>3. /\ n \in Nat /\ DOMAIN postings = 1..n /\ DOMAIN postings' = 1..(n + 1)
      /\ \A i \in 1..n : postings'[i] = postings[i]
      /\ postings'[n + 1] = p
  BY <1>1, <1>2
<1>4. /\ \A i \in DOMAIN postings : i \in DOMAIN postings' /\ postings'[i] = postings[i]
      /\ n + 1 \in DOMAIN postings'
  BY <1>3
<1>5. ASSUME NEW b \in Accounts
      PROVE  /\ views[b]["ENCUMBERED"] \in Int /\ e[b]["ENCUMBERED"] \in Int
             /\ views'[b]["ENCUMBERED"] = views[b]["ENCUMBERED"] + Oriented(b, e[b]["ENCUMBERED"])
  BY DEF RecordPosting, LedgerInv, LedgerTypeOK, Effect, LEDGER_VIEWS
<1> QED
  BY <1>1, <1>3, <1>4, <1>5

\* HELD covers each of the holds it adds up.
LEMMA HeldCovers ==
    ASSUME LedgerTypeOK, NEW h \in Holds, holds[h].state = "ACTIVE"
    PROVE  Held(holds[h].account) \in Int /\ Held(holds[h].account) >= holds[h].amount
<1> DEFINE b == holds[h].account
           s == Share(holds, b)
<1>1. b \in Accounts /\ holds[h].amount \in Nat
  BY ActiveHoldType
<1>2. \A g \in Holds : s[g] \in Nat
  BY <1>1, ShareType
<1>3. s[h] = holds[h].amount
  BY DEF Share
<1>4. Held(b) = SumFunctionOnSet(s, Holds)
  BY <1>1, <1>2, HeldAddsShares DEF Held, ActiveHolds
<1> HIDE DEF b, s
<1>5. IsFiniteSet(Holds \ {h})
  BY FiniteAssumption, FS_Subset
<1>6. SumFunctionOnSet(s, Holds \ {h}) \in Nat
  BY <1>2, <1>5, SumNatural
<1>7. \A g \in Holds : s[g] \in Int
  BY <1>2
<1>8. SumFunctionOnSet(s, Holds) = s[h] + SumFunctionOnSet(s, Holds \ {h})
  BY <1>7, FiniteAssumption, SumRemove
<1>9. Held(b) \in Int /\ Held(b) >= holds[h].amount
  BY <1>1, <1>3, <1>4, <1>6, <1>8
<1> QED
  BY <1>9 DEF b

\* On an account whose ENCUMBERED view only holds have moved, hold_decrease is
\* refused: HELD is the view, and what would be left of the hold is less.
LEMMA DecreaseNeedsForeign ==
    ASSUME LedgerTypeOK, NEW h \in Holds, NEW n \in Nat \ {0}, HoldDecrease(h, n)
    PROVE  ~HoldsOk(holds[h].account)
<1>1. /\ holds[h].account \in Accounts /\ holds[h].amount \in Nat /\ holds[h].state = "ACTIVE"
      /\ Held(holds[h].account) \in Int /\ Held(holds[h].account) >= holds[h].amount
  BY ActiveHoldType, HeldCovers DEF HoldDecrease
<1>2. /\ holds[h].amount - n >= views[holds[h].account]["ENCUMBERED"]
      /\ views[holds[h].account]["ENCUMBERED"] \in Int
  BY <1>1 DEF HoldDecrease, DecreaseAllowed, LedgerTypeOK, LEDGER_VIEWS
<1> QED
  BY <1>1, <1>2 DEF HoldsOk

\* Unless an account was posted to behind its holds' back, the sum of its hold
\* records is its ENCUMBERED view, for any number of accounts, holds and
\* postings.
THEOREM HoldsMirrorPostings == LedgerSpec => []HeldMirrorsEncumbered
<1> DEFINE Own(P, b) == \A i \in DOMAIN P : ~Foreign(P[i], b)
<1>1. LedgerInit => HeldMirrorsEncumbered
  <2> SUFFICES ASSUME LedgerInit, NEW b \in Accounts PROVE HoldsOk(b)
    BY DEF HeldMirrorsEncumbered
  <2> DEFINE f == [h \in ActiveHolds(b) |-> holds[h].amount]
  <2>1. DOMAIN f = {} /\ views[b]["ENCUMBERED"] = 0
    BY DEF LedgerInit, ActiveHolds, NotCreated, LEDGER_VIEWS
  <2> HIDE DEF f
  <2>2. SumFunction(f) = 0
    BY <2>1, SumEmpty DEF SumFunction
  <2> QED
    BY <2>1, <2>2 DEF f, HoldsOk, Held
<1>2. LedgerInv /\ LedgerInv' /\ HeldMirrorsEncumbered /\ [LedgerNext]_ledgerVars => HeldMirrorsEncumbered'
  <2> SUFFICES ASSUME LedgerInv, LedgerInv', HeldMirrorsEncumbered, [LedgerNext]_ledgerVars,
                      NEW b \in Accounts, Own(postings', b)
               PROVE  HoldsOk(b)'
    BY DEF HeldMirrorsEncumbered
  <2>t. LedgerTypeOK /\ LedgerTypeOK'
    BY DEF LedgerInv
  <2>1. Own(postings, b) => HoldsOk(b)
    BY DEF HeldMirrorsEncumbered
  <2>2. CASE UNCHANGED <<postings, views, holds>>
    BY <2>1, <2>2 DEF HoldsOk, Held, ActiveHolds
  <2>3. ASSUME NEW j \in Journals, NEW e \in Effect, NEW r \in Nat,
               RecordPosting(j, e, NoHold, r, {}), UNCHANGED holds
        PROVE  HoldsOk(b)'
    <3>1. /\ \A i \in DOMAIN postings : i \in DOMAIN postings' /\ postings'[i] = postings[i]
          /\ \E i \in DOMAIN postings' : postings'[i].hold = NoHold /\ postings'[i].effect = e
          /\ views[b]["ENCUMBERED"] \in Int /\ e[b]["ENCUMBERED"] \in Int
          /\ views'[b]["ENCUMBERED"] = views[b]["ENCUMBERED"] + Oriented(b, e[b]["ENCUMBERED"])
      BY <2>3, RecordPostingAppends
    <3>2. e[b]["ENCUMBERED"] = 0
      BY <3>1 DEF Foreign
    <3>3. views'[b]["ENCUMBERED"] = views[b]["ENCUMBERED"]
      BY <3>1, <3>2 DEF Oriented
    <3>4. HoldsOk(b)
      BY <2>1, <3>1
    <3> QED
      BY <2>3, <3>3, <3>4 DEF HoldsOk, Held, ActiveHolds
  <2>4. ASSUME NEW j \in Journals, NEW h \in Holds, NEW a \in Accounts, NEW n \in Int, NEW S,
               RecordPosting(j, Movement(a, n), h, 0, S), HoldMoves(h, a, n)
        PROVE  HoldsOk(b)'
    <3> DEFINE e == Movement(a, n)
    <3>1. e \in Effect /\ Oriented(b, e[b]["ENCUMBERED"]) = IF b = a THEN n ELSE 0
      BY MovementType DEF Movement, Oriented, LEDGER_VIEWS
    <3>2. RecordPosting(j, e, h, 0, S)
      BY <2>4
    <3> HIDE DEF e
    <3>3. /\ \A i \in DOMAIN postings : i \in DOMAIN postings' /\ postings'[i] = postings[i]
          /\ views[b]["ENCUMBERED"] \in Int
          /\ views'[b]["ENCUMBERED"] = views[b]["ENCUMBERED"] + Oriented(b, e[b]["ENCUMBERED"])
      BY <3>1, <3>2, RecordPostingAppends
    <3>4. HoldsOk(b)
      BY <2>1, <3>3
    <3>5. Held(b)' = Held(b) + (IF b = a THEN n ELSE 0)
      BY <2>t, <2>4, HeldMoved
    <3> QED
      BY <3>1, <3>3, <3>4, <3>5 DEF HoldsOk
  <2>5. ASSUME NEW h \in Holds, NEW n \in Nat \ {0}, HoldDecrease(h, n) PROVE HoldsOk(b)'
    <3>1. UNCHANGED <<postings, views>> /\ HoldsOk(b)
      BY <2>1, <2>5 DEF HoldDecrease
    <3>2. b # holds[h].account
      BY <2>t, <2>5, <3>1, DecreaseNeedsForeign
    <3>3. /\ holds[h].state = "ACTIVE" /\ n \in Nat /\ n <= holds[h].amount
          /\ holds' = [holds EXCEPT ![h] = Reduced(h, n, "RELEASED")]
      BY <2>5 DEF HoldDecrease, DecreaseAllowed
    <3>4. /\ holds[h].account \in Accounts /\ -n \in Int
          /\ HoldMoves(h, holds[h].account, -n)
      <4>1. HoldMoves(h, holds[h].account, -n)
        BY <2>t, <3>3, ReducedMoves
      <4>2. holds[h].account \in Accounts
        BY <2>t, <3>3, ActiveHoldType
      <4> QED
        BY <4>1, <4>2, <3>3
    <3>5. PICK a \in Accounts, m \in Int : a = holds[h].account /\ m = -n
      BY <3>4
    <3>6. HoldMoves(h, a, m) /\ b # a
      BY <3>2, <3>4, <3>5
    <3>7. Held(b) \in Int /\ Held(b)' = Held(b) + 0
      BY <2>t, <3>6, HeldMoved
    <3> QED
      BY <3>1, <3>7 DEF HoldsOk
  <2> HIDE DEF Own
  <2> QED
    BY <2>2, <2>3, <2>4, <2>5, LedgerStepKinds
<1> QED
  BY <1>1, <1>2, LedgerInvariant, PTL DEF LedgerSpec

-----------------------------------------------------------------------------
(* Settlement. *)

SettlementRecord ==
    [state : SettlementState \cup {"NONE"}, legs : SUBSET Obligations,
     linked : SettlementIds \cup {None}, outcome : [Obligations -> LegState \cup {"NONE"}]]

\* What a settlement record says on its own.
Coherent(s, r) ==
    /\ \A o \in Obligations : r.outcome[o] # "NONE" => o \in r.legs
    /\ r.state \notin {"SUBMITTED", "COMPLETED", "FAILED"} =>
          \A o \in Obligations : r.outcome[o] = "NONE"
    /\ r.state = "SUBMITTED" => \A o \in r.legs : r.outcome[o] # "NONE"
    /\ r.state \in {"COMPLETED", "FAILED"} => \A o \in r.legs : r.outcome[o] \in LEG_TERMINAL_STATES
    /\ r.state = "COMPLETED" => \A o \in r.legs : r.outcome[o] = "SETTLED"
    /\ r.state # "NONE" => (r.linked = None <=> s \in Batches)

RecordsCoherent == \A s \in SettlementIds : Coherent(s, settlement[s])

StoreKnows ==
    /\ \A s \in SettlementIds : settlement[s].state # "NONE" => SettlementObject(s) \in store
    /\ \A s \in SettlementIds : certificate[s].state # "NONE" => FinalityObject(s) \in store
    /\ \A c \in Cases : recourse[c].state # "NONE" => CaseObject(c) \in store

ClaimsSettled ==
    \A s \in SettlementIds :
        /\ certificate[s].claims \subseteq SettledLegs(s)
        /\ certificate[s].state = "NONE" => certificate[s].claims = {}

\* A case is about settled legs, a reversal about withdrawn finality; the refund
\* settlement of a case has the legs of the case.
CasesSound ==
    \A c \in Cases :
        /\ recourse[c].state # "NONE" =>
              /\ recourse[c].kind \in RecourseKind
              /\ recourse[c].of \in SettlementIds
              /\ recourse[c].legs \subseteq SettledLegs(recourse[c].of)
              /\ recourse[c].kind = "REVERSAL" => Withdrawn(recourse[c].of)
        /\ settlement[c].state # "NONE" =>
              /\ recourse[c].kind = "REFUND"
              /\ recourse[c].state \in {"COMPILED", "EXECUTED"}
              /\ settlement[c].legs = recourse[c].legs
        /\ recourse[c].kind = "REFUND" /\ recourse[c].state = "EXECUTED" =>
              settlement[c].state = "COMPLETED"

SettleInv ==
    /\ SettlementTypeOK
    /\ RecordsCoherent
    /\ StoreKnows
    /\ ClaimsSettled
    /\ CasesSound
    /\ PostingsExplainLegs
    /\ NoFalseFinality
    /\ ReversalsOnlyWithdrawn

USE DEF SettlementIds, LegIds, LegState, LEG_TERMINAL_STATES, SettlementState, FinalityState,
        RecourseKind, RecourseCaseState, PostingKind
USE DistinctIdsAssumption

\* An engine with no records satisfies the invariant.
LEMMA SettleInitInv == SettlementInit => SettleInv
<1> SUFFICES ASSUME SettlementInit PROVE SettleInv
  OBVIOUS
<1> USE DEF SettlementInit, Absent, NoCertificate, NoCase, NoPostings
<1>0. SettlementTypeOK
  BY DEF SettlementTypeOK
<1>1. RecordsCoherent /\ StoreKnows /\ ClaimsSettled /\ CasesSound
  BY DEF RecordsCoherent, Coherent, StoreKnows, ClaimsSettled, CasesSound, SettledLegs
<1>2. PostingsExplainLegs /\ NoFalseFinality /\ ReversalsOnlyWithdrawn
  BY DEF PostingsExplainLegs, NoFalseFinality, ReversalsOnlyWithdrawn, SettledLegs
<1> QED BY <1>0, <1>1, <1>2 DEF SettleInv

\* A command that replaces the record of one settlement that has not ended
\* preserves the invariant, if no settled leg is lost and the postings fit.
LEMMA SettlementChangeInv ==
    ASSUME SettleInv, NEW s \in SettlementIds, NEW r \in SettlementRecord,
           settlement[s].state \notin {"COMPLETED", "FAILED"},
           Coherent(s, r),
           \A o \in Obligations : settlement[s].outcome[o] = "SETTLED" => r.outcome[o] = "SETTLED",
           s \in Cases => settlement[s].state # "NONE" /\ r.legs = settlement[s].legs,
           settlement' = [settlement EXCEPT ![s] = r],
           UNCHANGED <<certificate, recourse>>,
           store \subseteq store', SettlementObject(s) \in store',
           posted' \in [LegIds -> [PostingKind -> Nat]], PostingsExplainLegs',
           \A l \in LegIds : posted'[l]["REVERSAL"] = posted[l]["REVERSAL"]
    PROVE  SettleInv'
<1> USE DEF SettleInv
<1>0. \A t \in SettlementIds : settlement'[t] = IF t = s THEN r ELSE settlement[t]
  BY DEF SettlementTypeOK
<1>1. SettlementTypeOK'
  BY <1>0 DEF SettlementTypeOK, SettlementRecord, Coherent
<1>2. RecordsCoherent'
  BY <1>0 DEF RecordsCoherent
<1>3. StoreKnows'
  BY <1>0 DEF StoreKnows, SettlementObject
<1>4. \A t \in SettlementIds : SettledLegs(t) \subseteq SettledLegs(t)'
  <2> SUFFICES ASSUME NEW t \in SettlementIds, NEW o \in SettledLegs(t)
               PROVE  o \in SettledLegs(t)'
    OBVIOUS
  <2>1. o \in Obligations /\ o \in settlement[t].legs /\ settlement[t].outcome[o] = "SETTLED"
    BY DEF SettledLegs, SettlementTypeOK
  <2>2. CASE t = s
    <3>1. r.outcome[o] = "SETTLED"
      BY <2>1, <2>2
    <3>2. o \in r.legs
      BY <2>1, <3>1 DEF Coherent
    <3> QED BY <1>0, <2>2, <3>1, <3>2 DEF SettledLegs
  <2>3. CASE t # s
    BY <1>0, <2>1, <2>3 DEF SettledLegs
  <2> QED BY <2>2, <2>3
<1>5. ClaimsSettled'
  BY <1>4 DEF ClaimsSettled
<1>6. CasesSound'
  <2> SUFFICES ASSUME NEW c \in Cases
               PROVE  CasesSound!(c)'
    BY DEF CasesSound
  <2>1. recourse'[c] = recourse[c] /\ (recourse[c].state # "NONE" => recourse[c].of \in SettlementIds)
    BY DEF CasesSound
  <2>2. Withdrawn(recourse[c].of) => Withdrawn(recourse[c].of)'
    BY DEF Withdrawn
  <2>3. CasesSound!(c)!1'
    BY <1>4, <2>1, <2>2 DEF CasesSound
  <2>4. CASE c = s
    BY <1>0, <2>3, <2>4 DEF CasesSound
  <2>5. CASE c # s
    BY <1>0, <2>3, <2>5 DEF CasesSound
  <2> QED BY <2>4, <2>5
<1>7. NoFalseFinality'
  <2>1. certificate[s].state \notin {"ESTABLISHED", "CHALLENGED"}
    BY DEF NoFalseFinality
  <2> QED BY <1>0, <2>1 DEF NoFalseFinality, SettledLegs
<1>8. ReversalsOnlyWithdrawn'
  BY <1>4 DEF ReversalsOnlyWithdrawn, SettlementTypeOK
<1> QED BY <1>1, <1>2, <1>3, <1>5, <1>6, <1>7, <1>8

\* Drafting, authorizing, submitting and cancelling: no leg had an outcome, so
\* none had a posting to explain.
LEMMA SettlementLifecycleInv ==
    ASSUME SettleInv, NEW s \in SettlementIds,
           \/ s \in Batches /\ \E O \in SUBSET Obligations : SettlementCreate(s, O)
           \/ SettlementAuthorize(s) \/ SettlementSubmit(s) \/ SettlementCancel(s)
    PROVE  SettleInv'
<1> USE DEF SettleInv
<1>0. settlement[s] \in SettlementRecord /\ Coherent(s, settlement[s])
  BY DEF SettlementTypeOK, SettlementRecord, RecordsCoherent
<1>a. ASSUME NEW r \in SettlementRecord, Coherent(s, r),
             settlement[s].state \in {"NONE", "DRAFT", "AUTHORIZED"},
             \A o \in Obligations : r.outcome[o] \in {"NONE", "SUBMITTED"},
             s \in Cases => settlement[s].state # "NONE" /\ r.legs = settlement[s].legs,
             settlement' = [settlement EXCEPT ![s] = r],
             UNCHANGED <<certificate, recourse, posted>>,
             store \subseteq store', SettlementObject(s) \in store'
      PROVE  SettleInv'
  <2>1. \A o \in Obligations : settlement[s].outcome[o] = "NONE"
    BY <1>0, <1>a DEF Coherent
  <2>2. \A t \in SettlementIds : settlement'[t] = IF t = s THEN r ELSE settlement[t]
    BY <1>a DEF SettlementTypeOK
  <2>3. PostingsExplainLegs'
    <3> SUFFICES ASSUME NEW t \in SettlementIds, NEW o \in Obligations
                 PROVE  PostingsExplainLegs!(t, o)'
      BY DEF PostingsExplainLegs
    <3>1. PostingsExplainLegs!(t, o) /\ posted'[<<t, o>>] = posted[<<t, o>>]
      BY <1>a DEF PostingsExplainLegs
    <3>2. CASE t = s
      <4>1. settlement[t].outcome[o] = "NONE" /\ settlement'[t].outcome[o] \in {"NONE", "SUBMITTED"}
        BY <1>a, <2>1, <2>2, <3>2
      <4> QED BY <3>1, <4>1
    <3>3. CASE t # s
      BY <2>2, <3>1, <3>3
    <3> QED BY <3>2, <3>3
  <2>4. posted' \in [LegIds -> [PostingKind -> Nat]]
    BY <1>a DEF SettlementTypeOK
  <2>5. \A o \in Obligations : settlement[s].outcome[o] = "SETTLED" => r.outcome[o] = "SETTLED"
    BY <2>1
  <2>6. \A l \in LegIds : posted'[l]["REVERSAL"] = posted[l]["REVERSAL"]
    BY <1>a
  <2> QED BY <1>a, <2>3, <2>4, <2>5, <2>6, SettlementChangeInv
<1>1. CASE s \in Batches /\ \E O \in SUBSET Obligations : SettlementCreate(s, O)
  <2> PICK O \in SUBSET Obligations : SettlementCreate(s, O)
    BY <1>1
  <2> DEFINE r == Drafted(O, None)
  <2>1. settlement[s].state = "NONE"
    BY DEF SettlementCreate, Creates, StoreKnows
  <2>2. r \in SettlementRecord
    BY DEF Drafted, SettlementRecord
  <2>3. Coherent(s, r) /\ \A o \in Obligations : r.outcome[o] \in {"NONE", "SUBMITTED"}
    BY <1>1 DEF Drafted, Coherent
  <2>4. /\ settlement' = [settlement EXCEPT ![s] = r]
        /\ UNCHANGED <<certificate, recourse, posted>>
        /\ store \subseteq store' /\ SettlementObject(s) \in store'
    BY DEF SettlementCreate, Creates
  <2>5. s \notin Cases
    BY <1>1
  <2> HIDE DEF r
  <2> QED BY <1>a, <2>1, <2>2, <2>3, <2>4, <2>5
<1>2. CASE SettlementAuthorize(s)
  <2> DEFINE r == [settlement[s] EXCEPT !.state = "AUTHORIZED"]
  <2>1. /\ settlement[s].state = "DRAFT"
        /\ settlement' = [settlement EXCEPT ![s] = r]
        /\ UNCHANGED <<certificate, recourse, posted>>
        /\ store \subseteq store' /\ SettlementObject(s) \in store'
    BY <1>2 DEF SettlementAuthorize, AdvanceSettlement, Targets
  <2>2. r \in SettlementRecord /\ r.legs = settlement[s].legs
    BY <1>0 DEF SettlementRecord
  <2>3. Coherent(s, r) /\ \A o \in Obligations : r.outcome[o] \in {"NONE", "SUBMITTED"}
    BY <1>0, <2>1 DEF Coherent, SettlementRecord
  <2> HIDE DEF r
  <2> QED BY <1>a, <2>1, <2>2, <2>3
<1>3. CASE SettlementSubmit(s)
  <2> DEFINE r == [settlement[s] EXCEPT !.state = "SUBMITTED",
                                        !.outcome = Submitted(settlement[s].legs)]
  <2>1. /\ settlement[s].state = "AUTHORIZED"
        /\ settlement' = [settlement EXCEPT ![s] = r]
        /\ UNCHANGED <<certificate, recourse, posted>>
        /\ store \subseteq store' /\ SettlementObject(s) \in store'
    BY <1>3 DEF SettlementSubmit, AdvanceSettlement, Targets
  <2>2. r \in SettlementRecord /\ r.legs = settlement[s].legs
    BY <1>0 DEF SettlementRecord, Submitted
  <2>3. Coherent(s, r) /\ \A o \in Obligations : r.outcome[o] \in {"NONE", "SUBMITTED"}
    BY <1>0, <2>1 DEF Coherent, SettlementRecord, Submitted
  <2> HIDE DEF r
  <2> QED BY <1>a, <2>1, <2>2, <2>3
<1>4. CASE SettlementCancel(s)
  <2> DEFINE r == [settlement[s] EXCEPT !.state = "CANCELLED"]
  <2>1. /\ settlement[s].state \in {"DRAFT", "AUTHORIZED"}
        /\ settlement' = [settlement EXCEPT ![s] = r]
        /\ UNCHANGED <<certificate, recourse, posted>>
        /\ store \subseteq store' /\ SettlementObject(s) \in store'
    BY <1>4 DEF SettlementCancel, AdvanceSettlement, Targets
  <2>2. r \in SettlementRecord /\ r.legs = settlement[s].legs
    BY <1>0 DEF SettlementRecord
  <2>3. Coherent(s, r) /\ \A o \in Obligations : r.outcome[o] \in {"NONE", "SUBMITTED"}
    BY <1>0, <2>1 DEF Coherent, SettlementRecord
  <2> HIDE DEF r
  <2> QED BY <1>a, <2>1, <2>2, <2>3
<1> QED BY <1>1, <1>2, <1>3, <1>4

\* An observation list is empty or has a last element.
LEMMA ObservationListFacts ==
    ASSUME NEW S, NEW q \in Seq(S)
    PROVE  /\ q = <<>> => DOMAIN q = {}
           /\ q # <<>> => Len(q) \in Nat \ {0} /\ Len(q) \in DOMAIN q
           /\ DOMAIN q = 1 .. Len(q)
           /\ \A i \in DOMAIN q : q[i] \in S
<1>1. Len(q) \in Nat /\ DOMAIN q = 1 .. Len(q) /\ \A i \in 1 .. Len(q) : q[i] \in S
  OBVIOUS
<1>2. q = <<>> <=> Len(q) = 0
  BY EmptySeq
<1> QED BY <1>1, <1>2

\* A reconciliation: what it posts for a leg is what the change of the outcome
\* of that leg calls for.
LEMMA ReconcileInv ==
    ASSUME SettleInv, NEW s \in SettlementIds,
           NEW obs \in [settlement[s].legs -> Seq(LegState \ {"SUBMITTED"})],
           NEW late \in BOOLEAN, SettlementReconcile(s, obs, late)
    PROVE  SettleInv'
<1> USE DEF SettleInv
<1> DEFINE outcome == [o \in Obligations |-> Folded(s, obs, late, o)]
           r == [settlement[s] EXCEPT !.state = StateOfLegs(settlement[s].legs, outcome),
                                      !.outcome = outcome]
<1>0. /\ settlement[s] \in SettlementRecord /\ Coherent(s, settlement[s])
      /\ settlement[s].state = "SUBMITTED" /\ Foldable(s, obs)
  BY DEF SettlementTypeOK, SettlementRecord, RecordsCoherent, SettlementReconcile
<1>1. /\ settlement' = [settlement EXCEPT ![s] = r]
      /\ UNCHANGED <<certificate, recourse>>
      /\ store \subseteq store' /\ SettlementObject(s) \in store'
      /\ posted' = [l \in LegIds |->
            IF l[1] = s /\ l[2] \in settlement[s].legs
            THEN LegPostings(s, obs, late, l[2]) ELSE posted[l]]
  BY DEF SettlementReconcile, AdvanceSettlement, Targets
<1>2. ASSUME NEW o \in settlement[s].legs
      PROVE  /\ o \in Obligations
             /\ obs[o] \in Seq(LegState \ {"SUBMITTED"})
             /\ outcome[o] = Folded(s, obs, late, o)
             /\ settlement[s].outcome[o] \in LegState
  BY <1>0 DEF SettlementRecord, Coherent
<1>l. ASSUME NEW o \in settlement[s].legs
      PROVE  /\ obs[o] = <<>> => DOMAIN obs[o] = {}
             /\ obs[o] # <<>> => Len(obs[o]) \in Nat \ {0} /\ Len(obs[o]) \in DOMAIN obs[o]
             /\ DOMAIN obs[o] = 1 .. Len(obs[o])
             /\ \A i \in DOMAIN obs[o] : obs[o][i] \in LegState \ {"SUBMITTED"}
  <2> DEFINE S == LegState \ {"SUBMITTED"}
  <2>1. obs[o] \in Seq(S)
    BY <1>l
  <2> HIDE DEF S
  <2>2. /\ obs[o] = <<>> => DOMAIN obs[o] = {}
        /\ obs[o] # <<>> => Len(obs[o]) \in Nat \ {0} /\ Len(obs[o]) \in DOMAIN obs[o]
        /\ DOMAIN obs[o] = 1 .. Len(obs[o])
        /\ \A i \in DOMAIN obs[o] : obs[o][i] \in S
    BY <2>1, ObservationListFacts
  <2> QED BY <2>2 DEF S
<1>3. ASSUME NEW o \in settlement[s].legs, obs[o] = <<>>
      PROVE  /\ outcome[o] = IF late /\ settlement[s].outcome[o] = "SUBMITTED"
                             THEN "UNKNOWN" ELSE settlement[s].outcome[o]
             /\ ~Releases(s, obs, o) /\ ~Settles(obs, o)
             /\ Suspends(s, obs, late, o) <=> late /\ settlement[s].outcome[o] = "SUBMITTED"
  <2>1. DOMAIN obs[o] = {}
    BY <1>3, <1>l
  <2>2. outcome[o] = Folded(s, obs, late, o)
    BY <1>2
  <2>3. Folded(s, obs, late, o) = IF late /\ settlement[s].outcome[o] = "SUBMITTED"
                                  THEN "UNKNOWN" ELSE settlement[s].outcome[o]
    BY <1>3 DEF Folded
  <2> QED BY <1>3, <2>1, <2>2, <2>3 DEF Releases, Settles, Suspends, ObservedUnknown
<1>4. ASSUME NEW o \in settlement[s].legs, obs[o] # <<>>
      PROVE  /\ outcome[o] \in LegState \ {"SUBMITTED"}
             /\ settlement[s].outcome[o] \in {"SUBMITTED", "UNKNOWN"}
             /\ Settles(obs, o) <=> outcome[o] = "SETTLED"
             /\ Suspends(s, obs, late, o) <=>
                   settlement[s].outcome[o] = "SUBMITTED" /\ ObservedUnknown(obs, o)
             /\ Releases(s, obs, o) <=>
                   /\ outcome[o] \in LEG_TERMINAL_STATES
                   /\ settlement[s].outcome[o] = "UNKNOWN" \/ ObservedUnknown(obs, o)
             /\ outcome[o] = "UNKNOWN" => ObservedUnknown(obs, o)
  <2> DEFINE n == Len(obs[o])
  <2>1. n \in Nat \ {0} /\ n \in DOMAIN obs[o] /\ DOMAIN obs[o] = 1 .. n
    BY <1>4, <1>l
  <2>2. outcome[o] = obs[o][n]
    BY <1>2, <1>4 DEF Folded
  <2>3. \A i \in DOMAIN obs[o] : obs[o][i] \in LegState \ {"SUBMITTED"}
    BY <1>l
  <2>4. \A i \in DOMAIN obs[o] : i # n => obs[o][i] \notin LEG_TERMINAL_STATES
    BY <1>0, <2>1 DEF Foldable
  <2>5. settlement[s].outcome[o] \in {"SUBMITTED", "UNKNOWN"}
    BY <1>0, <1>2, <1>4 DEF Foldable
  <2>6. Settles(obs, o) <=> outcome[o] = "SETTLED"
    BY <2>1, <2>2, <2>4 DEF Settles
  <2>7. (\E i \in DOMAIN obs[o] : obs[o][i] \in LEG_TERMINAL_STATES) <=>
            outcome[o] \in LEG_TERMINAL_STATES
    BY <2>1, <2>2, <2>4
  <2>8. outcome[o] = "UNKNOWN" => ObservedUnknown(obs, o)
    BY <2>1, <2>2 DEF ObservedUnknown
  <2>9. outcome[o] \in LegState \ {"SUBMITTED"}
    BY <2>1, <2>2, <2>3
  <2> QED BY <1>4, <2>5, <2>6, <2>7, <2>8, <2>9 DEF Releases, Suspends
<1>5. outcome \in [Obligations -> LegState \cup {"NONE"}]
  <2> SUFFICES ASSUME NEW o \in Obligations PROVE outcome[o] \in LegState \cup {"NONE"}
    OBVIOUS
  <2>1. CASE o \notin settlement[s].legs
    BY <2>1 DEF Folded
  <2>2. CASE o \in settlement[s].legs
    BY <1>2, <1>3, <1>4, <2>2
  <2> QED BY <2>1, <2>2
<1>6. \A o \in Obligations \ settlement[s].legs : outcome[o] = "NONE"
  BY DEF Folded
<1>7. \A o \in settlement[s].legs : outcome[o] # "NONE"
  BY <1>2, <1>3, <1>4
<1>8. \A o \in Obligations : settlement[s].outcome[o] = "SETTLED" => outcome[o] = "SETTLED"
  <2> SUFFICES ASSUME NEW o \in Obligations, settlement[s].outcome[o] = "SETTLED"
               PROVE  outcome[o] = "SETTLED"
    OBVIOUS
  <2>1. o \in settlement[s].legs
    BY <1>0 DEF Coherent
  <2> QED BY <1>3, <1>4, <2>1
<1>10. posted' \in [LegIds -> [PostingKind -> Nat]]
  <2> SUFFICES ASSUME NEW l \in LegIds PROVE posted'[l] \in [PostingKind -> Nat]
    BY <1>1
  <2>1. posted[l] \in [PostingKind -> Nat] /\ l = <<l[1], l[2]>>
    BY DEF SettlementTypeOK
  <2>2. CASE l[1] = s /\ l[2] \in settlement[s].legs
    <3>1. posted'[l] = LegPostings(s, obs, late, l[2])
      BY <1>1, <2>2
    <3>2. posted[<<s, l[2]>>] \in [PostingKind -> Nat]
      BY <2>1, <2>2
    <3>3. \A kind \in PostingKind : LegPostings(s, obs, late, l[2])[kind] \in Nat
      BY <3>2 DEF LegPostings
    <3> QED BY <3>1, <3>3 DEF LegPostings
  <2>3. CASE ~(l[1] = s /\ l[2] \in settlement[s].legs)
    BY <1>1, <2>1, <2>3
  <2> QED BY <2>2, <2>3
<1> HIDE DEF outcome
<1>11. r \in SettlementRecord /\ r.legs = settlement[s].legs /\ r.outcome = outcome
       /\ r.linked = settlement[s].linked /\ r.state = StateOfLegs(settlement[s].legs, outcome)
  BY <1>0, <1>5 DEF SettlementRecord, StateOfLegs
<1> HIDE DEF r
<1>12. Coherent(s, r)
  BY <1>0, <1>5, <1>6, <1>7, <1>11 DEF Coherent, StateOfLegs
<1>13. PostingsExplainLegs'
  <2> SUFFICES ASSUME NEW t \in SettlementIds, NEW o \in Obligations
               PROVE  PostingsExplainLegs!(t, o)'
    BY DEF PostingsExplainLegs
  <2>0. /\ PostingsExplainLegs!(t, o)
        /\ posted[<<t, o>>] \in [PostingKind -> Nat]
    BY DEF PostingsExplainLegs, SettlementTypeOK
  <2>1. CASE t # s
    <3>1. posted'[<<t, o>>] = posted[<<t, o>>] /\ settlement'[t] = settlement[t]
      BY <1>1, <2>1 DEF SettlementTypeOK
    <3> QED BY <2>0, <3>1
  <2>2. CASE t = s /\ o \notin settlement[s].legs
    <3>1. posted'[<<t, o>>] = posted[<<t, o>>] /\ settlement'[t] = r
      BY <1>1, <2>2 DEF SettlementTypeOK
    <3>2. settlement[t].outcome[o] = "NONE" /\ settlement'[t].outcome[o] = "NONE"
      BY <1>0, <1>6, <1>11, <2>2, <3>1 DEF Coherent
    <3> QED BY <2>0, <3>1, <3>2
  <2>3. CASE t = s /\ o \in settlement[s].legs
    <3>1. posted'[<<t, o>>] = LegPostings(s, obs, late, o) /\ settlement'[t].outcome[o] = outcome[o]
      BY <1>1, <1>11, <2>3 DEF SettlementTypeOK
    <3> DEFINE p == posted[<<t, o>>]
               q == posted'[<<t, o>>]
               was == settlement[t].outcome[o]
               paid == IF settlement[s].linked = None THEN "DISCHARGE" ELSE "REFUND"
    <3>2. \A kind \in PostingKind :
             q[kind] = p[kind] + IF \/ kind = "SUSPENSE" /\ Suspends(s, obs, late, o)
                                    \/ kind = "SUSPENSE_RELEASE" /\ Releases(s, obs, o)
                                    \/ kind = paid /\ Settles(obs, o)
                                 THEN 1 ELSE 0
      BY <2>3, <3>1 DEF LegPostings
    <3>3. /\ q["SUSPENSE"] = p["SUSPENSE"] + IF Suspends(s, obs, late, o) THEN 1 ELSE 0
          /\ q["SUSPENSE_RELEASE"] = p["SUSPENSE_RELEASE"] + IF Releases(s, obs, o) THEN 1 ELSE 0
          /\ q["DISCHARGE"] = p["DISCHARGE"] +
                IF settlement[s].linked = None /\ Settles(obs, o) THEN 1 ELSE 0
          /\ q["REFUND"] = p["REFUND"] +
                IF settlement[s].linked # None /\ Settles(obs, o) THEN 1 ELSE 0
      BY <3>2
    <3>4. settlement[s].linked = None <=> s \in Batches
      BY <1>0 DEF Coherent
    <3>5. /\ p \in [PostingKind -> Nat]
          /\ p["SUSPENSE"] = p["SUSPENSE_RELEASE"] + (IF was = "UNKNOWN" THEN 1 ELSE 0)
          /\ p["DISCHARGE"] + p["REFUND"] = (IF was = "SETTLED" THEN 1 ELSE 0)
          /\ p["DISCHARGE"] > 0 => s \in Batches
          /\ p["REFUND"] > 0 => s \in Cases
      BY <2>0, <2>3
    <3>6. was \in LegState
      BY <1>2, <2>3
    <3> HIDE DEF p, q, was, paid
    <3>7. /\ q["SUSPENSE"] = q["SUSPENSE_RELEASE"] + (IF outcome[o] = "UNKNOWN" THEN 1 ELSE 0)
          /\ q["DISCHARGE"] + q["REFUND"] = (IF outcome[o] = "SETTLED" THEN 1 ELSE 0)
          /\ q["DISCHARGE"] > 0 => s \in Batches
          /\ q["REFUND"] > 0 => s \in Cases
      <4>0. was = settlement[s].outcome[o]
        BY <2>3 DEF was
      <4>1. CASE obs[o] = <<>>
        <5>1. /\ outcome[o] = IF late /\ was = "SUBMITTED" THEN "UNKNOWN" ELSE was
              /\ ~Releases(s, obs, o) /\ ~Settles(obs, o)
              /\ Suspends(s, obs, late, o) <=> late /\ was = "SUBMITTED"
          BY <1>3, <2>3, <4>0, <4>1
        <5>2. CASE Suspends(s, obs, late, o)
          <6>1. outcome[o] = "UNKNOWN" /\ was = "SUBMITTED"
            BY <5>1, <5>2
          <6>2. /\ q["SUSPENSE"] = p["SUSPENSE"] + 1
                /\ q["SUSPENSE_RELEASE"] = p["SUSPENSE_RELEASE"] + 0
                /\ q["DISCHARGE"] = p["DISCHARGE"] + 0 /\ q["REFUND"] = p["REFUND"] + 0
            BY <3>3, <5>1, <5>2
          <6>3. p["SUSPENSE"] = p["SUSPENSE_RELEASE"] + 0 /\ p["DISCHARGE"] + p["REFUND"] = 0
            BY <3>5, <6>1
          <6>4. p["SUSPENSE_RELEASE"] \in Nat /\ p["DISCHARGE"] \in Nat /\ p["REFUND"] \in Nat
            BY <3>5
          <6>5. q["SUSPENSE"] = q["SUSPENSE_RELEASE"] + 1 /\ q["DISCHARGE"] = 0 /\ q["REFUND"] = 0
            BY <6>2, <6>3, <6>4
          <6> QED BY <6>1, <6>5
        <5>3. CASE ~Suspends(s, obs, late, o)
          <6>1. outcome[o] = was
            BY <5>1, <5>3
          <6>2. /\ q["SUSPENSE"] = p["SUSPENSE"] + 0
                /\ q["SUSPENSE_RELEASE"] = p["SUSPENSE_RELEASE"] + 0
                /\ q["DISCHARGE"] = p["DISCHARGE"] + 0 /\ q["REFUND"] = p["REFUND"] + 0
            BY <3>3, <5>1, <5>3
          <6>3. /\ p["SUSPENSE"] \in Nat /\ p["SUSPENSE_RELEASE"] \in Nat
                /\ p["DISCHARGE"] \in Nat /\ p["REFUND"] \in Nat
            BY <3>5
          <6>4. /\ q["SUSPENSE"] = p["SUSPENSE"] /\ q["SUSPENSE_RELEASE"] = p["SUSPENSE_RELEASE"]
                /\ q["DISCHARGE"] = p["DISCHARGE"] /\ q["REFUND"] = p["REFUND"]
            BY <6>2, <6>3
          <6> QED BY <3>5, <6>1, <6>4
        <5> QED BY <5>2, <5>3
      <4>2. CASE obs[o] # <<>>
        BY <1>4, <2>3, <3>3, <3>4, <3>5, <3>6, <4>0, <4>2
      <4> QED BY <4>1, <4>2
    <3> QED BY <2>3, <3>1, <3>7 DEF q
  <2> QED BY <2>1, <2>2, <2>3
<1>14. \A l \in LegIds : posted'[l]["REVERSAL"] = posted[l]["REVERSAL"]
  <2> SUFFICES ASSUME NEW l \in LegIds PROVE posted'[l]["REVERSAL"] = posted[l]["REVERSAL"]
    OBVIOUS
  <2>1. posted[l] \in [PostingKind -> Nat] /\ l = <<l[1], l[2]>>
    BY DEF SettlementTypeOK
  <2>2. CASE l[1] = s /\ l[2] \in settlement[s].legs
    <3>1. posted'[l] = LegPostings(s, obs, late, l[2]) /\ posted[<<s, l[2]>>] = posted[l]
      BY <1>1, <2>1, <2>2
    <3>2. LegPostings(s, obs, late, l[2])["REVERSAL"] = posted[<<s, l[2]>>]["REVERSAL"] + 0
      BY DEF LegPostings
    <3> QED BY <2>1, <3>1, <3>2
  <2>3. CASE ~(l[1] = s /\ l[2] \in settlement[s].legs)
    BY <1>1, <2>3
  <2> QED BY <2>2, <2>3
<1> QED BY <1>0, <1>1, <1>8, <1>10, <1>11, <1>12, <1>13, <1>14, SettlementChangeInv

\* The commands on certificates preserve the invariant.
LEMMA FinalityInv ==
    ASSUME SettleInv, NEW s \in SettlementIds,
           \/ \E o \in Obligations : FinalityValidate(s, o)
           \/ FinalityEstablish(s) \/ FinalityChallenge(s) \/ FinalityRevoke(s)
    PROVE  SettleInv'
<1> USE DEF SettleInv
<1>a. ASSUME NEW r, r \in [state : FinalityState, claims : SUBSET Obligations],
             certificate' = [certificate EXCEPT ![s] = r],
             UNCHANGED <<settlement, recourse, posted>>,
             store \subseteq store', FinalityObject(s) \in store',
             r.claims \subseteq SettledLegs(s),
             r.state \in {"ESTABLISHED", "CHALLENGED"} =>
                /\ settlement[s].state \in {"COMPLETED", "FAILED"}
                /\ r.claims = SettledLegs(s) /\ r.claims # {},
             Withdrawn(s) => r.state = "REVOKED"
      PROVE  SettleInv'
  <2>0. /\ \A t \in SettlementIds : certificate'[t] = IF t = s THEN r ELSE certificate[t]
        /\ \A t \in SettlementIds : SettledLegs(t)' = SettledLegs(t)
        /\ \A t \in SettlementIds : Withdrawn(t) => Withdrawn(t)'
    BY <1>a DEF SettlementTypeOK, SettledLegs, Withdrawn
  <2>1. SettlementTypeOK'
    BY <1>a DEF SettlementTypeOK
  <2>2. RecordsCoherent'
    BY <1>a DEF RecordsCoherent, Coherent
  <2>3. StoreKnows'
    BY <1>a, <2>0 DEF StoreKnows, FinalityObject
  <2>4. ClaimsSettled'
    BY <1>a, <2>0 DEF ClaimsSettled
  <2>5. CasesSound'
    BY <1>a, <2>0 DEF CasesSound
  <2>6. PostingsExplainLegs'
    BY <1>a DEF PostingsExplainLegs
  <2>7. NoFalseFinality'
    BY <1>a, <2>0 DEF NoFalseFinality, RecordsCoherent, Coherent
  <2>8. ReversalsOnlyWithdrawn'
    BY <1>a, <2>0 DEF ReversalsOnlyWithdrawn, Withdrawn
  <2> QED BY <2>1, <2>2, <2>3, <2>4, <2>5, <2>6, <2>7, <2>8
<1>0. certificate[s] \in [state : FinalityState \cup {"NONE"}, claims : SUBSET Obligations]
  BY DEF SettlementTypeOK
<1>1. CASE \E o \in Obligations : FinalityValidate(s, o)
  <2> PICK o \in Obligations : FinalityValidate(s, o)
    BY <1>1
  <2> DEFINE r == [state |-> "PENDING", claims |-> certificate[s].claims \cup {o}]
  <2>1. /\ certificate' = [certificate EXCEPT ![s] = r]
        /\ UNCHANGED <<settlement, recourse, posted>>
        /\ store \subseteq store' /\ FinalityObject(s) \in store'
        /\ ~Withdrawn(s)
    BY DEF FinalityValidate, Creates, Targets, Withdrawn
  <2>2. r.claims \subseteq SettledLegs(s)
    BY DEF FinalityValidate, ClaimsSettled
  <2>3. r \in [state : FinalityState, claims : SUBSET Obligations] /\ r.state = "PENDING"
    BY <1>0
  <2> HIDE DEF r
  <2> QED BY <1>a, <2>1, <2>2, <2>3
<1>2. ASSUME NEW from \in SUBSET FinalityState, NEW to \in FinalityState,
             AdvanceFinality(s, from, to),
             to \in {"ESTABLISHED", "CHALLENGED"} =>
                /\ settlement[s].state \in {"COMPLETED", "FAILED"}
                /\ certificate[s].claims = SettledLegs(s) /\ certificate[s].claims # {},
             Withdrawn(s) => to = "REVOKED"
      PROVE  SettleInv'
  <2> DEFINE r == [certificate[s] EXCEPT !.state = to]
  <2>1. /\ certificate' = [certificate EXCEPT ![s] = r]
        /\ UNCHANGED <<settlement, recourse, posted>>
        /\ store \subseteq store' /\ FinalityObject(s) \in store'
    BY <1>2 DEF AdvanceFinality, Targets
  <2>2. /\ r \in [state : FinalityState, claims : SUBSET Obligations]
        /\ r.state = to /\ r.claims = certificate[s].claims
    BY <1>0
  <2>3. r.claims \subseteq SettledLegs(s)
    BY <2>2 DEF ClaimsSettled
  <2> HIDE DEF r
  <2> QED BY <1>2, <1>a, <2>1, <2>2, <2>3
<1>3. CASE FinalityEstablish(s)
  BY <1>2, <1>3 DEF FinalityEstablish, Certifiable, Withdrawn, AdvanceFinality
<1>4. CASE FinalityChallenge(s)
  BY <1>2, <1>4 DEF FinalityChallenge, NoFalseFinality, Withdrawn, AdvanceFinality
<1>5. CASE FinalityRevoke(s)
  BY <1>2, <1>5 DEF FinalityRevoke
<1> QED BY <1>1, <1>3, <1>4, <1>5

\* The commands on cases preserve the invariant.
LEMMA RecourseInv ==
    ASSUME SettleInv, NEW c \in Cases, RecourseStep(c)
    PROVE  SettleInv'
<1> USE DEF SettleInv
<1>0. recourse[c] \in [state : RecourseCaseState \cup {"NONE"}, kind : RecourseKind \cup {"NONE"},
                       of : SettlementIds \cup {None}, legs : SUBSET Obligations]
  BY DEF SettlementTypeOK
\* What changes only cases.
<1>a. ASSUME NEW r \in [state : RecourseCaseState, kind : RecourseKind, of : SettlementIds,
                        legs : SUBSET Obligations],
             recourse' = [recourse EXCEPT ![c] = r],
             UNCHANGED <<settlement, certificate, posted>>,
             store \subseteq store', CaseObject(c) \in store',
             r.legs \subseteq SettledLegs(r.of),
             r.kind = "REVERSAL" => Withdrawn(r.of),
             settlement[c].state # "NONE" =>
                r.kind = "REFUND" /\ r.state \in {"COMPILED", "EXECUTED"} /\ r.legs = recourse[c].legs,
             r.kind = "REFUND" /\ r.state = "EXECUTED" => settlement[c].state = "COMPLETED"
      PROVE  SettleInv'
  <2>0. /\ \A d \in Cases : recourse'[d] = IF d = c THEN r ELSE recourse[d]
        /\ \A t \in SettlementIds : SettledLegs(t)' = SettledLegs(t)
        /\ \A t \in SettlementIds : Withdrawn(t)' = Withdrawn(t)
    BY <1>a DEF SettlementTypeOK, SettledLegs, Withdrawn
  <2>1. SettlementTypeOK'
    BY <1>a DEF SettlementTypeOK
  <2>2. RecordsCoherent'
    BY <1>a DEF RecordsCoherent, Coherent
  <2>3. StoreKnows'
    BY <1>a, <2>0 DEF StoreKnows, CaseObject
  <2>4. ClaimsSettled'
    BY <1>a, <2>0 DEF ClaimsSettled
  <2>5. CasesSound'
    BY <1>a, <2>0 DEF CasesSound
  <2>6. PostingsExplainLegs' /\ NoFalseFinality' /\ ReversalsOnlyWithdrawn'
    BY <1>a, <2>0 DEF PostingsExplainLegs, NoFalseFinality, ReversalsOnlyWithdrawn
  <2> QED BY <2>1, <2>2, <2>3, <2>4, <2>5, <2>6
<1>1. CASE \E kind \in RecourseKind, s \in SettlementIds, O \in SUBSET Obligations :
              RecourseRequest(c, kind, s, O)
  <2> PICK kind \in RecourseKind, s \in SettlementIds, O \in SUBSET Obligations :
              RecourseRequest(c, kind, s, O)
    BY <1>1
  <2> DEFINE r == [state |-> "REQUESTED", kind |-> kind, of |-> s, legs |-> O]
  <2>1. /\ recourse' = [recourse EXCEPT ![c] = r]
        /\ UNCHANGED <<settlement, certificate, posted>>
        /\ store \subseteq store' /\ CaseObject(c) \in store'
        /\ r.legs \subseteq SettledLegs(r.of) /\ (r.kind = "REVERSAL" => Withdrawn(r.of))
    BY DEF RecourseRequest, Creates
  <2>2. recourse[c].state = "NONE"
    BY DEF RecourseRequest, Creates, StoreKnows
  <2>3. settlement[c].state = "NONE"
    BY <2>2 DEF CasesSound
  <2>4. r \in [state : RecourseCaseState, kind : RecourseKind, of : SettlementIds,
               legs : SUBSET Obligations] /\ r.state = "REQUESTED"
    OBVIOUS
  <2> HIDE DEF r
  <2> QED BY <1>a, <2>1, <2>3, <2>4
\* The new record of a case that moves on.
<1>b. ASSUME NEW from, NEW to \in RecourseCaseState, AdvanceRecourse(c, from, to), "NONE" \notin from
      PROVE  LET r == [recourse[c] EXCEPT !.state = to]
             IN /\ recourse' = [recourse EXCEPT ![c] = r]
                /\ r \in [state : RecourseCaseState, kind : RecourseKind, of : SettlementIds,
                          legs : SUBSET Obligations]
                /\ r.state = to /\ r.kind = recourse[c].kind /\ r.of = recourse[c].of
                /\ r.legs = recourse[c].legs
                /\ r.legs \subseteq SettledLegs(r.of)
                /\ r.kind = "REVERSAL" => Withdrawn(r.of)
  <2> DEFINE r == [recourse[c] EXCEPT !.state = to]
  <2>1. recourse[c].state # "NONE" /\ recourse' = [recourse EXCEPT ![c] = r]
    BY <1>b DEF AdvanceRecourse
  <2>2. /\ recourse[c].kind \in RecourseKind
        /\ recourse[c].of \in SettlementIds /\ recourse[c].legs \subseteq SettledLegs(recourse[c].of)
        /\ recourse[c].kind = "REVERSAL" => Withdrawn(recourse[c].of)
    BY <2>1 DEF CasesSound
  <2>3. /\ r.state = to /\ r.kind = recourse[c].kind /\ r.of = recourse[c].of
        /\ r.legs = recourse[c].legs
        /\ r \in [state : RecourseCaseState, kind : RecourseKind, of : SettlementIds,
                  legs : SUBSET Obligations]
    BY <1>0, <2>2
  <2> QED BY <2>1, <2>2, <2>3

<1>2. CASE \E approved \in BOOLEAN : RecourseDecide(c, approved)
  <2> PICK approved \in BOOLEAN : RecourseDecide(c, approved)
    BY <1>2
  <2> DEFINE to == IF approved THEN "APPROVED" ELSE "REJECTED"
             r == [recourse[c] EXCEPT !.state = to]
  <2>1. /\ AdvanceRecourse(c, {"REQUESTED"}, to)
        /\ UNCHANGED <<settlement, certificate, posted>>
        /\ store \subseteq store' /\ CaseObject(c) \in store'
        /\ recourse[c].state = "REQUESTED"
    BY DEF RecourseDecide, AdvanceRecourse, Targets
  <2>2. to \in {"APPROVED", "REJECTED"}
    OBVIOUS
  <2> HIDE DEF to
  <2>3. /\ recourse' = [recourse EXCEPT ![c] = r] /\ r.state = to
        /\ r \in [state : RecourseCaseState, kind : RecourseKind, of : SettlementIds,
                  legs : SUBSET Obligations]
        /\ r.legs \subseteq SettledLegs(r.of) /\ (r.kind = "REVERSAL" => Withdrawn(r.of))
    BY <1>b, <2>1, <2>2
  <2>4. settlement[c].state = "NONE"
    BY <2>1 DEF CasesSound
  <2> HIDE DEF r
  <2> QED BY <1>a, <2>1, <2>2, <2>3, <2>4
<1>3. CASE RefundExecute(c)
  <2> DEFINE r == [recourse[c] EXCEPT !.state = "EXECUTED"]
  <2>1. /\ AdvanceRecourse(c, {"COMPILED"}, "EXECUTED")
        /\ UNCHANGED <<settlement, certificate, posted>>
        /\ store \subseteq store' /\ CaseObject(c) \in store'
        /\ settlement[c].state = "COMPLETED"
    BY <1>3 DEF RefundExecute, AdvanceRecourse, Targets, Refunded
  <2>2. /\ recourse' = [recourse EXCEPT ![c] = r] /\ r.state = "EXECUTED"
        /\ r.kind = recourse[c].kind /\ r.legs = recourse[c].legs
        /\ r \in [state : RecourseCaseState, kind : RecourseKind, of : SettlementIds,
                  legs : SUBSET Obligations]
        /\ r.legs \subseteq SettledLegs(r.of) /\ (r.kind = "REVERSAL" => Withdrawn(r.of))
    BY <1>b, <2>1
  <2>3. recourse[c].kind = "REFUND"
    BY <2>1 DEF CasesSound
  <2> HIDE DEF r
  <2> QED BY <1>a, <2>1, <2>2, <2>3
<1>4. CASE ReversalExecute(c)
  <2> DEFINE r == [recourse[c] EXCEPT !.state = "EXECUTED"]
  <2>1. /\ AdvanceRecourse(c, {"APPROVED"}, "EXECUTED")
        /\ UNCHANGED <<settlement, certificate>>
        /\ store' = store
        /\ recourse[c].kind = "REVERSAL" /\ recourse[c].state = "APPROVED"
        /\ posted' = [l \in LegIds |->
              IF l[1] = recourse[c].of /\ l[2] \in recourse[c].legs
              THEN [posted[l] EXCEPT !["REVERSAL"] = @ + 1] ELSE posted[l]]
    BY <1>4 DEF ReversalExecute, AdvanceRecourse, Targets
  <2>2. /\ recourse' = [recourse EXCEPT ![c] = r] /\ r.state = "EXECUTED"
        /\ r.kind = "REVERSAL" /\ r.of = recourse[c].of /\ r.legs = recourse[c].legs
        /\ r \in [state : RecourseCaseState, kind : RecourseKind, of : SettlementIds,
                  legs : SUBSET Obligations]
        /\ r.legs \subseteq SettledLegs(r.of) /\ Withdrawn(r.of)
    BY <1>b, <2>1
  <2> HIDE DEF r
  <2>3. settlement[c].state = "NONE"
    BY <2>1 DEF CasesSound
  <2>4. /\ \A d \in Cases : recourse'[d] = IF d = c THEN r ELSE recourse[d]
        /\ \A t \in SettlementIds : SettledLegs(t)' = SettledLegs(t)
        /\ \A t \in SettlementIds : Withdrawn(t)' = Withdrawn(t)
    BY <2>1, <2>2 DEF SettlementTypeOK, SettledLegs, Withdrawn
  <2>5. ASSUME NEW l \in LegIds
        PROVE  /\ posted'[l] \in [PostingKind -> Nat]
               /\ \A kind \in PostingKind \ {"REVERSAL"} : posted'[l][kind] = posted[l][kind]
               /\ posted'[l]["REVERSAL"] > 0 =>
                     posted[l]["REVERSAL"] > 0 \/ (l[1] = recourse[c].of /\ l[2] \in recourse[c].legs)
    <3>1. posted[l] \in [PostingKind -> Nat]
      BY DEF SettlementTypeOK
    <3>2. posted'[l] = IF l[1] = recourse[c].of /\ l[2] \in recourse[c].legs
                       THEN [posted[l] EXCEPT !["REVERSAL"] = @ + 1] ELSE posted[l]
      BY <2>1
    <3>3. CASE l[1] = recourse[c].of /\ l[2] \in recourse[c].legs
      BY <3>1, <3>2, <3>3
    <3>4. CASE ~(l[1] = recourse[c].of /\ l[2] \in recourse[c].legs)
      BY <3>1, <3>2, <3>4
    <3> QED BY <3>3, <3>4
  <2>6. SettlementTypeOK'
    <3>1. posted' \in [LegIds -> [PostingKind -> Nat]]
      BY <2>1, <2>5
    <3> QED BY <2>1, <2>2, <3>1 DEF SettlementTypeOK
  <2>7. RecordsCoherent' /\ StoreKnows' /\ ClaimsSettled' /\ NoFalseFinality'
    BY <2>1, <2>4 DEF RecordsCoherent, Coherent, StoreKnows, ClaimsSettled, NoFalseFinality
  <2>8. CasesSound'
    BY <2>1, <2>2, <2>3, <2>4 DEF CasesSound
  <2>9. PostingsExplainLegs'
    <3> SUFFICES ASSUME NEW t \in SettlementIds, NEW o \in Obligations
                 PROVE  PostingsExplainLegs!(t, o)'
      BY DEF PostingsExplainLegs
    <3>1. PostingsExplainLegs!(t, o)
      BY DEF PostingsExplainLegs
    <3>2. /\ posted'[<<t, o>>]["SUSPENSE"] = posted[<<t, o>>]["SUSPENSE"]
          /\ posted'[<<t, o>>]["SUSPENSE_RELEASE"] = posted[<<t, o>>]["SUSPENSE_RELEASE"]
          /\ posted'[<<t, o>>]["DISCHARGE"] = posted[<<t, o>>]["DISCHARGE"]
          /\ posted'[<<t, o>>]["REFUND"] = posted[<<t, o>>]["REFUND"]
      BY <2>5
    <3> QED BY <2>1, <3>1, <3>2
  <2>10. ReversalsOnlyWithdrawn'
    <3> SUFFICES ASSUME NEW t \in SettlementIds, NEW o \in Obligations,
                        posted'[<<t, o>>]["REVERSAL"] > 0
                 PROVE  certificate[t].state \in {"CHALLENGED", "REVOKED"} /\ o \in SettledLegs(t)
      BY <2>1, <2>4 DEF ReversalsOnlyWithdrawn
    <3>1. CASE posted[<<t, o>>]["REVERSAL"] > 0
      BY <3>1 DEF ReversalsOnlyWithdrawn
    <3>2. CASE t = recourse[c].of /\ o \in recourse[c].legs
      BY <2>2, <3>2 DEF Withdrawn
    <3>3. posted[<<t, o>>]["REVERSAL"] > 0 \/ (t = recourse[c].of /\ o \in recourse[c].legs)
      BY <2>5
    <3> QED BY <3>1, <3>2, <3>3
  <2> QED BY <2>6, <2>7, <2>8, <2>9, <2>10
<1>5. CASE RefundCompile(c)
  <2> DEFINE r == [recourse[c] EXCEPT !.state = "COMPILED"]
             d == Drafted(recourse[c].legs, recourse[c].of)
  <2>1. /\ AdvanceRecourse(c, {"APPROVED"}, "COMPILED")
        /\ UNCHANGED <<certificate, posted>>
        /\ store \subseteq store' /\ CaseObject(c) \in store' /\ SettlementObject(c) \in store'
        /\ recourse[c].kind = "REFUND" /\ settlement[c] = Absent
        /\ settlement' = [settlement EXCEPT ![c] = d]
    BY <1>5 DEF RefundCompile, AdvanceRecourse, Creates
  <2>2. /\ recourse' = [recourse EXCEPT ![c] = r] /\ r.state = "COMPILED"
        /\ r.kind = "REFUND" /\ r.of = recourse[c].of /\ r.legs = recourse[c].legs
        /\ r \in [state : RecourseCaseState, kind : RecourseKind, of : SettlementIds,
                  legs : SUBSET Obligations]
        /\ r.legs \subseteq SettledLegs(r.of)
    BY <1>b, <2>1
  <2>3. /\ d \in SettlementRecord /\ d.legs = recourse[c].legs /\ d.state = "DRAFT"
        /\ Coherent(c, d) /\ \A o \in Obligations : d.outcome[o] = "NONE"
    BY <1>0, <2>2 DEF Drafted, SettlementRecord, Coherent
  <2> HIDE DEF r, d
  <2>4. /\ \A e \in Cases : recourse'[e] = IF e = c THEN r ELSE recourse[e]
        /\ \A t \in SettlementIds : settlement'[t] = IF t = c THEN d ELSE settlement[t]
    BY <2>1, <2>2 DEF SettlementTypeOK
  <2>5. /\ \A t \in SettlementIds : SettledLegs(t)' = SettledLegs(t)
        /\ \A t \in SettlementIds : Withdrawn(t)' = Withdrawn(t)
    BY <2>1, <2>3, <2>4 DEF SettledLegs, Withdrawn, Absent, SettlementTypeOK
  <2>6. SettlementTypeOK'
    BY <2>1, <2>2, <2>3, <2>4 DEF SettlementTypeOK, SettlementRecord
  <2>7. RecordsCoherent' /\ StoreKnows' /\ ClaimsSettled'
    BY <2>1, <2>3, <2>4, <2>5 DEF RecordsCoherent, StoreKnows, ClaimsSettled, SettlementObject, CaseObject
  <2>8. CasesSound'
    BY <2>1, <2>2, <2>3, <2>4, <2>5 DEF CasesSound
  <2>9. PostingsExplainLegs'
    <3> SUFFICES ASSUME NEW t \in SettlementIds, NEW o \in Obligations
                 PROVE  PostingsExplainLegs!(t, o)'
      BY DEF PostingsExplainLegs
    <3>1. PostingsExplainLegs!(t, o) /\ posted'[<<t, o>>] = posted[<<t, o>>]
      BY <2>1 DEF PostingsExplainLegs
    <3>2. settlement'[t].outcome[o] = settlement[t].outcome[o]
      BY <2>1, <2>3, <2>4 DEF Absent
    <3> QED BY <3>1, <3>2
  <2>10. NoFalseFinality'
    <3>1. \A s \in SettlementIds : certificate[s].state \in {"ESTABLISHED", "CHALLENGED"} => s # c
      BY <2>1 DEF NoFalseFinality, Absent
    <3> QED BY <2>1, <2>4, <2>5, <3>1 DEF NoFalseFinality
  <2>11. ReversalsOnlyWithdrawn'
    BY <2>1, <2>5 DEF ReversalsOnlyWithdrawn
  <2> QED BY <2>6, <2>7, <2>8, <2>9, <2>10, <2>11
<1> QED BY <1>1, <1>2, <1>3, <1>4, <1>5 DEF RecourseStep

\* Every step preserves the invariant.
LEMMA SettleStepInv == SettleInv /\ [SettlementNext]_settlementVars => SettleInv'
<1> SUFFICES ASSUME SettleInv, [SettlementNext]_settlementVars PROVE SettleInv'
  OBVIOUS
<1>1. CASE \E s \in Batches : \E O \in Drafts[s] : SettlementCreate(s, O)
  <2> PICK s \in Batches : \E O \in Drafts[s] : SettlementCreate(s, O)
    BY <1>1
  <2>1. \E O \in SUBSET Obligations : SettlementCreate(s, O)
    BY DraftsAssumption
  <2> QED BY <2>1, SettlementLifecycleInv
<1>2. CASE \E s \in SettlementIds : SettlementStep(s)
  <2> PICK s \in SettlementIds : SettlementStep(s)
    BY <1>2
  <2>1. CASE SettlementAuthorize(s) \/ SettlementSubmit(s) \/ SettlementCancel(s)
    BY <2>1, SettlementLifecycleInv
  <2>2. CASE \E obs \in [settlement[s].legs -> ObservationLists], late \in BOOLEAN :
                SettlementReconcile(s, obs, late)
    <3> PICK obs \in [settlement[s].legs -> ObservationLists], late \in BOOLEAN :
                SettlementReconcile(s, obs, late)
      BY <2>2
    <3> DEFINE S == LegState \ {"SUBMITTED"}
    <3>1. ObservationLists \subseteq Seq(S)
      <4> HIDE DEF S
      <4> SUFFICES ASSUME NEW n \in 0 .. MaxObservations, NEW q \in [1 .. n -> S]
                   PROVE  q \in Seq(S)
        BY DEF ObservationLists, S
      <4>1. n \in Nat
        BY BoundsAssumption
      <4> QED BY <4>1
    <3>2. obs \in [settlement[s].legs -> Seq(S)]
      <4> HIDE DEF S
      <4> QED BY <3>1
    <3> QED BY <3>2, ReconcileInv
  <2>3. CASE \/ \E o \in Obligations : FinalityValidate(s, o)
             \/ FinalityEstablish(s) \/ FinalityChallenge(s) \/ FinalityRevoke(s)
    BY <2>3, FinalityInv
  <2> QED BY <2>1, <2>2, <2>3 DEF SettlementStep
<1>3. CASE \E c \in Cases : RecourseStep(c)
  BY <1>3, RecourseInv
<1>4. CASE UNCHANGED settlementVars
  BY <1>4 DEF settlementVars, SettleInv, SettlementTypeOK, RecordsCoherent, Coherent, StoreKnows,
         ClaimsSettled, CasesSound, PostingsExplainLegs, NoFalseFinality, ReversalsOnlyWithdrawn,
         SettledLegs, Withdrawn
<1> QED BY <1>1, <1>2, <1>3, <1>4 DEF SettlementNext

\* The invariant holds throughout.
THEOREM SettlementInvariant == SettlementSpec => []SettleInv
<1>1. SettlementInit => SettleInv
  BY SettleInitInv
<1>2. SettleInv /\ [SettlementNext]_settlementVars => SettleInv'
  BY SettleStepInv
<1> QED BY <1>1, <1>2, PTL DEF SettlementSpec

\* Records keep their types: legs without a settlement have no outcome.
THEOREM SettlementTypeCorrect == SettlementSpec => []SettlementTypeOK
<1>1. SettleInv => SettlementTypeOK
  BY DEF SettleInv
<1> QED BY <1>1, SettlementInvariant, PTL

\* The journal and the legs agree: suspense is open for UNKNOWN legs only, and
\* exactly the settled legs were discharged or refunded, once.
THEOREM JournalMatchesLegs == SettlementSpec => []PostingsExplainLegs
<1>1. SettleInv => PostingsExplainLegs
  BY DEF SettleInv
<1> QED BY <1>1, SettlementInvariant, PTL

\* An established certificate covers exactly the settled legs of a settlement
\* that has ended.
THEOREM FinalityNeverOverstated == SettlementSpec => []NoFalseFinality
<1>1. SettleInv => NoFalseFinality
  BY DEF SettleInv
<1> QED BY <1>1, SettlementInvariant, PTL

\* Discharges are reversed only after finality was withdrawn.
THEOREM NoReversalOfFinal == SettlementSpec => []ReversalsOnlyWithdrawn
<1>1. SettleInv => ReversalsOnlyWithdrawn
  BY DEF SettleInv
<1> QED BY <1>1, SettlementInvariant, PTL

\* An executed refund paid every leg of its case back, once.
THEOREM RefundsPaid == SettlementSpec => []ExecutedRefundsPaid
<1>1. SettleInv => ExecutedRefundsPaid
  <2> SUFFICES ASSUME SettleInv, NEW c \in Cases, NEW o \in recourse[c].legs,
                      recourse[c].kind = "REFUND", recourse[c].state = "EXECUTED"
               PROVE  posted[<<c, o>>]["REFUND"] = 1
    BY DEF ExecutedRefundsPaid
  <2> USE DEF SettleInv
  <2>1. settlement[c].state = "COMPLETED" /\ settlement[c].legs = recourse[c].legs /\ o \in Obligations
    BY DEF CasesSound, SettlementTypeOK
  <2>2. settlement[c].outcome[o] = "SETTLED"
    BY <2>1 DEF RecordsCoherent, Coherent
  <2>3. /\ posted[<<c, o>>] \in [PostingKind -> Nat]
        /\ posted[<<c, o>>]["DISCHARGE"] + posted[<<c, o>>]["REFUND"] = 1
        /\ posted[<<c, o>>]["DISCHARGE"] > 0 => c \in Batches
    BY <2>1, <2>2 DEF PostingsExplainLegs, SettlementTypeOK
  <2> QED BY <2>3
<1> QED BY <1>1, SettlementInvariant, PTL

\* A settlement that has not ended.
Live(s) == settlement[s].state \in SettlementState \ SETTLEMENT_TERMINAL_STATES

\* A settlement that is live after a step was live with the same legs before, or
\* was drafted by the step.
LEMMA LiveBefore ==
    ASSUME SettlementTypeOK, [SettlementNext]_settlementVars
    PROVE  \/ \A s \in Batches : Live(s)' => Live(s) /\ settlement'[s].legs = settlement[s].legs
           \/ \E s \in Batches, O \in SUBSET Obligations : SettlementCreate(s, O)
<1> USE DEF Live, SETTLEMENT_TERMINAL_STATES
<1>0. \A s \in SettlementIds : settlement[s] \in SettlementRecord
  BY DEF SettlementTypeOK, SettlementRecord
<1>1. CASE \E s \in Batches : \E O \in Drafts[s] : SettlementCreate(s, O)
  BY <1>1, DraftsAssumption
<1>2. CASE \E s \in SettlementIds : SettlementStep(s)
  <2> PICK s \in SettlementIds : SettlementStep(s)
    BY <1>2
  <2>a. ASSUME NEW from \in SUBSET {"DRAFT", "AUTHORIZED", "SUBMITTED"}, NEW r,
               AdvanceSettlement(s, from, r), r.legs = settlement[s].legs
        PROVE  \A t \in Batches : Live(t)' => Live(t) /\ settlement'[t].legs = settlement[t].legs
    <3>1. \A t \in SettlementIds : settlement'[t] = IF t = s THEN r ELSE settlement[t]
      BY <2>a DEF AdvanceSettlement, SettlementTypeOK
    <3>2. Live(s)
      BY <2>a DEF AdvanceSettlement
    <3> QED BY <2>a, <3>1, <3>2
  <2>1. CASE SettlementAuthorize(s)
    <3>1. [settlement[s] EXCEPT !.state = "AUTHORIZED"].legs = settlement[s].legs
      BY <1>0 DEF SettlementRecord
    <3> QED BY <2>1, <2>a, <3>1 DEF SettlementAuthorize
  <2>2. CASE SettlementSubmit(s)
    <3>1. [settlement[s] EXCEPT !.state = "SUBMITTED",
                                !.outcome = Submitted(settlement[s].legs)].legs = settlement[s].legs
      BY <1>0 DEF SettlementRecord
    <3> QED BY <2>2, <2>a, <3>1 DEF SettlementSubmit
  <2>3. CASE SettlementCancel(s)
    <3>1. [settlement[s] EXCEPT !.state = "CANCELLED"].legs = settlement[s].legs
      BY <1>0 DEF SettlementRecord
    <3> QED BY <2>3, <2>a, <3>1 DEF SettlementCancel
  <2>4. CASE \E obs \in [settlement[s].legs -> ObservationLists], late \in BOOLEAN :
                SettlementReconcile(s, obs, late)
    <3> PICK obs \in [settlement[s].legs -> ObservationLists], late \in BOOLEAN :
                SettlementReconcile(s, obs, late)
      BY <2>4
    <3> DEFINE outcome == [o \in Obligations |-> Folded(s, obs, late, o)]
               r == [settlement[s] EXCEPT !.state = StateOfLegs(settlement[s].legs, outcome),
                                          !.outcome = outcome]
    <3>1. AdvanceSettlement(s, {"SUBMITTED"}, r)
      BY DEF SettlementReconcile
    <3>2. r.legs = settlement[s].legs
      BY <1>0 DEF SettlementRecord
    <3> HIDE DEF r
    <3> QED BY <2>a, <3>1, <3>2
  <2>5. CASE UNCHANGED settlement
    BY <2>5
  <2> QED BY <2>1, <2>2, <2>3, <2>4, <2>5
       DEF SettlementStep, FinalityValidate, FinalityEstablish, FinalityChallenge, FinalityRevoke,
           AdvanceFinality
<1>3. CASE \E c \in Cases : RecourseStep(c)
  <2> PICK c \in Cases : RecourseStep(c)
    BY <1>3
  <2>1. \A t \in Batches : settlement'[t] = settlement[t]
    BY DEF RecourseStep, RecourseRequest, RecourseDecide, RefundCompile, RefundExecute,
           ReversalExecute, SettlementTypeOK
  <2> QED BY <2>1
<1>4. CASE UNCHANGED settlementVars
  BY <1>4 DEF settlementVars
<1> QED BY <1>1, <1>2, <1>3, <1>4 DEF SettlementNext

\* An obligation is never a leg of two live settlements.
THEOREM LiveSettlementsDisjoint == SettlementSpec => []LiveSettlementExclusive
<1>1. SettlementInit => LiveSettlementExclusive
  BY DEF SettlementInit, Absent, LiveSettlementExclusive
<1>2. SettleInv /\ LiveSettlementExclusive /\ [SettlementNext]_settlementVars => LiveSettlementExclusive'
  <2> SUFFICES ASSUME SettlementTypeOK, LiveSettlementExclusive, [SettlementNext]_settlementVars
               PROVE  LiveSettlementExclusive'
    BY DEF SettleInv
  <2>1. CASE \A s \in Batches : Live(s)' => Live(s) /\ settlement'[s].legs = settlement[s].legs
    BY <2>1 DEF LiveSettlementExclusive, Live
  <2>2. CASE \E s \in Batches, O \in SUBSET Obligations : SettlementCreate(s, O)
    <3> PICK s \in Batches, O \in SUBSET Obligations : SettlementCreate(s, O)
      BY <2>2
    <3>1. \A t \in SettlementIds : settlement'[t] = IF t = s THEN Drafted(O, None) ELSE settlement[t]
      BY DEF SettlementCreate, SettlementTypeOK
    <3>2. Drafted(O, None).legs = O
      BY DEF Drafted
    <3>3. \A t \in Batches : Live(t) => settlement[t].legs \cap O = {}
      BY DEF SettlementCreate, SettlementExclusive, Live, SETTLEMENT_TERMINAL_STATES
    <3> QED BY <3>1, <3>2, <3>3 DEF LiveSettlementExclusive, Live
  <2> QED BY <2>1, <2>2, LiveBefore
<1> QED BY <1>1, <1>2, SettlementInvariant, PTL DEF SettlementSpec

=============================================================================
