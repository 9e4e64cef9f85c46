----------------------------- MODULE ValueLedger -----------------------------
(***************************************************************************)
(* The value ledger (src/src/value/ledger.py with account.py, asset.py,    *)
(* journal.py, hold.py and posting.py): double-entry postings in journals, *)
(* holds that move value between two views of an account, reversals and    *)
(* reconciliation.  The ledger derives every balance from the postings,    *)
(* which are never removed; the model keeps the derived balances in        *)
(* `views`, and BooksBalance says that they are what the postings add up   *)
(* to.  An operation the code refuses with an exception changes nothing    *)
(* and is a step the model does not have.                                  *)
(***************************************************************************)
EXTENDS Integers, Sequences, FiniteSets, Functions

CONSTANTS
    Assets,         \* asset codes
    Accounts,       \* account ids
    Journals,       \* journal ids
    Holds,          \* hold ids
    NoHold,         \* "the posting belongs to no hold"
    AssetOf,        \* account -> its asset
    CreditNormal,   \* the accounts whose normal side is CREDIT
    Safeguarded,    \* the accounts created with enforce_non_negative
    Entries,        \* the leg lists callers post, as effects
    Amounts,        \* the amounts of hold operations
    MaxPostings     \* bound on the number of postings

LEDGER_VIEWS == {"AVAILABLE", "PENDING", "ENCUMBERED", "RESTRICTED", "SETTLED"}

\* What a list of two or more legs does: the debits minus the credits per account
\* and view, each account and view having legs of one side only.
Effect == [Accounts -> [LEDGER_VIEWS -> Int]]

ASSUME FiniteAssumption == IsFiniteSet(Accounts) /\ IsFiniteSet(Holds)
ASSUME AssetOfAssumption == AssetOf \in [Accounts -> Assets]
ASSUME SafeguardedAssumption == Safeguarded \subseteq Accounts
ASSUME EntriesAssumption == Entries \subseteq Effect
ASSUME AmountsAssumption == Amounts \subseteq Nat \ {0}
ASSUME NoHoldAssumption == NoHold \notin Holds
ASSUME BoundAssumption == MaxPostings \in Nat

VARIABLES
    asset,      \* asset -> its state
    account,    \* account -> its state
    journal,    \* journal -> its state
    postings,   \* the postings of all journals, in the order they were recorded
    holds,      \* hold -> its record
    views,      \* account -> view -> position, oriented to the normal side
    verdict     \* journal -> state of its latest reconciliation record

ledgerVars == <<asset, account, journal, postings, holds, views, verdict>>

AssetState == {"REGISTERED", "ACTIVE", "SUSPENDED", "RETIRED"}
AccountState == {"CREATED", "ACTIVE", "RESTRICTED", "CLOSED"}
JournalState == {"ACTIVE", "RECONCILED"}
HoldState == {"ACTIVE", "RELEASED", "EXPIRED"}

\* `reverses` is the number of the posting reversed, or 0; `hold` is the hold
\* named in source_refs.
Posting ==
    [journal : Journals, effect : Effect, hold : Holds \cup {NoHold}, reverses : Nat]

NotCreated == [state |-> "NONE"]

Hold ==
    [state : {"ACTIVE"}, account : Accounts, amount : Nat \ {0}] \cup
    [state : {"RELEASED", "EXPIRED"}, account : Accounts, amount : {0}]

LedgerTypeOK ==
    /\ asset \in [Assets -> AssetState \cup {"NONE"}]
    /\ account \in [Accounts -> AccountState \cup {"NONE"}]
    /\ journal \in [Journals -> JournalState \cup {"NONE"}]
    /\ postings \in Seq(Posting)
    /\ holds \in [Holds -> Hold \cup {NotCreated}]
    /\ views \in [Accounts -> [LEDGER_VIEWS -> Int]]
    /\ verdict \in [Journals -> {"NONE", "RECONCILED", "DISCREPANCY"}]

LedgerInit ==
    /\ asset = [x \in Assets |-> "NONE"]
    /\ account = [a \in Accounts |-> "NONE"]
    /\ journal = [j \in Journals |-> "NONE"]
    /\ postings = <<>>
    /\ holds = [h \in Holds |-> NotCreated]
    /\ views = [a \in Accounts |-> [v \in LEDGER_VIEWS |-> 0]]
    /\ verdict = [j \in Journals |-> "NONE"]

-----------------------------------------------------------------------------
(* Balances. *)

\* A debit-positive amount as the normal side of a sees it.
Oriented(a, x) == IF a \in CreditNormal THEN -x ELSE x

Total(f) == f["AVAILABLE"] + f["PENDING"] + f["ENCUMBERED"] + f["RESTRICTED"] + f["SETTLED"]

ActiveHolds(a) == {h \in Holds : holds[h].state = "ACTIVE" /\ holds[h].account = a}

Held(a) == SumFunction([h \in ActiveHolds(a) |-> holds[h].amount])

-----------------------------------------------------------------------------
(* Postings. *)

Touched(e) == {a \in Accounts : \E v \in LEDGER_VIEWS : e[a][v] # 0}

\* Mutant of Balanced: debits and credits are compared across assets.
BalancedOverall(e) == SumFunction([a \in Touched(e) |-> Total(e[a])]) = 0

\* The assets compute_asset_totals has a row for: those with a debit leg.
Debited(e) == {AssetOf[a] : a \in {b \in Accounts : \E v \in LEDGER_VIEWS : e[b][v] > 0}}

\* The debits minus the credits of asset x.
Net(e, x) == SumFunction([a \in {b \in Touched(e) : AssetOf[b] = x} |-> Total(e[a])])

\* PostingPayload: debits equal credits in every asset with a debit leg.  An
\* asset with credit legs only is not compared.
Balanced(e) == Touched(e) # {} /\ \A x \in Debited(e) : Net(e, x) = 0

\* Mutant of Safeguard: the position before the posting is looked at.
SafeguardBefore(e) == \A a \in Touched(e) \cap Safeguarded : Total(views[a]) >= 0

\* Safeguarded accounts stay non-negative in total.
Safeguard(e) ==
    \A a \in Touched(e) \cap Safeguarded : Total(views[a]) + Oriented(a, Total(e[a])) >= 0

\* _check_posting_guards.  An account in allowedRestricted that is RESTRICTED
\* is not asked for an ACTIVE asset either.
PostingGuards(e, allowedRestricted) ==
    /\ \A a \in Touched(e) :
          \/ account[a] = "ACTIVE" /\ asset[AssetOf[a]] = "ACTIVE"
          \/ account[a] = "RESTRICTED" /\ a \in allowedRestricted
    /\ Safeguard(e)

\* _record_posting.
RecordPosting(j, e, hold, reverses, allowedRestricted) ==
    /\ Len(postings) < MaxPostings
    /\ journal[j] = "ACTIVE"
    /\ PostingGuards(e, allowedRestricted)
    /\ Balanced(e)
    /\ postings' = Append(postings,
          [journal |-> j, effect |-> e, hold |-> hold, reverses |-> reverses])
    /\ views' = [a \in Accounts |->
                    [v \in LEDGER_VIEWS |-> views[a][v] + Oriented(a, e[a][v])]]

\* post, and adjust.
Post(j, e) ==
    /\ RecordPosting(j, e, NoHold, 0, {})
    /\ UNCHANGED <<asset, account, journal, holds, verdict>>

Mirrored(e) == [a \in Accounts |-> [v \in LEDGER_VIEWS |-> -e[a][v]]]

\* reverse_posting: once, in the posting's own journal, and not of a reversal.
ReversePosting(i) ==
    /\ postings[i].reverses = 0
    /\ \A k \in DOMAIN postings : postings[k].reverses # i
    /\ RecordPosting(postings[i].journal, Mirrored(postings[i].effect), NoHold, i, {})
    /\ UNCHANGED <<asset, account, journal, holds, verdict>>

-----------------------------------------------------------------------------
(* Assets, accounts and journals. *)

AdvanceAsset(x, from, to) ==
    /\ asset[x] \in from
    /\ asset' = [asset EXCEPT ![x] = to]
    /\ UNCHANGED <<account, journal, postings, holds, views, verdict>>

AssetStep(x) ==
    \/ AdvanceAsset(x, {"NONE"}, "REGISTERED")
    \/ AdvanceAsset(x, {"REGISTERED", "SUSPENDED"}, "ACTIVE")
    \/ AdvanceAsset(x, {"ACTIVE"}, "SUSPENDED")
    \/ AdvanceAsset(x, {"SUSPENDED"}, "RETIRED")

AdvanceAccount(a, from, to) ==
    /\ account[a] = from
    /\ account' = [account EXCEPT ![a] = to]
    /\ UNCHANGED <<asset, journal, postings, holds, views, verdict>>

CreateAccount(a) == asset[AssetOf[a]] = "ACTIVE" /\ AdvanceAccount(a, "NONE", "CREATED")
ActivateAccount(a) == AdvanceAccount(a, "CREATED", "ACTIVE")
RestrictAccount(a) == AdvanceAccount(a, "ACTIVE", "RESTRICTED")

\* Mutant of CloseAccount: only the position is looked at.
CloseEmptyAccount(a) ==
    /\ \A v \in LEDGER_VIEWS : views[a][v] = 0
    /\ AdvanceAccount(a, "RESTRICTED", "CLOSED")

CloseAccount(a) ==
    /\ ActiveHolds(a) = {}
    /\ \A v \in LEDGER_VIEWS : views[a][v] = 0
    /\ AdvanceAccount(a, "RESTRICTED", "CLOSED")

OpenJournal(j) ==
    /\ journal[j] = "NONE"
    /\ journal' = [journal EXCEPT ![j] = "ACTIVE"]
    /\ UNCHANGED <<asset, account, postings, holds, views, verdict>>

-----------------------------------------------------------------------------
(* Holds. *)

\* _hold_movement_legs: n from AVAILABLE to ENCUMBERED of account a, or back
\* when n is negative, as the normal side of a sees it.
Movement(a, n) ==
    [b \in Accounts |-> [v \in LEDGER_VIEWS |->
        CASE b = a /\ v = "AVAILABLE" -> Oriented(a, -n)
          [] b = a /\ v = "ENCUMBERED" -> Oriented(a, n)
          [] OTHER -> 0]]

ReservationCover(a, n) == views[a]["AVAILABLE"] >= n
EncumberedCover(a, n) == views[a]["ENCUMBERED"] >= n

\* The hold after n was taken off it, `final` being its state at zero.
Reduced(h, n, final) ==
    IF holds[h].amount = n THEN [holds[h] EXCEPT !.state = final, !.amount = 0]
    ELSE [holds[h] EXCEPT !.amount = @ - n]

HoldCreate(j, h, a, n) ==
    /\ holds[h] = NotCreated
    /\ account[a] = "ACTIVE"
    /\ ReservationCover(a, n)
    /\ RecordPosting(j, Movement(a, n), h, 0, {})
    /\ holds' = [holds EXCEPT ![h] = [state |-> "ACTIVE", account |-> a, amount |-> n]]
    /\ UNCHANGED <<asset, account, journal, verdict>>

HoldIncrease(j, h, n) ==
    /\ holds[h].state = "ACTIVE"
    /\ account[holds[h].account] = "ACTIVE"
    /\ ReservationCover(holds[h].account, n)
    /\ RecordPosting(j, Movement(holds[h].account, n), h, 0, {})
    /\ holds' = [holds EXCEPT ![h].amount = @ + n]
    /\ UNCHANGED <<asset, account, journal, verdict>>

\* hold_release: all of it or a part, on a RESTRICTED account too.
HoldRelease(j, h, n) ==
    /\ holds[h].state = "ACTIVE"
    /\ n <= holds[h].amount
    /\ EncumberedCover(holds[h].account, n)
    /\ RecordPosting(j, Movement(holds[h].account, -n), h, 0, {holds[h].account})
    /\ holds' = [holds EXCEPT ![h] = Reduced(h, n, "RELEASED")]
    /\ UNCHANGED <<asset, account, journal, verdict>>

\* Mutant of DecreaseAllowed: the encumbered view is not looked at.
DecreaseAnything(h, n) == n <= holds[h].amount

\* The hold alone must still cover the encumbered view of its whole account.
DecreaseAllowed(h, n) ==
    /\ n <= holds[h].amount
    /\ holds[h].amount - n >= views[holds[h].account]["ENCUMBERED"]

\* hold_decrease: the record only; no posting and no look at the account's state.
HoldDecrease(h, n) ==
    /\ holds[h].state = "ACTIVE"
    /\ DecreaseAllowed(h, n)
    /\ holds' = [holds EXCEPT ![h] = Reduced(h, n, "RELEASED")]
    /\ UNCHANGED <<asset, account, journal, postings, views, verdict>>

HoldExpire(j, h) ==
    /\ holds[h].state = "ACTIVE"
    /\ EncumberedCover(holds[h].account, holds[h].amount)
    /\ RecordPosting(j, Movement(holds[h].account, -holds[h].amount), h, 0, {holds[h].account})
    /\ holds' = [holds EXCEPT ![h] = Reduced(h, holds[h].amount, "EXPIRED")]
    /\ UNCHANGED <<asset, account, journal, verdict>>

-----------------------------------------------------------------------------
(* Reconciliation. *)

\* The normal-side totals of asset x: those of debit-normal accounts and those
\* of credit-normal accounts.
DebitTotal(x) ==
    SumFunction([a \in {b \in Accounts : AssetOf[b] = x /\ b \notin CreditNormal} |-> Total(views[a])])
CreditTotal(x) ==
    SumFunction([a \in {b \in Accounts : AssetOf[b] = x /\ b \in CreditNormal} |-> Total(views[a])])
SheetBalanced(x) == DebitTotal(x) = CreditTotal(x)

HoldsOk(a) == Held(a) = views[a]["ENCUMBERED"]

\* reconcile: the verdict is recorded and the journal sealed, whatever it is.
\* The journal's own trial balance adds up the debited assets of each posting.
Reconcile(j) ==
    /\ journal[j] # "NONE"
    /\ verdict' = [verdict EXCEPT ![j] =
          IF /\ \A i \in DOMAIN postings : postings[i].journal = j => Balanced(postings[i].effect)
             /\ \A a \in Accounts : HoldsOk(a)
             /\ \A x \in Assets : SheetBalanced(x)
          THEN "RECONCILED" ELSE "DISCREPANCY"]
    /\ journal' = [journal EXCEPT ![j] = "RECONCILED"]
    /\ UNCHANGED <<asset, account, postings, holds, views>>

-----------------------------------------------------------------------------

HoldStep(j, h) ==
    \/ \E a \in Accounts, n \in Amounts : HoldCreate(j, h, a, n)
    \/ \E n \in Amounts : HoldIncrease(j, h, n) \/ HoldRelease(j, h, n) \/ HoldDecrease(h, n)
    \/ HoldRelease(j, h, holds[h].amount)
    \/ HoldExpire(j, h)

AccountStep(a) ==
    CreateAccount(a) \/ ActivateAccount(a) \/ RestrictAccount(a) \/ CloseAccount(a)

LedgerNext ==
    \/ \E x \in Assets : AssetStep(x)
    \/ \E a \in Accounts : AccountStep(a)
    \/ \E j \in Journals : OpenJournal(j) \/ Reconcile(j)
    \/ \E j \in Journals, e \in Entries : Post(j, e)
    \/ \E i \in DOMAIN postings : ReversePosting(i)
    \/ \E j \in Journals, h \in Holds : HoldStep(j, h)

LedgerSpec == LedgerInit /\ [][LedgerNext]_ledgerVars

-----------------------------------------------------------------------------
(* Properties. *)

\* Customer value is never overdrawn: no sequence of postings, reversals and
\* hold movements takes the total of a safeguarded account below zero, though
\* single views may be (ledger.py 8-10, _check_posting_guards).
SafeguardedNonNegative == \A a \in Safeguarded : Total(views[a]) >= 0

\* A closed account keeps nothing: none of its views moves away from zero after
\* close_account (321-340), not even by the reversal of an old posting or the
\* release of a hold, and no active hold is left on it.
ClosedAccountsEmpty ==
    \A a \in Accounts : account[a] = "CLOSED" =>
        /\ \A v \in LEDGER_VIEWS : views[a][v] = 0
        /\ ActiveHolds(a) = {}

\* A posting whose effect on ENCUMBERED no hold record accounts for: made by a
\* caller, or the reversal of a hold's posting.
Foreign(p, a) == p.hold = NoHold /\ p.effect[a]["ENCUMBERED"] # 0

\* HELD, added up from hold records, equals the ENCUMBERED view, added up from
\* postings, unless a caller posted to ENCUMBERED or reversed a hold's posting:
\* create, increase, release, decrease and expire keep the two together on
\* accounts of either normal side (ledger.py 12-17).
HeldMirrorsEncumbered ==
    \A a \in Accounts :
        (\A i \in DOMAIN postings : ~Foreign(postings[i], a)) => HoldsOk(a)

\* A posting that brings asset x in from nowhere: credits and no debit.
CreditOnly(p, x) == x \notin Debited(p.effect) /\ \E a \in Touched(p.effect) : AssetOf[a] = x

\* The books balance as far as the code makes them: the balances are what the
\* postings add up to; in each asset the credit-normal total never falls below
\* the debit-normal one, through reversals and holds; and the two are equal
\* unless a posting credited that asset without debiting it (_asset_sheets,
\* compute_asset_totals).
BooksBalance ==
    /\ \A a \in Accounts : \A v \in LEDGER_VIEWS :
          views[a][v] = SumFunction([i \in DOMAIN postings |-> Oriented(a, postings[i].effect[a][v])])
    /\ \A x \in Assets :
          /\ DebitTotal(x) <= CreditTotal(x)
          /\ (\A i \in DOMAIN postings : ~CreditOnly(postings[i], x)) => SheetBalanced(x)

\* What posting.py 13 says of the postings, "for every asset: debits == credits
\* (per posting, hence per journal)": the normal-side totals of every asset
\* agree.  The code accepts credit-only assets, and a run refutes it.
ValueConserved == \A x \in Assets : SheetBalanced(x)

=============================================================================
