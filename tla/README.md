# A TLA+ verification of the PaySwap protocol core

PaySwap (`src/`) coordinates financial effects across heterogeneous rails. It
is a set of Python domains, each an in-memory, fail-closed engine over sealed
and versioned records. Its constitution
(`src/spec/architecture/v0.1/constitution.md`, 43-62) asks for reservation
safety, idempotent external effects, reconcilable outcomes and append-only
evidence. This directory models the parts that carry those promises, checks
them with TLC on small instances and proves the main ones with TLAPS for every
size.

All paths below are relative to `src/src/` unless they start with `src/`.

## 1. Inventory

| Component | State it keeps | Operations | What is hard | What makes it correct |
|---|---|---|---|---|
| keyed locks (`reservation/concurrency.py`) | per key: holder, waiters, condition variable | acquire, release, locked, locked_all | threads, time-outs, exceptions in a wait | exclusion, no lost wake-up, no deadlock, precedence, every call returns |
| reservation records (`reservation/records.py`) | one sealed record per version | create, hold, amend, commit, release, expire, default, consume | window and instant boundaries, long sequences | every command builds a coherent record |
| reservation store (`reservation/store.py`) | id -> record | apply, get, snapshot | unlocked reads, record-by-record publication | atomic batches, one live record per key, no lost update |
| transition kernel (`transition/`) | clock, idempotency records, journal, object store | process, snapshot_state, restore_state | replays, reused ids, restarts | decided once, journal explains store, state can be saved |
| execution (`execution/`) | plan, steps, requests, attempts, results, observations, submission ledger | plan.*, step.*, external.* | lost answers, time-outs against late results, retries, cancellation | at most one payment per step, recorded outcomes are true |
| value ledger (`value/`) | assets, accounts, journals, postings, holds, instruments | post, adjust, reverse, hold_*, close, reconcile | derived views against hold records, reversals of old postings | balanced books, no overdraft of safeguarded value, holds covered |
| clearing (`clearing/`) | cycles, obligations, nettings | 18 commands on the kernel | members that change under a calculated statement | each obligation discharged once, netting conserves what everyone owes |
| settlement (`settlement/`) | settlements, legs, certificates, recourse cases, posting journal | 18 commands on the kernel | late and contradicting observations, recourse after finality, restart | postings explain legs, finality never overstated |
| trust (`trust/`) | principals, keys, credentials, authentications, grants, mandates | register, rotate, delegate, amend, suspend, revoke, retire, authenticate, decide, load | revocation against use, delegated limits, rotation under guard | no authority beyond its delegator's, protection survives rotation |
| federation (`federation/`) | per domain: record, commitments, messages, acceptances, journal | register, join, leave, update, transfer, publish, accept | duplicated, missing and reordered messages, rotated keys | each message accepted once, its commitment the anchor's, acceptances agree |
| market (`market/`) | per session: market, submissions, quote, reservations; offers | open, submit, admit, withdraw, close, allocate, accept, reject; amend, suspend, expire; quote and reservation commands | offers that change under a bid, instants in no order, one allocation attempt | price-time priority, fills serve the demand, reservations follow the market |
| liquidity (`liquidity/`) | offers, exposure | commit, release | counters at a limit | exposure within caps |
| simulation (`simulation/`) | worlds, branches, promotions | branch, replay, promote | results crossing environments | simulated effects never reach a live rail |
| operations, merchant, data, agents, extensions | record lifecycles on the kernel | their command families | inherit the kernel's | lifecycle rules |
| money, compiler, safety, evidence, intent, capability, interoperability, core | values, or records without concurrency | pure computation and validation | arithmetic | conservation, determinism |

How they interact. The domain engines (execution, settlement, clearing,
federation, operations, data, simulation, agents) hand every command to a
transition kernel, which calls back the domain's authorization and handler and
commits what the handler returns. Execution reaches rails through two adapter
ports; its observations feed settlement, whose instructions come from
clearing's obligations as sealed records the caller presents. Trust keys sign
federation commitments. A market session is handed offers and demands as sealed
records and hands out quotes and reservations in the same way. Reservations are the only part with threads: callers
read records freely and apply batches under the keyed locks. The value ledger,
the trust registry and a market session are plain objects whose calls are atomic.

`PROJECT.json` lists every component with its status, and under `hazards` the
places where this code could go wrong in ways a test would hardly reach.

## 2. Modules

| Module | Models | Notes |
|---|---|---|
| `ResourceKeys` | the ordered resource keys | shared by locks and store |
| `KeyedLocks` | `concurrency.py` | one action per stretch of code between two blocking points |
| `ReservationRecords` | `records.py`, `conditions.py` | operators, no variables |
| `ReservationStore` | `store.py` | extends the two above; composes store and locks |
| `AtomicReservations` | the promise of `apply` | abstract: the store moves by whole legal batches |
| `TransitionKernel` | `transition/engine.py`, `store.py` | hooks and handlers answer anything |
| `Execution` | `execution/engine.py`, `lifecycle.py`, `contracts.py` | the rail is external |
| `ValueLedger` | `value/ledger.py` and its records | views are kept, and shown equal to what the postings add up to |
| `Clearing` | `clearing/engine.py`, `netting.py`, `obligations.py` | netting statements are computed, in both modes |
| `Settlement` | `settlement/engine.py` and its records | postings are counted per leg and kind |
| `Identity` | principals, keys, credentials, authentication of `trust/service.py` | no specification of its own |
| `Trust` | grants, mandates, decisions and loading of `trust/service.py` | extends `Identity` |
| `Federation` | `federation/engine.py`, several engines | callers carry records between the engines |
| `Market` | `market/session.py`, `mechanisms.py`, offers, quotes, reservations | the session's copy of the quote is apart from the parties' |
| `MC*` | instances for TLC | values of the constants only |
| `Sums` | what the sum of a function over a finite set is | lemmas, for books, netting and allocation |
| `ReservationProofs` | proofs about locks, records and store | no new behaviour, nor in the next ones |
| `EngineProofs` | proofs about the kernel and execution | |
| `LedgerProofs` | proofs about the value ledger and settlement | uses `Sums` |
| `ClearingProofs`, `TrustProofs`, `FederationProofs`, `MarketProofs` | proofs about their component | clearing and market use `Sums` |

**KeyedLocks.** `holder` and `waiters` are the gate's fields; `pc`, `todo` and
`held` stand for each thread's position in `locked_all`, its remaining sorted
keys and its `acquired` list. A gate's mutex covers everything from entry to
`condition.wait` and from wake-up to the next wait or the grant, so these are
atomic. `TimeOut` is `wait` returning False; `FinalCheck` the check after it;
`Interrupt` the `except BaseException` branch. Only `acquire` and `locked` take
a time-out, so a thread in `Timed` asks for single keys.

**ReservationStore.** A thread builds its batch from unlocked reads
(`Create` ... `Consume`, each the whole command function with its guards), calls
`Apply`, takes the gates, validates versions, validates exclusivity and
publishes one record per step. A record keeps key, version, state, window,
conditions and the instants the rules compare; amounts and digests are left
out. `pending` is history needed to state the properties.

**TransitionKernel.** `Process` is `process`: `Answer` is stage 1's replay or
refusal, `Reject` is `_reject` from any stage, `Accept` is stages 7 to 9.
Commands are records whose equality is equality of digests. Event ids are
modelled by what the code's string formatting makes of them: the command's id,
or the id with a suffix. `Snapshot` and `Restore` save and load kernel and store
together, as the domain engines do; whether rejections are given events is a
setting of the engine, chosen when it is built (`emits`). A handler or commit
that raises leaves the kernel unchanged.

**Execution.** One plan. Request `n` of a step carries its own idempotency key,
attempt and result. `rail` says what really became of each request and changes
only by submissions and by `RailRuns`. `evidence` holds the requests with an
observation the retry gate accepts; whether an observation made before a
transition still counts depends on the instants being equal, so `Aged` leaves
both outcomes open. Refusals and echoes of duplicates change nothing.

The kernel makes each command of clearing, settlement and federation atomic: it
checks the versions of the targets, runs the handler and commits all or
nothing. In those modules an action is a handler with its guards, and a refused
command is no step.

**ValueLedger.** A posting's effect is a function from account and balance view
to a signed amount, debits positive; `Oriented` turns it to the account's normal side.
`RecordPosting` is `_check_posting_guards` with `_record_posting`, used by
postings, reversals and hold movements alike. `views` caches what
`_account_views` recomputes from the postings at each call; `BooksBalance`
checks that the two agree. `Balanced` is what the constructor compares: the
assets with a debit leg, and no others. Instants, descriptions and instruments are left out.

**Clearing.** An obligation's id is the effect result it recognises, or the
netting, asset and parties that issued it (the code derives the same ids from
digests and ordinals). `Statement` is `compute_netting_statement` for groups by
asset; bindings hold the version, parties and amount that finalization compares.
Valuation in a base currency is left out: it changes no obligation.

**Settlement.** `SettlementReconcile` takes the whole list of observations of
one command, per leg in order, and folds it as the handler does, with the
suspense, release and discharge postings of each transition. `store` is the
kernel's object store, which the engine's index duplicates. A refund is a settlement of its
own with the id of its case.

**Identity and Trust.** Windows are sets of instants; scope, jurisdictions and
amount limits together are the set of items a grant covers, which is what
`scope_subset`, `jurisdictions_subset` and `amount_limits_bounded_by` compare.
A secret is the key or credential it belongs to. The approvals of a guarded
rotation are records the caller brings, as in the code. `Allowed` is `decide` with its
walk up the grant chain; `Loads` is what `from_dict` demands of a saved registry.
Any active principal may operate the registry, as in the code.

**Federation.** Each domain has its own engine and journal. A digest of a
journal is its length, which is sound because journals only grow. There is no
network in the code: callers take records from one engine to another, so a
message may be presented to anyone, any number of times, late or never. That is
how loss, duplication and reordering enter the model. Commitments are signed and
come from their publisher; messages are not, and a caller may present one sealed
with the public factory (`Sealed`).

**Market.** `Fills` is the greedy pass of the batch engine, stated by where it
stops: as long as it goes on everything ahead in the ranking (`Ahead`) was taken
whole, so what it has collected when it comes to a submission is `AmountAhead`,
and once it stops it stops for all that follow (`Reached`). `RfqOutcome` is the
choice of the RFQ engine. Both are over `Eligible`, the submissions that survive
the engines' own re-validation against offers as they are at that moment (the code
takes the mapping of offers from its caller; the model hands over the current
ones). `AmendQuote` changes the maximum and the end of the quote's window; the
other fields and the minimum length of a window are left out. The market
is ALLOCATED before the engine runs, so `AllocateRaises` and an RFQ quote that
cannot be made leave it so. Records are values: `quote` is the version the
session keeps, `issued` the newest one, and `deal` the reservation made by
committing it. `outcome` is what the caller was returned. Fees other than the
flat fee in the ranking are left out.

## 3. Runs

| Run | Result | States | Shows |
|---|---|---|---|
| `KeyedLocks` | pass | 24,350 | exclusion, wake-ups, precedence; every call returns, a stalled writer on another key notwithstanding |
| `ReservationRace` | pass | 433,239 | with an id on two keys: exclusivity, coherent records, no lost update among writers of one key, `apply` atomic for the ids of one key; every apply ends |
| `Kernel` | pass | 414,280 | decided once; journal explains store; a snapshot fails only when event ids clash |
| `Execution` | pass | 645,458 | one live effect per step, true outcomes, budget, only running plans submit |
| `ValueLedger` | pass | 736,695 | no overdraft, closed accounts empty, holds mirrored, books apart only by credit-only postings |
| `Clearing` | pass | 540,851 | obligations discharged once, only cleared ones netted, netting conserves |
| `Settlement` | pass | 207,848 | postings explain legs, no false finality, exclusivity, recourse |
| `TrustAuthority` | pass | 249,015 | delegation narrows, decisions stand under a root, retirement, reload |
| `TrustIdentity` | pass | 818,954 | guarded rotation, credentials, reload |
| `Federation` | pass | 425,611 | messages accepted once, about commitments of the anchor, in agreement |
| `Market` | pass | 2,853,896 | price-time priority, fills serve the demand, reservations follow the market |
| `LedgerConservation` | violated | | `ValueConserved`: a posting of credits alone (posting.py 13) |

`findings` in `PROJECT.json` lists where the code and its own documentation
disagree and quotes both sides. `LedgerConservation` checks what `posting.py` 13
says of the postings and is violated by one that only credits. Where a finding
is a path of a passing run, the property of that run says exactly what does
hold: exclusivity, the versions of one key and atomicity of the ids of one key
while an id is created on two (`ReservationRace`), when a snapshot is refused
(`Kernel`), how far the sheets can part (`ValueLedger`), the credentials and
grants of the retired but not their keys and mandates (`TrustAuthority`), the
commitment behind an accepted message but not its issue (`Federation`). The
market's findings, the exclusivity scan that sees a foreign batch half published,
the rejected step that leaves its plan running and the retry over a recorded
success are paths of the models too, the last one excluded from the passing run
by a rail whose NOT_FOUND is final; the others come from reading.

**Bounds.** Two overlapping keys and four threads are what it takes for a wait
cycle, a time-out behind a waiter, an interrupted wait and a repeated command at
once; the fifth thread and the third key are for the stalled writer.
Two writers, one of which may be interrupted while it waits, with batches of two
records over three reservations give every pair
of overlapping, disjoint and equal key sets; the seeds place a fresh, a held and
a committed record in the store so that one apply reaches the later commands.
`MaxVersion`, `MaxApplies` and `MaxBatch` bound histories: one apply of each
writer, from those seeds, reaches every state of a record, and the three instants
lie before, inside and after the window. Longer histories, amended windows and
declared conditions are left to the theorem (`StoredRecordsStayCoherent`). The kernel's command set is finite and
each command is decided once, which bounds its journal. A budget of two attempts
and three requests allows a retry, an exhausted budget and a superseded request.
The ledger run bounds the number of postings and has two holds; its accounts are
a safeguarded customer account, the custodian's cash account of the opposite normal
side and an account in another asset, enough for a transfer, a hold, a release
and the reversal of each. Clearing has three obligations among three
participants in one asset, with a pair that offsets and a chain, and two
nettings that compete for them; it bounds the versions obligations reach. Two
settlements that share an obligation, two observations per leg and command and
one recourse case reach a leg that is suspended and settled by one command, a
refund and a reversal. Trust is split in two instances of one module because
grants and keys do not meet except through principals and authentications, which
both runs have: `TrustAuthority` has three grants with three term sheets and a
secret credential, `TrustIdentity` three keys, two credentials proved by keys
and a mandate. Federation's three
domains allow an anchor, a member and a third party; `MaxJournal`,
`MaxPublished` and `MaxAccepted` bound each, and a view identifies states that
differ in nothing an action or a property can tell apart. The market has three offers of
three providers, one of which may change: two that mirror each other, a cluster
at the instance's minimum of two (three in the code), and one whose price makes
the batch dispersed or not; two bids in an RFQ and three in a batch allow a
provider to withdraw and bid again, a partial fill and a bid passed by. Ids are interchangeable where the
runs use symmetry.

**Fairness.** Only liveness properties use it. Each thread is assumed to take its own
lock and apply steps when it can (weak fairness of `GateStep` and `ApplyStep`):
an operating system runs a runnable thread, and `notify_all` makes waiters
runnable. Time-outs, interruptions and starting a call are not fair; neither is
leaving a critical section for threads in `Stalled`. The engines
have no fairness: their operators promise nothing.

**Deadlock** is checked where the system may always go on; it is switched off
(`CHECK_DEADLOCK FALSE`) where finished plans, terminal records or exhausted
bounds rightly stop.

Each property of a passing run has a mutant in `PROJECT.json`: a definition
changed the way a slip in the code would change it, under which TLC finds the
property violated. Mutant operators stand before the definition they vary.

## 4. Proofs

| Theorem | Statement | Argument |
|---|---|---|
| `LockTypeCorrect`, `MutualExclusion`, `WakeupsAreNotLost`, `CommandsAreUnique` | invariants of `KeyedLocks` | conjuncts of `LockInv` |
| `NoWaitCycle` | a holder waits only for larger keys | from `QueueCoherent` and `HeldBelowTodo` |
| `GrantOrder` | grants follow precedence | action property from `LockInv` |
| `GateInvariance`, `KeysStayExclusive`, `UpdatesAreNotLost` | `LiveKeyExclusivity`, `NoLostUpdate` | from `GateInv`, ids on any number of keys |
| `ApplyIsAtomic` | `ReservationStore` implements `AtomicReservations`, for the ids of one key beside any others | refinement, step by step, under `StoreInv` |
| `StoredRecordsStayCoherent` | `StoredRecordsCoherent` | each command keeps `Sound` |
| `KernelTypeCorrect`, `SnapshotRefusals`, `DecidedOnce` | invariants of `TransitionKernel` | from `KernelInv` |
| `StoreExplained` | `JournalExplainsStore` | from `KernelInv` and the kernel's `StoreInv` |
| `ExecTypeCorrect`, `RailOnlyForRunningPlans` | invariant and action property of `Execution` | from `RequestInv` |
| `NoDoublePayment`, `SettledStepsTellTheTruth` | `OneLiveEffect`, `SettledStepsAreTrue` | from `TruthInv` |
| `RetriesWithinBudget` | `SubmissionsWithinBudget` | from `BudgetInv` |
| `LedgerTypeCorrect`, `NoOverdraft`, `ClosedStaysEmpty` | invariants of `ValueLedger` | conjuncts of `LedgerInv` |
| `BooksAlwaysBalance`, `HoldsMirrorPostings` | `BooksBalance`, `HeldMirrorsEncumbered` | sums over accounts and holds |
| `ObligationsDischargedOnce`, `OnlyClearedAreNetted` | `DischargedOnce`, `MembersCleared` | from `ClearingInvariant` |
| `NettingKeepsExposure` | `NettingConserves` | sums over obligations and counterparties |
| `SettlementTypeCorrect`, `JournalMatchesLegs`, `FinalityNeverOverstated`, `LiveSettlementsDisjoint`, `NoReversalOfFinal`, `RefundsPaid` | invariants of `Settlement` | from `SettlementInvariant` |
| `DelegationAlwaysNarrows`, `RetiredNeverAuthorized`, `RotationNeverSheds` | invariants of `Trust` | from `TrustInvariantHolds` |
| `AuthorityComesFromRoots` | `AllowedUnderRoot` | chains end, in a root of their class |
| `RegistryAlwaysLoads` | `PersistedStateLoads` | from `LinksLoad` |
| `NoReplay`, `AcceptancesAreGenuine`, `AcceptancesNeverDisagree` | invariants of `Federation` | from `FederationInvariant` |
| `MarketInvariance`, `AllocationsServeDemands`, `WinnersHoldReservations` | `FillsServeDemand`, `ReservationsFollowMarket` | conjuncts of `MarketInv` |
| `AllocationsKeepPriority` | `PriceTimePriority` | action property from `MarketInv` |

*Locks.* Exclusion alone is not inductive. `LockInv` adds that a thread is in a
queue exactly while its `pc` says it waits for that key (`QueueCoherent`), and
that keys held lie below keys wanted (`HeldBelowTodo`). The proof holds for any
threads, keys, claims, key sets and sets of timed, signalled and stalled threads.

*Store.* `GateInv` rests on `LockInv`: a thread in the body of `apply` holds
the gates of its whole batch (`PhasesAgree`). A record it has checked can
therefore not be rewritten on the same key; another thread may write it on
another key, under another gate, and then it is displaced (`GatedStaysValid`).
Exclusivity is inductive as a statement about claims (`ClaimsExclusive`): batches
under publication clash neither among themselves nor with a record they do not
replace, and two stored records only while one of them is being replaced.

Atomicity is a statement about the ids that belong to one key (`KeyedIds`), in a
store that may hold others (both creations of an id of two keys succeed, the
first finding). Of a `KeyedIds` id, what a thread validated still stands when it
publishes (`ValidatedStaysValid`), and every draft succeeds the version it
declares (`DraftsDescend`). A batch counts from the moment it is validated
(`Published`): that step is a step of the abstract table, publishing one record
after another changes nothing of it, and all else is a stutter. For the coherence
of records only, the store is taken to be seeded with coherent ones
(`SeedsSound`: those the command family builds).

*Kernel.* `KernelInv` says whose event each one is: every journalled event is the
event of its command's record, under the name the decision gives it, no two
events have one cause, and a saved state satisfies the same, so that a restore
keeps it. Two events of one id then belong to two commands, and only a name with
the rejection suffix and one without can be equal (`SuffixAssumption`: two ids
with the suffix are equal only if the ids are), which is when a snapshot is refused
(`SnapshotRefusals`). `StoreInv` adds that store and journal agree in the running
and in the saved state. Nothing is assumed of command ids; the constants'
assumptions are named in `TransitionKernel` and evaluated by TLC.

*Execution.* `RequestInv` needs nothing of the rail. It says that requests not
yet declared left no trace and that a request on offer belongs to a pending step
of a running plan or to a cancelled step. `TruthInv` adds that records are true
of the rail, that only a step's current request can be live, and that nothing is
live outside the in-flight states. Hypotheses: NOT_FOUND is final, definitive
reports are true and the operators' clock does not run backwards.

`BudgetInv` says that a PENDING step has an attempt left: the submission
handler counts nothing, and the budget is kept only because every command that
makes a step PENDING has counted or comes before the first attempt.

*Sums.* The community modules' `SumFunction` is a recursive function over the
subsets of its domain, and the library's induction theorems are out of the
provers' reach because they take an operator. `Sums` gives induction in another
form: a non-empty set of subsets of a finite set has a minimal member, so a set
of subsets that contains each one whose proper subsets it contains contains all
(`SubsetInduction`), with the property given as a set. From that come existence
and uniqueness of the recursion, removal of any element, sums of unions, of
sums, of differences and of naturals. Accounts, holds, participants, nettings,
obligations and grants are assumed to be finitely many (`FiniteAssumption`,
`GrantsAssumption`), as any dictionary's keys are.

*Value ledger.* The safeguard is a guard of every posting, so the work is in the
paths around it: hold movements leave an account's total alone, and a reversal
goes through the same guard. That a closed account stays empty needs that no
posting touches an account that is neither active nor exempted as restricted.

For the books, each posting's effect is balanced in every asset it debits once its
accounts are oriented, so both sides of a sheet move by the same sum; in an asset
it only credits, the credit side gains. For the holds, a
movement changes one hold record and the ENCUMBERED view of its account by the
same amount; where they could part, in `hold_decrease` on an account with foreign postings, the
guard is shown to refuse unless they have parted already.

*Clearing.* That an obligation is discharged once is inductive only with the
states nettings and obligations can be in together: resolved members belong to a
finalized netting, live nettings are disjoint, issued obligations exist only
once their netting is finalized.

Conservation is a statement about sums: what the members add up to, per asset
and pair, is what the issued obligations or the carried positions add up to.
A finalization compares the members with the statement's bindings, so the
statement, although computed earlier, is about what is discharged now
(`StatementHolds`); the rest is arithmetic of sums over the members and the
counterparties (`FinalizeDebts` for bilateral, `FinalizeFlows` for multilateral
netting).

*Settlement.* The invariant ties each leg's outcome to its postings and each
record's presence to the kernel's store; without the latter a settlement could
be created over a finished one, as after a rebuild from the journal.

*Trust.* Amendments change a parent under its children, so `DelegationNarrows`
compares the terms as issued; the invariant adds that existing grants keep an existing
parent and that retired principals were cleared of dependents, which no later
command may create for them.

A chain of grants is the least set closed under parents. The depth strictly
decreases with every delegation, so the sets of grants with more depth shrink
strictly on the way up and the walk ends at a ROOT grant (`ChainEnds`); links
keep the class, so an allowed class is rooted in that class. For loading,
`LinksLoad` says of each record what `from_dict` asks of its links.

*Federation.* That an accepted commitment is the anchor's needs that records once
published never change and that commitments, being signed, come from somebody's
records; of messages it asks nothing but the checks made on them. Agreement
follows from sequences being distinct and growing with the journal in each domain.

*Market.* `RankedBefore` is a strict total order on the submissions
(`RankIsOrder`), so any set of them has a first and a last. What is ahead grows
along the ranking by at least the amount passed (`AheadGrows`): hence what is
ahead of a filled submission was filled, and whole (`FilledAhead`), which is
price-time priority, and the fills add up to what is ahead of the last one and
its own, which is at most the demand's maximum (`FillsBounded`). One reservation
per provider comes from one active submission per provider (`OneBidEach`), which
`submit` guards and no later step undoes. Assumptions: amounts submitted are
positive, a demand's minimum is at most its maximum, and its payment count is
positive, as the constructors of submissions and demands require.

**Only model-checked.** Liveness (`CallsReturn`, `ApplyEnds`), which this prover
does not do. Every other property of a run is stated by a theorem.
`NoWaitCycle` and `CommandsAreUnique` go the other way: they are proved, and no
run repeats them. In the theorems the models' named bounds are arbitrary
numbers.

## 5. Not modelled

Serialisation, hashing and field validation; finality claims in execution, which
no handler reads; `record_status` for statuses that are neither retry-safe nor
UNKNOWN, which only add evidence; the execution engine's own snapshot and
rebuild; lazy creation of gates (`_gate_for` under a registry guard never held
while waiting). In the ledger, instruments and funding sources; in clearing,
valuation and the engine's snapshot, restore and rebuild; in settlement,
snapshot, restore and rebuild (the rebuild is among the findings); in trust, `update_principal`, the graph projection and the
decimal scales of limits; in federation, snapshot, restore and rebuild, commands given to
`submit` directly, which skip the proof of the secret (engine.py 833-838), and the
histories and finality bindings that nothing reads; in the market, `request_quote`,
which makes a quote outside any session, fee amounts, and environments, domains
and assets, which are taken to match. Components with status
`not_modelled` carry their reason: most are validation of declarative records, pure
computation, demonstration scripts or test harnesses, which is the larger part of
this repository's lines.

## 6. Plan

1. *Done:* locks, reservations, kernel, execution, value ledger, clearing,
   settlement, trust, federation, market; proofs of every safety property the
   runs check and of the refinement.
2. *Liquidity:* exposure counters at their caps, offer consumption.
3. *Execution recovery:* the port call before the commit, snapshot, restore and
   rebuild from the journal.
4. *Operations, simulation, merchant:* circuit breaking, promotion between
   environments, orchestration over settlement.
5. *Proofs:* of what the parts above will add; the kernel's promises as an
   abstract specification that the domain engines implement.
