-------------------------------- MODULE Market --------------------------------
(***************************************************************************)
(* One market session (market/session.py), the mechanism engines it runs   *)
(* (market/mechanisms.py), the offers submitted to it, and the quote and   *)
(* the reservations that come out of it.                                   *)
(*                                                                         *)
(* A submission is known by its sequence number.  Instants are given by    *)
(* the caller of each command; nothing orders them.  Records are values:   *)
(* the session keeps the version of a quote it emitted, while the parties  *)
(* advance theirs.  Offers are in the market's environment, domain and     *)
(* asset, and the engines are handed the offers as they stand.             *)
(***************************************************************************)
EXTENDS Integers, FiniteSets, Sequences, Functions, FiniteSetsExt

CONSTANTS
    OfferIds,       \* the liquidity offers
    Provider,       \* offer id -> the provider that owns it
    Taker,          \* the taker of the market
    TermSheets,     \* offer id -> the terms it may have: price, fee, min, max
    Amounts,        \* the amounts submitted, filled and amended to
    Demands,        \* the demands an allocation may be asked for
    Instants,       \* the instants commands carry
    TradingWindow,  \* opens_at and closes_at of the market, as from and until
    Available,      \* offer id -> from and until of its availability
    PriceBand,      \* the prices the market admits
    AmountWindow,   \* the amounts the market is declared for
    MaxSubmissions, \* max_submissions of the market
    ClusterMin,     \* COLLUSION_CLUSTER_MIN
    Validity,       \* DEFAULT_QUOTE_VALIDITY_SECONDS
    HoldTime,       \* DEFAULT_RESERVATION_HOLD_SECONDS
    MaxSequence,    \* bound on the submissions of a session, per mechanism
    Volatile,       \* bound: the offers that change while the market runs
    None

Terms == [price : Int, fee : Int, min : Int, max : Int]

ASSUME TermsAssumption == \A o \in OfferIds : TermSheets[o] \subseteq Terms
ASSUME AmountsAssumption == Amounts \subseteq Nat \ {0}
ASSUME InstantsAssumption == Instants \subseteq Int
ASSUME DemandsAssumption ==
    /\ Demands \subseteq [min : Nat, max : Nat, split : BOOLEAN, count : Nat \ {0}]
    /\ \A d \in Demands : d.min <= d.max
ASSUME VolatileAssumption == Volatile \subseteq OfferIds

VARIABLES
    kind,           \* the mechanism of the market
    market,         \* its state
    offers,         \* offer id -> state and terms of its newest version
    submissions,    \* the submissions in the order of their sequence numbers
    reservations,   \* submission -> the reservation its fill was given
    quote,          \* the quote the session keeps, or None
    issued,         \* the newest version of the emitted quote, or None
    deal,           \* the reservation made by committing it, or None
    outcome         \* what the allocation returned, or None

sessionVars == <<market, submissions, reservations, quote, outcome>>
vars == <<kind, offers, issued, deal, sessionVars>>

MechanismKind == {"RFQ", "BATCH_AUCTION"}
MarketState == {"CREATED", "OPEN", "CLOSED", "ALLOCATED", "ACCEPTED", "REJECTED", "CANCELLED"}
LiquidityOfferState == {"ACTIVE", "SUSPENDED", "WITHDRAWN", "EXPIRED"}
ACTIVE_SUBMISSION_STATES == {"SUBMITTED", "ACCEPTED"}
Won == {"ALLOCATED_FULL", "ALLOCATED_PARTIAL"}

Parties == {Provider[o] : o \in OfferIds} \cup {Taker}
Sequence == 1..Len(submissions)

\* Half-open windows.
Inside(w, t) == w.from <= t /\ t < w.until
Elapsed(w, t) == w.until <= t

Bracketed(x, n) == x.min <= n /\ n <= x.max

Init ==
    /\ kind \in MechanismKind
    /\ market = "CREATED"
    /\ offers \in [OfferIds -> [state : {"ACTIVE"}, terms : UNION {TermSheets[o] : o \in OfferIds}]]
    /\ \A o \in OfferIds : offers[o].terms \in TermSheets[o]
    /\ submissions = << >>
    /\ reservations = << >>
    /\ quote = None /\ issued = None /\ deal = None /\ outcome = None

-----------------------------------------------------------------------------
(* Offers. *)

AdvanceOffer(o, from, to) ==
    /\ offers[o].state \in from
    /\ offers' = [offers EXCEPT ![o].state = to]
    /\ UNCHANGED <<kind, sessionVars, issued, deal>>

AmendOffer(o, terms) ==
    /\ offers[o].state = "ACTIVE" /\ terms # offers[o].terms
    /\ offers' = [offers EXCEPT ![o].terms = terms]
    /\ UNCHANGED <<kind, sessionVars, issued, deal>>

SuspendOffer(o) == AdvanceOffer(o, {"ACTIVE"}, "SUSPENDED")
ResumeOffer(o) == AdvanceOffer(o, {"SUSPENDED"}, "ACTIVE")
WithdrawOffer(o) == AdvanceOffer(o, {"ACTIVE", "SUSPENDED"}, "WITHDRAWN")
ExpireOffer(o, t) == Elapsed(Available[o], t) /\ AdvanceOffer(o, {"ACTIVE", "SUSPENDED"}, "EXPIRED")

-----------------------------------------------------------------------------
(* The phases of the market and its submissions. *)

AdvanceMarket(from, to) ==
    /\ market \in from
    /\ market' = to
    /\ UNCHANGED <<kind, offers, submissions, reservations, quote, issued, deal, outcome>>

Open(t) == Inside(TradingWindow, t) /\ AdvanceMarket({"CREATED"}, "OPEN")
Close(t) == Elapsed(TradingWindow, t) /\ AdvanceMarket({"OPEN"}, "CLOSED")
Cancel == AdvanceMarket({"CREATED", "OPEN"}, "CANCELLED")

ActiveSubmissions == {i \in Sequence : submissions[i].state \in ACTIVE_SUBMISSION_STATES}

\* Mutant of HasBid: an admitted submission is no longer in the way.
HasOpenBid(p) == \E i \in Sequence : Provider[submissions[i].offer] = p /\ submissions[i].state = "SUBMITTED"

HasBid(p) == \E i \in ActiveSubmissions : Provider[submissions[i].offer] = p

\* build_submission: price and fee are copied from the offer as it stands.
Submission(o, amount, t) ==
    [offer |-> o, amount |-> amount, price |-> offers[o].terms.price,
     fee |-> offers[o].terms.fee, at |-> t, state |-> "SUBMITTED"]

\* The provider that submits is the one that owns the offer.
Submit(o, amount, t) ==
    /\ market = "OPEN"
    /\ Inside(TradingWindow, t)
    /\ Provider[o] # Taker
    /\ offers[o].state = "ACTIVE"
    /\ Bracketed(PriceBand, offers[o].terms.price)
    /\ Bracketed(offers[o].terms, amount)
    /\ ~HasBid(Provider[o])
    /\ Cardinality(ActiveSubmissions) < MaxSubmissions
    /\ Len(submissions) < MaxSequence[kind]
    /\ submissions' = Append(submissions, Submission(o, amount, t))
    /\ UNCHANGED <<kind, market, offers, reservations, quote, issued, deal, outcome>>

AdvanceSubmission(i, from, to) ==
    /\ market = "OPEN"
    /\ submissions[i].state \in from
    /\ submissions' = [submissions EXCEPT ![i].state = to]
    /\ UNCHANGED <<kind, market, offers, reservations, quote, issued, deal, outcome>>

Withdraw(i) == AdvanceSubmission(i, ACTIVE_SUBMISSION_STATES, "WITHDRAWN")
Admit(i) == AdvanceSubmission(i, {"SUBMITTED"}, "ACCEPTED")
RejectSubmission(i) == AdvanceSubmission(i, ACTIVE_SUBMISSION_STATES, "REJECTED")

-----------------------------------------------------------------------------
(* The mechanism engines: which submissions are filled, and for how much. *)

\* _validate_submission: the offer may have changed since it was submitted.
EligibleSubmission(i) ==
    LET s == submissions[i]
        offer == offers[s.offer]
    IN  /\ Bracketed(PriceBand, s.price)
        /\ s.state = "ACCEPTED"
        /\ offer.state = "ACTIVE"
        /\ offer.terms.price = s.price /\ offer.terms.fee = s.fee
        /\ Bracketed(offer.terms, s.amount)

Eligible == {i \in Sequence : EligibleSubmission(i)}

\* _collusion_rejections: mirrored submissions of different providers, unless
\* the batch has one price only.
Mirrors(i) ==
    {j \in Eligible : \A f \in {"price", "fee", "amount"} : submissions[j][f] = submissions[i][f]}
Flagged ==
    IF Cardinality({submissions[i].price : i \in Eligible}) < 2 THEN {}
    ELSE {i \in Eligible :
            Cardinality({Provider[submissions[j].offer] : j \in Mirrors(i)}) >= ClusterMin}

\* Mutant of RankedBefore: price and sequence decide, whatever the instants.
RankedByArrival(i, j) ==
    \/ submissions[i].price < submissions[j].price
    \/ submissions[i].price = submissions[j].price /\ i < j

\* _rank_key: price, flat fee, instant, sequence.
RankedBefore(i, j) ==
    LET s == submissions[i]
        u == submissions[j]
    IN  \/ s.price < u.price
        \/ s.price = u.price /\ s.fee < u.fee
        \/ s.price = u.price /\ s.fee = u.fee /\ s.at < u.at
        \/ s.price = u.price /\ s.fee = u.fee /\ s.at = u.at /\ i < j

\* Mutant of Take: a submission is filled whole.
TakeAll(target, total, amount) == amount

Take(target, total, amount) == Min({target - total, amount})

\* The greedy pass of BatchAuctionEngine.allocate over the ranking.  While it
\* goes on everything ahead was taken whole, and what stops it stops it for the
\* rest of the ranking too.
Batch == Eligible \ Flagged
Ahead(i) == {j \in Batch : RankedBefore(j, i)}
AmountAhead(i) == SumFunction([j \in Ahead(i) |-> submissions[j].amount])

Reached(d, i) ==
    \/ AmountAhead(i) >= d.max
    \/ Cardinality(Ahead(i)) >= (IF d.split THEN d.count ELSE 1) /\ AmountAhead(i) >= d.min

Fills(d) ==
    [i \in {j \in Batch : ~Reached(d, j)} |-> Take(d.max, AmountAhead(i), submissions[i].amount)]

NoFills == << >>

\* Every fill has the price of the last one.
BatchOutcome(d) ==
    LET fills == Fills(d)
        last == CHOOSE i \in DOMAIN fills : \A j \in DOMAIN fills \ {i} : RankedBefore(j, i)
    IN  IF SumFunction(fills) < d.min \/ DOMAIN fills = {}
        THEN [demand |-> d, fills |-> NoFills, price |-> None]
        ELSE [demand |-> d, fills |-> fills, price |-> submissions[last].price]

RfqOutcome(d) ==
    LET candidates == {i \in Eligible : submissions[i].amount >= d.min}
        best == CHOOSE i \in candidates : \A j \in candidates \ {i} : RankedBefore(i, j)
    IN  IF candidates = {} THEN [demand |-> d, fills |-> NoFills, price |-> None]
        ELSE [demand |-> d, fills |-> [i \in {best} |-> Min({d.max, submissions[i].amount})],
              price |-> submissions[best].price]

-----------------------------------------------------------------------------
(* Allocation.  The market is ALLOCATED before the engine runs. *)

\* _validate_request.
Fits(d) == d.max >= AmountWindow.min /\ d.min <= AmountWindow.max

\* The engine refuses the demand: nothing but the market has changed.
AllocateRaises(d) == ~Fits(d) /\ AdvanceMarket({"CLOSED"}, "ALLOCATED")

Answered(fills) ==
    [i \in Sequence |->
       [submissions[i] EXCEPT !.state =
          CASE i \in DOMAIN fills /\ fills[i] = submissions[i].amount -> "ALLOCATED_FULL"
            [] i \in DOMAIN fills /\ fills[i] # submissions[i].amount -> "ALLOCATED_PARTIAL"
            [] i \notin DOMAIN fills /\ @ = "ACCEPTED" -> "UNALLOCATED"
            [] OTHER -> @]]

Reservation(amount, from, until) ==
    [state |-> "RESERVED", amount |-> amount, window |-> [from |-> from, until |-> until]]

AllocateBatch(d, t) ==
    /\ kind = "BATCH_AUCTION" /\ market = "CLOSED" /\ Fits(d)
    /\ market' = "ALLOCATED"
    /\ outcome' = BatchOutcome(d)
    /\ submissions' = Answered(outcome'.fills)
    /\ reservations' = [i \in DOMAIN outcome'.fills |-> Reservation(outcome'.fills[i], t, t + HoldTime)]
    /\ UNCHANGED <<kind, offers, quote, issued, deal>>

\* The firm quote of an RFQ fill, by the winner's offer.
FirmQuote(d, i, fill, t) ==
    LET terms == offers[submissions[i].offer].terms
    IN  [id |-> "EMITTED", state |-> "FIRM", maker |-> Provider[submissions[i].offer],
         price |-> submissions[i].price, min |-> Max({d.min, terms.min}), max |-> Min({d.max, fill}),
         window |-> [from |-> t, until |-> t + Validity]]

\* QuoteSpec and _ensure_offer_coherence: what an eligible submission does not
\* guarantee.
Quotable(q, o) ==
    /\ 1 <= q.min /\ q.min <= q.max
    /\ Available[o].from <= q.window.from /\ q.window.until <= Available[o].until

\* When the quote cannot be made, the submissions have already been answered
\* and the caller sees an error in place of the outcome.
AllocateRfq(d, t) ==
    /\ kind = "RFQ" /\ market = "CLOSED" /\ Fits(d)
    /\ market' = "ALLOCATED"
    /\ LET result == RfqOutcome(d)
           winners == DOMAIN result.fills
           firm(i) == FirmQuote(d, i, result.fills[i], t)
           quotes == {firm(i) : i \in {w \in winners : Quotable(firm(w), submissions[w].offer)}}
       IN  /\ submissions' = Answered(result.fills)
           /\ outcome' = IF quotes = {} /\ winners # {} THEN None ELSE result
           /\ quote' = IF quotes = {} THEN None ELSE CHOOSE q \in quotes : TRUE
           /\ issued' = quote'
    /\ UNCHANGED <<kind, offers, reservations, deal>>

-----------------------------------------------------------------------------
(* The emitted quote, in the hands of the maker and the taker. *)

AdvanceQuote(from, next) ==
    /\ issued # None /\ issued.state \in from
    /\ issued' = next
    /\ UNCHANGED <<kind, offers, sessionVars>>

\* Amended terms are not compared with the offer again.  Price and minimum are
\* amended in the same way as the maximum.
AmendQuote(max, until) ==
    /\ issued # None /\ issued.min <= max /\ issued.window.from < until
    /\ AdvanceQuote({"FIRM"}, [issued EXCEPT !.max = max, !.window.until = until])
    /\ UNCHANGED deal

\* Anybody but the maker may accept; the market's taker is not asked for.
AcceptQuote(p, t) ==
    /\ issued # None /\ p # issued.maker /\ Inside(issued.window, t)
    /\ AdvanceQuote({"FIRM"}, [issued EXCEPT !.state = "ACCEPTED"])
    /\ UNCHANGED deal

CommitQuote(fill, t) ==
    /\ issued # None /\ Bracketed(issued, fill) /\ Inside(issued.window, t)
    /\ AdvanceQuote({"ACCEPTED"}, [issued EXCEPT !.state = "COMMITTED"])
    /\ deal' = Reservation(fill, t, issued.window.until)

\* reject_quote, cancel_quote and invalidate_quote, expire_quote.
RejectQuote == AdvanceQuote({"FIRM"}, [issued EXCEPT !.state = "REJECTED"]) /\ UNCHANGED deal
VoidQuote(to) == AdvanceQuote({"FIRM", "ACCEPTED"}, [issued EXCEPT !.state = to]) /\ UNCHANGED deal
ExpireQuote(t) == issued # None /\ Elapsed(issued.window, t) /\ VoidQuote("EXPIRED")

AdvanceDeal(to) ==
    /\ deal # None /\ deal.state = "RESERVED"
    /\ deal' = [deal EXCEPT !.state = to]
    /\ UNCHANGED <<kind, offers, sessionVars, issued>>

CommitDeal(t) == deal # None /\ Inside(deal.window, t) /\ AdvanceDeal("COMMITTED")
ReleaseDeal == AdvanceDeal("RELEASED")
ExpireDeal(t) == deal # None /\ Elapsed(deal.window, t) /\ AdvanceDeal("EXPIRED")

-----------------------------------------------------------------------------
(* The market's answer to its allocation. *)

Settled(to) == [i \in DOMAIN reservations |-> [reservations[i] EXCEPT !.state = to]]

\* One reservation that cannot be committed refuses the whole command.
AcceptBatch(t) ==
    /\ kind = "BATCH_AUCTION" /\ market = "ALLOCATED"
    /\ \A i \in DOMAIN reservations :
         reservations[i].state = "RESERVED" /\ Inside(reservations[i].window, t)
    /\ reservations' = Settled("COMMITTED")
    /\ market' = "ACCEPTED"
    /\ UNCHANGED <<kind, offers, submissions, quote, issued, deal, outcome>>

\* A committed quote of another market.
ForeignQuote ==
    [id |-> "FOREIGN", state |-> "COMMITTED", maker |-> None, price |-> 1,
     min |-> 1, max |-> 1, window |-> [from |-> 0, until |-> 1]]

\* Without a quote of its own the session compares no ids.
AcceptRfq(q) ==
    /\ kind = "RFQ" /\ market = "ALLOCATED"
    /\ q # None /\ q.state = "COMMITTED"
    /\ quote # None => q.id = quote.id
    /\ quote' = q
    /\ market' = "ACCEPTED"
    /\ UNCHANGED <<kind, offers, submissions, reservations, issued, deal, outcome>>

RejectBatch ==
    /\ kind = "BATCH_AUCTION" /\ market = "ALLOCATED"
    /\ \A i \in DOMAIN reservations : reservations[i].state = "RESERVED"
    /\ reservations' = Settled("RELEASED")
    /\ market' = "REJECTED"
    /\ UNCHANGED <<kind, offers, submissions, quote, issued, deal, outcome>>

\* The session invalidates the version it keeps, not the one the parties have.
RejectRfq ==
    /\ kind = "RFQ" /\ market = "ALLOCATED"
    /\ quote' = IF quote = None THEN None ELSE [quote EXCEPT !.state = "INVALIDATED"]
    /\ market' = "REJECTED"
    /\ UNCHANGED <<kind, offers, submissions, reservations, issued, deal, outcome>>

-----------------------------------------------------------------------------

\* Bound: once the market has been allocated no step reads an offer.
OfferStep ==
    /\ market \in {"CREATED", "OPEN", "CLOSED"}
    /\ \E o \in Volatile :
       \/ \E terms \in TermSheets[o] : AmendOffer(o, terms)
       \/ SuspendOffer(o)
       \/ ResumeOffer(o)
       \/ WithdrawOffer(o)
       \/ \E t \in Instants : ExpireOffer(o, t)

SubmissionStep ==
    \/ \E o \in OfferIds, amount \in Amounts, t \in Instants : Submit(o, amount, t)
    \/ \E i \in Sequence : Withdraw(i) \/ Admit(i) \/ RejectSubmission(i)

PhaseStep ==
    \/ \E t \in Instants : Open(t) \/ Close(t)
    \/ Cancel
    \/ \E d \in Demands : AllocateRaises(d)
    \/ \E d \in Demands, t \in Instants : AllocateBatch(d, t) \/ AllocateRfq(d, t)
    \/ \E t \in Instants : AcceptBatch(t)
    \/ RejectBatch
    \/ \E q \in {issued, ForeignQuote} : AcceptRfq(q)
    \/ RejectRfq

QuoteStep ==
    \/ \E max \in Amounts, until \in Instants : AmendQuote(max, until)
    \/ \E p \in Parties, t \in Instants : AcceptQuote(p, t)
    \/ \E fill \in Amounts, t \in Instants : CommitQuote(fill, t)
    \/ RejectQuote
    \/ \E to \in {"CANCELLED", "INVALIDATED"} : VoidQuote(to)
    \/ \E t \in Instants : ExpireQuote(t) \/ CommitDeal(t) \/ ExpireDeal(t)
    \/ ReleaseDeal

Next == OfferStep \/ SubmissionStep \/ PhaseStep \/ QuoteStep

Spec == Init /\ [][Next]_vars

-----------------------------------------------------------------------------
(* Properties. *)

\* A submission an allocation may fill: admitted, at a price of the market's
\* band, and still backed by its offer as the offer is now.
Standing ==
    {i \in Sequence :
        LET s == submissions[i]
            offer == offers[s.offer]
        IN  /\ s.state = "ACCEPTED" /\ PriceBand.min <= s.price /\ s.price <= PriceBand.max
            /\ offer.state = "ACTIVE" /\ offer.terms.price = s.price /\ offer.terms.fee = s.fee
            /\ offer.terms.min <= s.amount /\ s.amount <= offer.terms.max}

\* Price-time priority (ALLOCATION_CLASS, mechanisms.py 11-16): when an
\* allocation fills a submission, its offer still backs it whatever happened to
\* the offer since it was submitted, and every other such submission that
\* precedes it in price, flat fee, instant or, at last, sequence is filled whole,
\* unless it was flagged.  An RFQ passes by only those that could not meet the
\* demand's minimum.
PriceTimePriority ==
    [][outcome = None /\ outcome' # None =>
         \A i \in DOMAIN outcome'.fills :
            /\ i \in Standing
            /\ \A j \in {e \in Standing :
                         LET s == submissions[i]
                             u == submissions[e]
                         IN  \/ u.price < s.price
                             \/ u.price = s.price /\ u.fee < s.fee
                             \/ u.price = s.price /\ u.fee = s.fee /\ u.at < s.at
                             \/ u.price = s.price /\ u.fee = s.fee /\ u.at = s.at /\ e < i} :
                 IF kind = "RFQ" THEN submissions[j].amount < outcome'.demand.min
                 ELSE j \in Flagged \/ submissions'[j].state = "ALLOCATED_FULL"]_vars

\* What an allocation returns serves the demand it was asked for: the fills add
\* up to an amount between its minimum and its maximum, no submission gives
\* more than it offered or is paid less than it asked, and an RFQ's quote, as
\* long as the session keeps it firm, promises no more than the fill.
FillsServeDemand ==
    outcome # None /\ outcome.fills # NoFills =>
       /\ outcome.demand.min <= SumFunction(outcome.fills) /\ SumFunction(outcome.fills) <= outcome.demand.max
       /\ \A i \in DOMAIN outcome.fills :
            /\ outcome.fills[i] <= submissions[i].amount
            /\ submissions[i].price <= outcome.price
       /\ kind = "RFQ" /\ quote.state = "FIRM" =>
            \A i \in DOMAIN outcome.fills : quote.max <= outcome.fills[i] /\ quote.price = outcome.price

\* The winners of a batch and its reservations are the same all along, one per
\* provider and each for its fill: held until the market answers, committed
\* together when it accepts and released together when it rejects.
ReservationsFollowMarket ==
    kind = "BATCH_AUCTION" =>
       /\ DOMAIN reservations = {i \in Sequence : submissions[i].state \in Won}
       /\ \A i, j \in DOMAIN reservations :
            i # j => Provider[submissions[i].offer] # Provider[submissions[j].offer]
       /\ \A i \in DOMAIN reservations :
            /\ reservations[i].amount = outcome.fills[i]
            /\ CASE market = "ALLOCATED" -> reservations[i].state = "RESERVED"
                 [] market = "ACCEPTED" -> reservations[i].state = "COMMITTED"
                 [] market = "REJECTED" -> reservations[i].state = "RELEASED"

=============================================================================
