------------------------------ MODULE Settlement ------------------------------
(***************************************************************************)
(* The settlement domain (src/src/settlement/engine.py with records.py,    *)
(* finality.py, recourse.py and postings.py): batches that discharge DUE   *)
(* obligations leg by leg over a rail, the certificate that declares a     *)
(* settlement final, refund and reversal cases, and the append-only        *)
(* journal of postings.  Each action is a kernel handler; the kernel makes *)
(* a command atomic, checks the version of every target in its own store,  *)
(* and a handler that raises changes nothing.  Amounts and parties are     *)
(* copied from the obligation to the leg and to its postings, so a posting *)
(* is counted and not summed.  Evidence, reasons and time stamps are left  *)
(* out: submission may meet its window, and a reconciliation may be dated  *)
(* before or after the end of it.                                          *)
(***************************************************************************)
EXTENDS Naturals, Sequences

CONSTANTS
    Obligations,     \* DUE obligations whose sealed records callers hold
    Batches,         \* ids of settlements callers create
    Drafts,          \* batch -> the sets of obligations callers may draft it from
    Cases,           \* ids of recourse cases
    None,            \* "not linked"
    MaxObservations  \* bound on the observations of one leg in one reconciliation

ASSUME BoundsAssumption == MaxObservations \in Nat
ASSUME DraftsAssumption == Drafts \in [Batches -> SUBSET SUBSET Obligations]
ASSUME DistinctIdsAssumption == Batches \cap Cases = {} /\ None \notin Batches \cup Cases

VARIABLES
    settlement,  \* settlement id -> its record
    certificate, \* settlement id -> the finality certificate of the settlement
    recourse,    \* case id -> its record
    posted,      \* leg -> kind -> how often the journal holds that posting
    store        \* the objects in the store of the transition kernel

settlementVars == <<settlement, certificate, recourse, posted, store>>

\* The refund settlement of case c has the id "<c>/refund", which is c here.
SettlementIds == Batches \cup Cases

\* The leg of settlement s for obligation o is <<s, o>>; a refund leg has the
\* obligation of the leg it refunds.
LegIds == SettlementIds \X Obligations

LegState == {"SUBMITTED", "UNKNOWN", "SETTLED", "FAILED"}
LEG_TERMINAL_STATES == {"SETTLED", "FAILED"}
SettlementState == {"DRAFT", "AUTHORIZED", "SUBMITTED", "COMPLETED", "FAILED", "CANCELLED"}
SETTLEMENT_TERMINAL_STATES == {"COMPLETED", "FAILED", "CANCELLED"}
FinalityState == {"PENDING", "ESTABLISHED", "CHALLENGED", "REVOKED"}
RecourseKind == {"REFUND", "REVERSAL"}
RecourseCaseState == {"REQUESTED", "APPROVED", "REJECTED", "COMPILED", "EXECUTED"}
PostingKind == {"SUSPENSE", "SUSPENSE_RELEASE", "DISCHARGE", "REFUND", "REVERSAL"}

NoPostings == [kind \in PostingKind |-> 0]

\* A leg has the outcome "NONE" before submission.
Drafted(legs, linked) ==
    [state |-> "DRAFT", legs |-> legs, linked |-> linked,
     outcome |-> [o \in Obligations |-> "NONE"]]

Absent == [state |-> "NONE", legs |-> {}, linked |-> None,
           outcome |-> [o \in Obligations |-> "NONE"]]
NoCertificate == [state |-> "NONE", claims |-> {}]
NoCase == [state |-> "NONE", kind |-> "NONE", of |-> None, legs |-> {}]

SettlementTypeOK ==
    /\ settlement \in
          [SettlementIds -> [state : SettlementState \cup {"NONE"}, legs : SUBSET Obligations,
                             linked : SettlementIds \cup {None},
                             outcome : [Obligations -> LegState \cup {"NONE"}]]]
    /\ \A s \in SettlementIds :
          \A o \in Obligations : settlement[s].outcome[o] # "NONE" => o \in settlement[s].legs
    /\ certificate \in
          [SettlementIds -> [state : FinalityState \cup {"NONE"}, claims : SUBSET Obligations]]
    /\ recourse \in
          [Cases -> [state : RecourseCaseState \cup {"NONE"}, kind : RecourseKind \cup {"NONE"},
                     of : SettlementIds \cup {None}, legs : SUBSET Obligations]]
    /\ posted \in [LegIds -> [PostingKind -> Nat]]

SettlementInit ==
    /\ settlement = [s \in SettlementIds |-> Absent]
    /\ certificate = [s \in SettlementIds |-> NoCertificate]
    /\ recourse = [c \in Cases |-> NoCase]
    /\ posted = [l \in LegIds |-> NoPostings]
    /\ store = {}

\* What the kernel checks: a new object is not in its store, a target is.
Creates(id) == id \notin store /\ store' = store \cup {id}
Targets(id) == id \in store /\ store' = store

SettlementObject(s) == <<"settlement", s>>
FinalityObject(s) == <<"finality", s>>
CaseObject(c) == <<"case", c>>

-----------------------------------------------------------------------------
(* Settlements. *)

\* Mutant of SettlementExclusive: only a submitted settlement holds its legs.
ExclusiveOnceSubmitted(o) ==
    \A s \in Batches : settlement[s].state = "SUBMITTED" => o \notin settlement[s].legs

\* _require_settlement_exclusivity: o is a leg of no live settlement.  The legs
\* of refunds carry no obligation id.
SettlementExclusive(o) ==
    \A s \in Batches :
        settlement[s].state \in {"DRAFT", "AUTHORIZED", "SUBMITTED"} => o \notin settlement[s].legs

\* The obligations come as sealed DUE records from the caller, and the clearing
\* domain is not asked.  The index of settlements is not asked for s either.
SettlementCreate(s, O) ==
    /\ O # {}
    /\ \A o \in O : SettlementExclusive(o)
    /\ Creates(SettlementObject(s))
    /\ settlement' = [settlement EXCEPT ![s] = Drafted(O, None)]
    /\ UNCHANGED <<certificate, recourse, posted>>

AdvanceSettlement(s, from, record) ==
    /\ settlement[s].state \in from
    /\ Targets(SettlementObject(s))
    /\ settlement' = [settlement EXCEPT ![s] = record]
    /\ UNCHANGED <<certificate, recourse>>

SettlementAuthorize(s) ==
    /\ AdvanceSettlement(s, {"DRAFT"}, [settlement[s] EXCEPT !.state = "AUTHORIZED"])
    /\ UNCHANGED posted

Submitted(legs) == [o \in Obligations |-> IF o \in legs THEN "SUBMITTED" ELSE "NONE"]

SettlementSubmit(s) ==
    /\ AdvanceSettlement(s, {"AUTHORIZED"},
          [settlement[s] EXCEPT !.state = "SUBMITTED",
                                !.outcome = Submitted(settlement[s].legs)])
    /\ UNCHANGED posted

SettlementCancel(s) ==
    /\ AdvanceSettlement(s, {"DRAFT", "AUTHORIZED"},
          [settlement[s] EXCEPT !.state = "CANCELLED"])
    /\ UNCHANGED posted

-----------------------------------------------------------------------------
(* Reconciliation.  The command carries a list of rail observations.  Those  *)
(* of different legs do not meet, so `obs` gives the list of each leg in the *)
(* order of the command; in-flight statuses resolve nothing and are left out. *)

ObservationLists ==
    UNION {[1 .. n -> LegState \ {"SUBMITTED"}] : n \in 0 .. MaxObservations}

\* A terminal leg is not observed again, also not later in the same command.
Foldable(s, obs) ==
    \A o \in settlement[s].legs :
        /\ obs[o] # <<>> => settlement[s].outcome[o] \notin LEG_TERMINAL_STATES
        /\ \A i, j \in DOMAIN obs[o] : i < j => obs[o][i] \notin LEG_TERMINAL_STATES

\* The outcome of leg o: what was observed last, or the age of the window.
Folded(s, obs, late, o) ==
    CASE o \notin settlement[s].legs -> "NONE"
      [] o \in settlement[s].legs /\ obs[o] # <<>> -> obs[o][Len(obs[o])]
      [] o \in settlement[s].legs /\ obs[o] = <<>> ->
            IF late /\ settlement[s].outcome[o] = "SUBMITTED"
            THEN "UNKNOWN" ELSE settlement[s].outcome[o]

ObservedUnknown(obs, o) == \E i \in DOMAIN obs[o] : obs[o][i] = "UNKNOWN"

\* Mutant of Suspends: a leg is put into suspense whenever it is UNKNOWN.
SuspendsAgain(s, obs, late, o) ==
    ObservedUnknown(obs, o) \/
        (late /\ obs[o] = <<>> /\ settlement[s].outcome[o] = "SUBMITTED")

\* Does leg o get a SUSPENSE pair: it becomes UNKNOWN and was not in suspense?
Suspends(s, obs, late, o) ==
    /\ settlement[s].outcome[o] = "SUBMITTED"
    /\ ObservedUnknown(obs, o) \/ (late /\ obs[o] = <<>>)

\* Does leg o get a SUSPENSE_RELEASE pair: it was in suspense and is resolved,
\* both possibly by this command?
Releases(s, obs, o) ==
    /\ \E i \in DOMAIN obs[o] : obs[o][i] \in LEG_TERMINAL_STATES
    /\ settlement[s].outcome[o] = "UNKNOWN" \/ ObservedUnknown(obs, o)

Settles(obs, o) == \E i \in DOMAIN obs[o] : obs[o][i] = "SETTLED"

\* _postings_for_leg_transition over the command, for a leg o of s.
LegPostings(s, obs, late, o) ==
    LET paid == IF settlement[s].linked = None THEN "DISCHARGE" ELSE "REFUND"
    IN [kind \in PostingKind |->
          posted[<<s, o>>][kind] +
            IF \/ kind = "SUSPENSE" /\ Suspends(s, obs, late, o)
               \/ kind = "SUSPENSE_RELEASE" /\ Releases(s, obs, o)
               \/ kind = paid /\ Settles(obs, o)
            THEN 1 ELSE 0]

StateOfLegs(legs, outcome) ==
    IF \A o \in legs : outcome[o] = "SETTLED" THEN "COMPLETED"
    ELSE IF \A o \in legs : outcome[o] \in LEG_TERMINAL_STATES THEN "FAILED" ELSE "SUBMITTED"

SettlementReconcile(s, obs, late) ==
    LET outcome == [o \in Obligations |-> Folded(s, obs, late, o)]
    IN /\ settlement[s].state = "SUBMITTED"
       /\ Foldable(s, obs)
       /\ AdvanceSettlement(s, {"SUBMITTED"},
             [settlement[s] EXCEPT !.state = StateOfLegs(settlement[s].legs, outcome),
                                   !.outcome = outcome])
       /\ posted' = [l \in LegIds |->
             IF l[1] = s /\ l[2] \in settlement[s].legs
             THEN LegPostings(s, obs, late, l[2]) ELSE posted[l]]

SettledLegs(s) == {o \in settlement[s].legs : settlement[s].outcome[o] = "SETTLED"}

-----------------------------------------------------------------------------
(* Finality.  A certificate has an id the caller chooses, but there is at    *)
(* most one of a settlement, ever.                                           *)

\* A FINAL or SETTLED claim of the rail on a settled leg is taken into the
\* pending certificate of s, the first one with a new certificate.
FinalityValidate(s, o) ==
    /\ o \in SettledLegs(s)
    /\ SettlementObject(s) \in store
    /\ \/ /\ certificate[s].state = "NONE"
          /\ Creates(FinalityObject(s))
       \/ /\ certificate[s].state = "PENDING"
          /\ o \notin certificate[s].claims
          /\ Targets(FinalityObject(s))
    /\ certificate' = [certificate EXCEPT ![s] =
          [state |-> "PENDING", claims |-> @.claims \cup {o}]]
    /\ UNCHANGED <<settlement, recourse, posted>>

AdvanceFinality(s, from, to) ==
    /\ certificate[s].state \in from
    /\ Targets(FinalityObject(s))
    /\ certificate' = [certificate EXCEPT ![s].state = to]
    /\ UNCHANGED <<settlement, recourse, posted>>

\* Mutant of Certifiable: finality is established leg by leg.
CertifiableEarly(s) ==
    /\ certificate[s].claims = SettledLegs(s)
    /\ SettledLegs(s) # {}

\* Only a terminal settlement is final, and every settled leg has its claim.
Certifiable(s) ==
    /\ settlement[s].state \in {"COMPLETED", "FAILED"}
    /\ certificate[s].claims = SettledLegs(s)
    /\ SettledLegs(s) # {}

FinalityEstablish(s) == Certifiable(s) /\ AdvanceFinality(s, {"PENDING"}, "ESTABLISHED")

FinalityChallenge(s) == AdvanceFinality(s, {"ESTABLISHED"}, "CHALLENGED")

FinalityRevoke(s) == AdvanceFinality(s, {"PENDING", "ESTABLISHED", "CHALLENGED"}, "REVOKED")

-----------------------------------------------------------------------------
(* Recourse. *)

\* Mutant of Withdrawn: a certificate that was never established will do.
NotFinal(s) == certificate[s].state # "ESTABLISHED"

\* The finality of s was withdrawn, which the evidence of a reversal is bound to.
Withdrawn(s) == certificate[s].state \in {"REVOKED", "CHALLENGED"}

RecourseRequest(c, kind, s, O) ==
    /\ O # {} /\ O \subseteq SettledLegs(s)
    /\ kind = "REFUND" => settlement[s].state \in {"COMPLETED", "FAILED"}
    /\ kind = "REVERSAL" => Withdrawn(s)
    /\ Creates(CaseObject(c))
    /\ recourse' = [recourse EXCEPT ![c] =
          [state |-> "REQUESTED", kind |-> kind, of |-> s, legs |-> O]]
    /\ UNCHANGED <<settlement, certificate, posted>>

AdvanceRecourse(c, from, to) ==
    /\ recourse[c].state \in from
    /\ recourse' = [recourse EXCEPT ![c].state = to]
    /\ UNCHANGED certificate

RecourseDecide(c, approved) ==
    /\ Targets(CaseObject(c))
    /\ AdvanceRecourse(c, {"REQUESTED"}, IF approved THEN "APPROVED" ELSE "REJECTED")
    /\ UNCHANGED <<settlement, posted>>

\* The refund is a settlement of its own, with the legs of the case reversed.
RefundCompile(c) ==
    /\ recourse[c].kind = "REFUND"
    /\ settlement[c] = Absent
    /\ CaseObject(c) \in store
    /\ Creates(SettlementObject(c))
    /\ AdvanceRecourse(c, {"APPROVED"}, "COMPILED")
    /\ settlement' = [settlement EXCEPT ![c] = Drafted(recourse[c].legs, recourse[c].of)]
    /\ UNCHANGED posted

\* Mutant of Refunded: one REFUND posting is enough.
SomeRefunded(c) == \E o \in settlement[c].legs : posted[<<c, o>>]["REFUND"] > 0

\* The compiled settlement completed and has left REFUND postings.
Refunded(c) ==
    /\ settlement[c].state = "COMPLETED"
    /\ \E o \in settlement[c].legs : posted[<<c, o>>]["REFUND"] > 0

RefundExecute(c) ==
    /\ Targets(CaseObject(c))
    /\ AdvanceRecourse(c, {"COMPILED"}, "EXECUTED")
    /\ Refunded(c)
    /\ UNCHANGED <<settlement, posted>>

\* The compensation of the discharge of each leg of the case.  Neither the
\* certificate nor another case over the same legs is looked at.
ReversalExecute(c) ==
    /\ recourse[c].kind = "REVERSAL"
    /\ Targets(CaseObject(c))
    /\ AdvanceRecourse(c, {"APPROVED"}, "EXECUTED")
    /\ posted' = [l \in LegIds |->
          IF l[1] = recourse[c].of /\ l[2] \in recourse[c].legs
          THEN [posted[l] EXCEPT !["REVERSAL"] = @ + 1] ELSE posted[l]]
    /\ UNCHANGED settlement

-----------------------------------------------------------------------------
\* Snapshots hold the index, the store and the kernel together, so restoring
\* one changes nothing here.
SettlementStep(s) ==
    \/ SettlementAuthorize(s) \/ SettlementSubmit(s) \/ SettlementCancel(s)
    \/ \E obs \in [settlement[s].legs -> ObservationLists], late \in BOOLEAN :
          SettlementReconcile(s, obs, late)
    \/ \E o \in Obligations : FinalityValidate(s, o)
    \/ FinalityEstablish(s) \/ FinalityChallenge(s) \/ FinalityRevoke(s)

RecourseStep(c) ==
    \/ \E kind \in RecourseKind, s \in SettlementIds, O \in SUBSET Obligations :
          RecourseRequest(c, kind, s, O)
    \/ \E approved \in BOOLEAN : RecourseDecide(c, approved)
    \/ RefundCompile(c) \/ RefundExecute(c) \/ ReversalExecute(c)

SettlementNext ==
    \/ \E s \in Batches : \E O \in Drafts[s] : SettlementCreate(s, O)
    \/ \E s \in SettlementIds : SettlementStep(s)
    \/ \E c \in Cases : RecourseStep(c)

SettlementSpec == SettlementInit /\ [][SettlementNext]_settlementVars

-----------------------------------------------------------------------------
\* The suspense, discharge and refund postings are explained by the leg they are
\* about and every leg by them: a leg in suspense has one SUSPENSE pair not released and no other
\* leg has, a settled leg was discharged (or refunded) exactly once and no other
\* leg was, whatever mixture of late, repeated and contradicting observations
\* the reconciliations folded.  REVERSAL postings are not counted: two cases may
\* each compensate one leg.
PostingsExplainLegs ==
    \A s \in SettlementIds, o \in Obligations :
        LET p == posted[<<s, o>>]
            outcome == settlement[s].outcome[o]
        IN /\ p["SUSPENSE"] = p["SUSPENSE_RELEASE"] + (IF outcome = "UNKNOWN" THEN 1 ELSE 0)
           /\ p["DISCHARGE"] + p["REFUND"] = (IF outcome = "SETTLED" THEN 1 ELSE 0)
           /\ p["DISCHARGE"] > 0 => s \in Batches
           /\ p["REFUND"] > 0 => s \in Cases

\* No false finality: a certificate that is or was established belongs to a
\* settlement no observation can change any more and whose every leg was resolved,
\* and its claims are exactly the legs that settled.
NoFalseFinality ==
    \A s \in SettlementIds :
        certificate[s].state \in {"ESTABLISHED", "CHALLENGED"} =>
            /\ settlement[s].state \in {"COMPLETED", "FAILED"}
            /\ \A o \in settlement[s].legs : settlement[s].outcome[o] \in LEG_TERMINAL_STATES
            /\ certificate[s].claims = SettledLegs(s)
            /\ certificate[s].claims # {}

\* An obligation is a leg of at most one live settlement, although a settlement
\* is created from records of the caller and only the index guards it.
LiveSettlementExclusive ==
    \A s, t \in Batches :
        /\ s # t
        /\ settlement[s].state \in SettlementState \ SETTLEMENT_TERMINAL_STATES
        /\ settlement[t].state \in SettlementState \ SETTLEMENT_TERMINAL_STATES
        => settlement[s].legs \cap settlement[t].legs = {}

\* A discharge is reversed only where it happened and only after the finality of
\* the settlement was withdrawn, however long ago the case was opened.
ReversalsOnlyWithdrawn ==
    \A s \in SettlementIds, o \in Obligations :
        posted[<<s, o>>]["REVERSAL"] > 0 =>
            certificate[s].state \in {"CHALLENGED", "REVOKED"} /\ o \in SettledLegs(s)

\* An executed refund case has paid back every one of its legs, once: the code
\* looks for one posting only.
ExecutedRefundsPaid ==
    \A c \in Cases :
        recourse[c].kind = "REFUND" /\ recourse[c].state = "EXECUTED" =>
            \A o \in recourse[c].legs : posted[<<c, o>>]["REFUND"] = 1

=============================================================================
