------------------------------- MODULE Clearing -------------------------------
(***************************************************************************)
(* The clearing domain (src/src/clearing/engine.py with obligations.py,    *)
(* netting.py and cycle.py): obligations recognised from execution results *)
(* into clearing cycles, their lifecycle, and netting cycles that bind a   *)
(* statement over member obligations and later replace the members by what *)
(* the statement says.  Each action is a kernel handler; the kernel makes  *)
(* one command atomic.  A handler that raises changes nothing.  Evidence,  *)
(* reasons, due windows and the valuation of a statement in a base         *)
(* currency are carried and never compared, and are left out; the caller's *)
(* clock may always have reached the opening of a due window.              *)
(***************************************************************************)
EXTENDS Integers, FiniteSets, Functions

CONSTANTS
    Participants,   \* obligors and obligees
    Assets,         \* asset and scale, which form the netting groups
    Results,        \* ids of SUCCEEDED effect results
    Leg,            \* result -> [payer, payee, asset, amount]
    Cycles,         \* clearing cycle ids
    Nettings,       \* netting cycle ids
    None,           \* "no cycle", "not resolved"
    NewAmounts,     \* the amounts amendments and restructurings may set
    MaxVersion      \* bounds on the versions obligations reach by their own commands

ASSUME LegAssumption ==
    Leg \in [Results -> [payer : Participants, payee : Participants,
                         asset : Assets, amount : Nat \ {0}]]
ASSUME DistinctPartiesAssumption == \A r \in Results : Leg[r].payer # Leg[r].payee
ASSUME NewAmountsAssumption == NewAmounts \subseteq Nat \ {0}
ASSUME NoneAssumption == None \notin Cycles \cup Nettings \cup {"EVIDENCE"} /\ "EVIDENCE" \notin Nettings

VARIABLES
    cycle,      \* cycle -> its state and members
    obligation, \* obligation id -> its record
    netting     \* netting -> its record

clearingVars == <<cycle, obligation, netting>>

\* The obligation netting n issues from p to q in asset x: the id of the code is
\* n and an ordinal, which within one statement stands for x, p and q.
Issued == Nettings \X Assets \X Participants \X Participants

ObligationIds == Results \cup Issued

ASSUME MaxVersionAssumption == MaxVersion \in [ObligationIds -> Nat]
ASSUME FiniteAssumption ==
    IsFiniteSet(Participants) /\ IsFiniteSet(Nettings) /\ IsFiniteSet(ObligationIds)

OBLIGATION_VALIDATED_STATES == {"VALIDATED", "AMENDED", "RESTRUCTURED", "DUE"}
OBLIGATION_TERMINAL_STATES == {"DEFAULTED", "RESOLVED"}
ObligationState ==
    OBLIGATION_VALIDATED_STATES \cup OBLIGATION_TERMINAL_STATES \cup {"RECOGNIZED", "DISPUTED"}
CycleState == {"OPEN", "VALIDATED", "FINALIZED", "CANCELLED"}
NettingState == {"OPEN", "CALCULATED", "FINALIZED", "CANCELLED"}
NettingMode == {"BILATERAL", "MULTILATERAL"}

Absent == [state |-> "NONE"]

ClearingInit ==
    /\ cycle = [c \in Cycles |-> Absent]
    /\ obligation = [o \in ObligationIds |-> Absent]
    /\ netting = [n \in Nettings |-> Absent]

-----------------------------------------------------------------------------
(* Clearing cycles. *)

CycleCreate(c) ==
    /\ cycle[c] = Absent
    /\ cycle' = [cycle EXCEPT ![c] = [state |-> "OPEN", members |-> {}]]
    /\ UNCHANGED <<obligation, netting>>

\* _require_cycle_members_finalizable.
MembersFinalizable(c) ==
    \A o \in cycle[c].members : obligation[o].state \in OBLIGATION_VALIDATED_STATES

AdvanceCycle(c, from, to) ==
    /\ cycle[c].state \in from
    /\ cycle' = [cycle EXCEPT ![c].state = to]
    /\ UNCHANGED <<obligation, netting>>

CycleValidate(c) ==
    cycle[c].state = "OPEN" /\ MembersFinalizable(c) /\ AdvanceCycle(c, {"OPEN"}, "VALIDATED")

\* The members are looked at again: one may have been disputed since.
CycleFinalize(c) ==
    /\ cycle[c].state = "VALIDATED"
    /\ MembersFinalizable(c)
    /\ cycle[c].members # {}
    /\ AdvanceCycle(c, {"VALIDATED"}, "FINALIZED")

CycleCancel(c) == AdvanceCycle(c, {"OPEN", "VALIDATED"}, "CANCELLED")

-----------------------------------------------------------------------------
(* Obligations. *)

\* A version-1 record, recognised in cycle c or issued by netting n; `resolution`
\* will be the netting or the evidence that resolves it.
Recognized(p, q, x, amount, c, n) ==
    [state |-> "RECOGNIZED", version |-> 1, obligor |-> p, obligee |-> q, asset |-> x,
     amount |-> amount, cycle |-> c, issuer |-> n, disputed |-> FALSE, due |-> FALSE,
     resolution |-> None]

\* An effect result is recognised once: its obligation must not exist yet.
ObligationCreate(r, c) ==
    /\ obligation[r] = Absent
    /\ cycle[c].state = "OPEN"
    /\ obligation' = [obligation EXCEPT ![r] =
          Recognized(Leg[r].payer, Leg[r].payee, Leg[r].asset, Leg[r].amount, c, None)]
    /\ cycle' = [cycle EXCEPT ![c].members = @ \cup {r}]
    /\ UNCHANGED netting

\* One obligation moves on to version + 1 with the fields of `record`.
AdvanceObligation(o, from, record) ==
    /\ obligation[o].state \in from
    /\ obligation[o].version < MaxVersion[o]
    /\ obligation' = [obligation EXCEPT ![o] = [record EXCEPT !.version = @ + 1]]
    /\ UNCHANGED <<cycle, netting>>

ObligationValidate(o) ==
    AdvanceObligation(o, {"RECOGNIZED"}, [obligation[o] EXCEPT !.state = "VALIDATED"])

ObligationAmend(o, amount) ==
    AdvanceObligation(o, {"VALIDATED", "AMENDED", "RESTRUCTURED"},
        [obligation[o] EXCEPT !.state = "AMENDED", !.amount = amount])

\* A dispute stays on the record, so there is never a second one.
ObligationDispute(o) ==
    /\ obligation[o].state \in OBLIGATION_VALIDATED_STATES
    /\ ~obligation[o].disputed
    /\ AdvanceObligation(o, OBLIGATION_VALIDATED_STATES,
          [obligation[o] EXCEPT !.state = "DISPUTED", !.disputed = TRUE])

\* Restructured terms are due anew.
ObligationRestructure(o, amount) ==
    AdvanceObligation(o, {"DISPUTED"},
        [obligation[o] EXCEPT !.state = "RESTRUCTURED", !.amount = amount, !.due = FALSE])

ObligationMarkDue(o) ==
    /\ obligation[o].state \in {"VALIDATED", "AMENDED", "RESTRUCTURED"}
    /\ ~obligation[o].due
    /\ AdvanceObligation(o, {"VALIDATED", "AMENDED", "RESTRUCTURED"},
          [obligation[o] EXCEPT !.state = "DUE", !.due = TRUE])

ObligationDefault(o) ==
    AdvanceObligation(o, {"DUE"}, [obligation[o] EXCEPT !.state = "DEFAULTED"])

\* The evidence of discharge is taken from the caller as it is.
ObligationResolve(o) ==
    AdvanceObligation(o, {"DUE"},
        [obligation[o] EXCEPT !.state = "RESOLVED", !.resolution = "EVIDENCE"])

-----------------------------------------------------------------------------
(* Netting. *)

\* What p owes q in asset x, over the obligations M.
Gross(M, x, p, q) ==
    SumFunction([o \in {m \in M : /\ obligation[m].asset = x
                                  /\ obligation[m].obligor = p
                                  /\ obligation[m].obligee = q} |-> obligation[o].amount])

\* What p owes q after offsetting, if q does not owe p: the issued amount.
PairNet(M, x, p, q) == Gross(M, x, p, q) - Gross(M, x, q, p)

\* The multilateral position: what p owes all others minus what they owe p.
Position(M, x, p) ==
    SumFunction([q \in Participants |-> Gross(M, x, p, q) - Gross(M, x, q, p)])

Binding(o) ==
    [version |-> obligation[o].version, amount |-> obligation[o].amount,
     obligor |-> obligation[o].obligor, obligee |-> obligation[o].obligee]

\* compute_netting_statement: the members' bindings, and the net of each pair
\* or the position of each participant.
Statement(M, mode) ==
    [bindings |-> [o \in M |-> Binding(o)],
     pairs |-> IF mode = "BILATERAL"
               THEN [k \in Assets \X Participants \X Participants |->
                        LET net == PairNet(M, k[1], k[2], k[3]) IN IF net > 0 THEN net ELSE 0]
               ELSE <<>>,
     positions |-> IF mode = "MULTILATERAL"
                   THEN [k \in Assets \X Participants |-> Position(M, k[1], k[2])]
                   ELSE <<>>]

NoStatement == <<>>

LiveNettings == {n \in Nettings : netting[n].state \in {"OPEN", "CALCULATED"}}

\* Mutant of NettingExclusive: only open nettings are looked at.
NotInOpenNetting(o) ==
    \A n \in LiveNettings : netting[n].state = "OPEN" => o \notin netting[n].members

\* _require_netting_exclusivity, and membership of the netting itself.
NettingExclusive(o) == \A n \in LiveNettings : o \notin netting[n].members

\* Mutant of CycleCleared: a validated cycle is enough.
CycleValidated(o) ==
    obligation[o].cycle # None => cycle[obligation[o].cycle].state \in {"VALIDATED", "FINALIZED"}

\* _require_member_cycle_finalized.
CycleCleared(o) ==
    obligation[o].cycle # None => cycle[obligation[o].cycle].state = "FINALIZED"

NettingCreate(n, mode) ==
    /\ netting[n] = Absent
    /\ netting' = [netting EXCEPT ![n] =
          [state |-> "OPEN", mode |-> mode, members |-> {}, statement |-> NoStatement]]
    /\ UNCHANGED <<cycle, obligation>>

NettingAdd(n, o) ==
    /\ netting[n].state = "OPEN"
    /\ obligation[o].state \in OBLIGATION_VALIDATED_STATES
    /\ obligation[o].issuer # n
    /\ CycleCleared(o)
    /\ NettingExclusive(o)
    /\ netting' = [netting EXCEPT ![n].members = @ \cup {o}]
    /\ UNCHANGED <<cycle, obligation>>

NettingRemove(n, o) ==
    /\ netting[n].state = "OPEN"
    /\ o \in netting[n].members
    /\ netting' = [netting EXCEPT ![n].members = @ \ {o}]
    /\ UNCHANGED <<cycle, obligation>>

Nettable(M) == \A o \in M : obligation[o].state \in OBLIGATION_VALIDATED_STATES

NettingCalculate(n) ==
    /\ netting[n].state = "OPEN"
    /\ netting[n].members # {}
    /\ Nettable(netting[n].members)
    /\ netting' = [netting EXCEPT ![n].state = "CALCULATED",
                                  ![n].statement = Statement(netting[n].members, netting[n].mode)]
    /\ UNCHANGED <<cycle, obligation>>

\* Mutant of StatementCurrent: only the states of the members are looked at.
StatementNotCompared(n) == Nettable(netting[n].members)

\* The members still have the bound versions, amounts and parties and are
\* nettable, and the statement derived from them is the bound one.
StatementCurrent(n) ==
    /\ Nettable(netting[n].members)
    /\ Statement(netting[n].members, netting[n].mode) = netting[n].statement

NettedAway(n, o) ==
    [obligation[o] EXCEPT !.state = "RESOLVED", !.version = @ + 1, !.resolution = n]

\* The pairs for which the statement issues a net obligation.
Issues(n) ==
    {id \in Issued : /\ id[1] = n
                     /\ netting[n].mode = "BILATERAL"
                     /\ netting[n].statement.pairs[<<id[2], id[3], id[4]>>] > 0}

NettingFinalize(n) ==
    /\ netting[n].state = "CALCULATED"
    /\ StatementCurrent(n)
    /\ \A id \in Issues(n) : obligation[id] = Absent
    /\ obligation' = [o \in ObligationIds |->
          IF o \in netting[n].members THEN NettedAway(n, o)
          ELSE IF o \in Issues(n)
               THEN Recognized(o[3], o[4], o[2], netting[n].statement.pairs[<<o[2], o[3], o[4]>>],
                               None, n)
               ELSE obligation[o]]
    /\ netting' = [netting EXCEPT ![n].state = "FINALIZED"]
    /\ UNCHANGED cycle

NettingCancel(n) ==
    /\ netting[n].state \in {"OPEN", "CALCULATED"}
    /\ netting' = [netting EXCEPT ![n].state = "CANCELLED"]
    /\ UNCHANGED <<cycle, obligation>>

-----------------------------------------------------------------------------

CycleStep(c) ==
    \/ CycleCreate(c) \/ CycleValidate(c) \/ CycleFinalize(c) \/ CycleCancel(c)
    \/ \E r \in Results : ObligationCreate(r, c)

ObligationStep(o) ==
    \/ ObligationValidate(o) \/ ObligationDispute(o) \/ ObligationMarkDue(o)
    \/ ObligationDefault(o) \/ ObligationResolve(o)
    \/ \E amount \in NewAmounts : ObligationAmend(o, amount) \/ ObligationRestructure(o, amount)

NettingStep(n) ==
    \/ \E mode \in NettingMode : NettingCreate(n, mode)
    \/ \E o \in ObligationIds : NettingAdd(n, o) \/ NettingRemove(n, o)
    \/ NettingCalculate(n) \/ NettingFinalize(n) \/ NettingCancel(n)

ClearingNext ==
    \/ \E c \in Cycles : CycleStep(c)
    \/ \E o \in ObligationIds : ObligationStep(o)
    \/ \E n \in Nettings : NettingStep(n)

ClearingSpec == ClearingInit /\ [][ClearingNext]_clearingVars

-----------------------------------------------------------------------------
(* Properties. *)

\* Live or finalized.
Standing(n) == netting[n].state \in {"OPEN", "CALCULATED", "FINALIZED"}

\* An obligation is discharged once.  It is resolved by a netting exactly when
\* it is a member of it and that netting is finalized; and it is never a member
\* of two nettings that are live or finalized, whatever was cancelled, removed,
\* added again or resolved by evidence meanwhile (engine.py 476-491, 1307-1421).
DischargedOnce ==
    /\ \A o \in ObligationIds, n \in Nettings :
          (netting[n].state = "FINALIZED" /\ o \in netting[n].members) <=>
          (obligation[o].state = "RESOLVED" /\ obligation[o].resolution = n)
    /\ \A m, n \in Nettings :
          m # n /\ Standing(m) /\ Standing(n) => netting[m].members \cap netting[n].members = {}

Open == {o \in ObligationIds : obligation[o].state \notin OBLIGATION_TERMINAL_STATES \cup {"NONE"}}

\* What p owes on balance in asset x: over its open obligations, and as the
\* positions that finalized multilateral nettings carry.
Exposure(x, p) ==
    Position(Open, x, p) +
    SumFunction([n \in {m \in Nettings : netting[m].state = "FINALIZED" /\ netting[m].mode = "MULTILATERAL"}
                    |-> netting[n].statement.positions[<<x, p>>]])

\* Netting conserves value: finalizing replaces the members by net obligations
\* or carried positions without changing what any participant owes on balance
\* in any asset, although members may be amended, disputed or resolved between
\* the calculation and the finalization (netting.py 702-867).
NettingConserves ==
    [][\A n \in Nettings :
          netting[n].state = "CALCULATED" /\ netting'[n].state = "FINALIZED" =>
              \A x \in Assets, p \in Participants : Exposure(x, p)' = Exposure(x, p)]_clearingVars

\* What was cleared stays cleared: an obligation recognised in a cycle enters a
\* netting only after the cycle's finalization, so the members of a netting
\* that is not cancelled are of FINALIZED cycles or were issued by an earlier finalized netting, never by
\* the netting itself (engine.py 464-474, 1230-1263).
MembersCleared ==
    \A n \in Nettings : Standing(n) =>
        \A o \in netting[n].members :
            \/ /\ obligation[o].cycle # None
               /\ cycle[obligation[o].cycle].state = "FINALIZED"
               /\ o \in cycle[obligation[o].cycle].members
            \/ /\ obligation[o].issuer \in Nettings \ {n}
               /\ netting[obligation[o].issuer].state = "FINALIZED"
               /\ netting[obligation[o].issuer].members \cap netting[n].members = {}

=============================================================================
