---------------------------- MODULE ClearingProofs ----------------------------
(***************************************************************************)
(* Obligations are discharged once and netted only when cleared, and       *)
(* netting leaves every exposure as it was, for every set of participants, *)
(* results, cycles and nettings and any number of amendments.  The first   *)
(* two do not need to know what a statement computes: ClearInv consists of *)
(* the shapes of the records, of where an obligation comes from            *)
(* (OriginKnown) and of the two properties.  The third is about what the   *)
(* statement adds up (module Sums); it needs that obligations are for      *)
(* positive amounts (AmountInv) and nettings of a known mode (ModeInv).    *)
(***************************************************************************)
EXTENDS Clearing, Sums, TLAPS

ObligationFields ==
    {"state", "version", "obligor", "obligee", "asset", "amount", "cycle", "issuer", "disputed",
     "due", "resolution"}

\* The records have their fields and a known state; the members of a netting
\* exist.
ObligationShape(r) == DOMAIN r = ObligationFields /\ r.state \in ObligationState

NettingShape(r) ==
    /\ DOMAIN r = {"state", "mode", "members", "statement"}
    /\ r.state \in NettingState
    /\ r.members \subseteq ObligationIds

CycleShape(r) == DOMAIN r = {"state", "members"} /\ r.state \in CycleState

MembersExist ==
    \A n \in Nettings : netting[n] # Absent =>
        \A o \in netting[n].members : obligation[o] # Absent

Shapes ==
    /\ obligation = [o \in ObligationIds |-> obligation[o]]
    /\ netting = [n \in Nettings |-> netting[n]]
    /\ cycle = [c \in Cycles |-> cycle[c]]
    /\ \A o \in ObligationIds : obligation[o] = Absent \/ ObligationShape(obligation[o])
    /\ \A n \in Nettings : netting[n] = Absent \/ NettingShape(netting[n])
    /\ \A c \in Cycles : cycle[c] = Absent \/ CycleShape(cycle[c])
    /\ MembersExist

\* An obligation was recognised in a cycle, which lists it, or issued by a
\* finalized netting.
OriginKnown ==
    \A o \in ObligationIds : obligation[o] # Absent =>
        \/ /\ obligation[o].cycle \in Cycles
           /\ cycle[obligation[o].cycle] # Absent
           /\ o \in cycle[obligation[o].cycle].members
        \/ /\ obligation[o].cycle = None
           /\ obligation[o].issuer \in Nettings
           /\ netting[obligation[o].issuer].state = "FINALIZED"

\* The members of a netting come from finalized cycles or other nettings.
MembersOrigin ==
    \A n \in Nettings : netting[n] # Absent =>
        \A o \in netting[n].members :
            \/ obligation[o].cycle # None /\ cycle[obligation[o].cycle].state = "FINALIZED"
            \/ obligation[o].cycle = None /\ obligation[o].issuer # n

ClearInv == Shapes /\ OriginKnown /\ MembersOrigin /\ DischargedOnce

USE DEF Absent, ObligationFields, Standing

\* An engine with no records satisfies the invariant.
LEMMA ClearInitInv == ClearingInit => ClearInv
<1> SUFFICES ASSUME ClearingInit PROVE ClearInv
  OBVIOUS
<1>1. Shapes /\ OriginKnown /\ MembersOrigin
  BY DEF ClearingInit, Shapes, MembersExist, OriginKnown, MembersOrigin
<1>2. DischargedOnce
  BY DEF ClearingInit, DischargedOnce
<1> QED BY <1>1, <1>2 DEF ClearInv

\* What a command does to one obligation that is not resolved preserves the
\* invariant as long as it does not claim a netting as its resolution.
LEMMA ObligationChangeInv ==
    ASSUME ClearInv, NEW o \in ObligationIds, NEW r,
           obligation[o] # Absent, obligation[o].state # "RESOLVED",
           ObligationShape(r), r.cycle = obligation[o].cycle, r.issuer = obligation[o].issuer,
           r.state = "RESOLVED" => r.resolution \notin Nettings,
           obligation' = [obligation EXCEPT ![o] = r], UNCHANGED <<cycle, netting>>
    PROVE  ClearInv'
<1> USE DEF ClearInv
<1>0. /\ r # Absent
      /\ \A p \in ObligationIds : obligation'[p] = IF p = o THEN r ELSE obligation[p]
      /\ obligation' = [p \in ObligationIds |-> obligation'[p]]
  BY DEF Shapes, ObligationShape, ObligationState, OBLIGATION_VALIDATED_STATES,
         OBLIGATION_TERMINAL_STATES
<1>1. Shapes'
  BY <1>0 DEF Shapes, MembersExist
<1>2. OriginKnown'
  BY <1>0 DEF OriginKnown
<1>3. MembersOrigin'
  BY <1>0 DEF MembersOrigin, Shapes, MembersExist
<1>4. DischargedOnce'
  BY <1>0 DEF DischargedOnce
<1> QED BY <1>1, <1>2, <1>3, <1>4

\* Every command on an obligation preserves the invariant.
LEMMA ObligationStepInv ==
    ASSUME ClearInv, NEW o \in ObligationIds, ObligationStep(o)
    PROVE  ClearInv'
<1> USE DEF ClearInv, ObligationState, OBLIGATION_VALIDATED_STATES, OBLIGATION_TERMINAL_STATES
<1>0. obligation[o].state # "NONE" => ObligationShape(obligation[o]) /\ obligation[o] # Absent
  BY DEF Shapes
<1>1. ASSUME NEW from \in SUBSET {"RECOGNIZED", "VALIDATED", "AMENDED", "RESTRUCTURED", "DUE", "DISPUTED"},
             NEW r, AdvanceObligation(o, from, r), ObligationShape(r),
             r.cycle = obligation[o].cycle, r.issuer = obligation[o].issuer,
             r.state = "RESOLVED" => r.resolution \notin Nettings
      PROVE  ClearInv'
  <2>1. obligation[o].state \in from /\ obligation[o] # Absent /\ obligation[o].state # "RESOLVED"
    BY <1>1 DEF AdvanceObligation
  <2> DEFINE s == [r EXCEPT !.version = @ + 1]
  <2>3. /\ ObligationShape(s) /\ s.cycle = r.cycle /\ s.issuer = r.issuer
        /\ s.state = r.state /\ s.resolution = r.resolution
    BY <1>1 DEF ObligationShape
  <2>4. obligation' = [obligation EXCEPT ![o] = s] /\ UNCHANGED <<cycle, netting>>
    BY <1>1 DEF AdvanceObligation
  <2> HIDE DEF s
  <2> QED BY <1>1, <2>1, <2>3, <2>4, ObligationChangeInv
<1>2. CASE ObligationValidate(o)
  <2> DEFINE r == [obligation[o] EXCEPT !.state = "VALIDATED"]
  <2>1. AdvanceObligation(o, {"RECOGNIZED"}, r)
    BY <1>2 DEF ObligationValidate
  <2>2. ObligationShape(obligation[o])
    BY <1>0, <2>1 DEF AdvanceObligation
  <2>3. /\ ObligationShape(r) /\ r.cycle = obligation[o].cycle /\ r.issuer = obligation[o].issuer
        /\ r.state = "RESOLVED" => r.resolution \notin Nettings
    BY <2>2 DEF ObligationShape
  <2> HIDE DEF r
  <2> QED BY <1>1, <2>1, <2>3
<1>3. ASSUME NEW n \in NewAmounts, ObligationAmend(o, n) PROVE ClearInv'
  <2> DEFINE r == [obligation[o] EXCEPT !.state = "AMENDED", !.amount = n]
  <2>1. AdvanceObligation(o, {"VALIDATED", "AMENDED", "RESTRUCTURED"}, r)
    BY <1>3 DEF ObligationAmend
  <2>2. ObligationShape(obligation[o])
    BY <1>0, <2>1 DEF AdvanceObligation
  <2>3. /\ ObligationShape(r) /\ r.cycle = obligation[o].cycle /\ r.issuer = obligation[o].issuer
        /\ r.state = "RESOLVED" => r.resolution \notin Nettings
    BY <2>2 DEF ObligationShape
  <2> HIDE DEF r
  <2> QED BY <1>1, <2>1, <2>3
<1>4. CASE ObligationDispute(o)
  <2> DEFINE r == [obligation[o] EXCEPT !.state = "DISPUTED", !.disputed = TRUE]
  <2>1. AdvanceObligation(o, OBLIGATION_VALIDATED_STATES, r)
    BY <1>4 DEF ObligationDispute
  <2>2. ObligationShape(obligation[o])
    BY <1>0, <2>1 DEF AdvanceObligation
  <2>3. /\ ObligationShape(r) /\ r.cycle = obligation[o].cycle /\ r.issuer = obligation[o].issuer
        /\ r.state = "RESOLVED" => r.resolution \notin Nettings
    BY <2>2 DEF ObligationShape
  <2> HIDE DEF r
  <2> QED BY <1>1, <2>1, <2>3
<1>5. ASSUME NEW n \in NewAmounts, ObligationRestructure(o, n) PROVE ClearInv'
  <2> DEFINE r == [obligation[o] EXCEPT !.state = "RESTRUCTURED", !.amount = n, !.due = FALSE]
  <2>1. AdvanceObligation(o, {"DISPUTED"}, r)
    BY <1>5 DEF ObligationRestructure
  <2>2. ObligationShape(obligation[o])
    BY <1>0, <2>1 DEF AdvanceObligation
  <2>3. /\ ObligationShape(r) /\ r.cycle = obligation[o].cycle /\ r.issuer = obligation[o].issuer
        /\ r.state = "RESOLVED" => r.resolution \notin Nettings
    BY <2>2 DEF ObligationShape
  <2> HIDE DEF r
  <2> QED BY <1>1, <2>1, <2>3
<1>6. CASE ObligationMarkDue(o)
  <2> DEFINE r == [obligation[o] EXCEPT !.state = "DUE", !.due = TRUE]
  <2>1. AdvanceObligation(o, {"VALIDATED", "AMENDED", "RESTRUCTURED"}, r)
    BY <1>6 DEF ObligationMarkDue
  <2>2. ObligationShape(obligation[o])
    BY <1>0, <2>1 DEF AdvanceObligation
  <2>3. /\ ObligationShape(r) /\ r.cycle = obligation[o].cycle /\ r.issuer = obligation[o].issuer
        /\ r.state = "RESOLVED" => r.resolution \notin Nettings
    BY <2>2 DEF ObligationShape
  <2> HIDE DEF r
  <2> QED BY <1>1, <2>1, <2>3
<1>7. CASE ObligationDefault(o)
  <2> DEFINE r == [obligation[o] EXCEPT !.state = "DEFAULTED"]
  <2>1. AdvanceObligation(o, {"DUE"}, r)
    BY <1>7 DEF ObligationDefault
  <2>2. ObligationShape(obligation[o])
    BY <1>0, <2>1 DEF AdvanceObligation
  <2>3. /\ ObligationShape(r) /\ r.cycle = obligation[o].cycle /\ r.issuer = obligation[o].issuer
        /\ r.state = "RESOLVED" => r.resolution \notin Nettings
    BY <2>2 DEF ObligationShape
  <2> HIDE DEF r
  <2> QED BY <1>1, <2>1, <2>3
<1>8. CASE ObligationResolve(o)
  <2> DEFINE r == [obligation[o] EXCEPT !.state = "RESOLVED", !.resolution = "EVIDENCE"]
  <2>1. AdvanceObligation(o, {"DUE"}, r)
    BY <1>8 DEF ObligationResolve
  <2>2. ObligationShape(obligation[o])
    BY <1>0, <2>1 DEF AdvanceObligation
  <2>3. /\ ObligationShape(r) /\ r.cycle = obligation[o].cycle /\ r.issuer = obligation[o].issuer
        /\ r.state = "RESOLVED" => r.resolution \notin Nettings
    BY <2>2, NoneAssumption DEF ObligationShape
  <2> HIDE DEF r
  <2> QED BY <1>1, <2>1, <2>3
<1> QED BY <1>2, <1>3, <1>4, <1>5, <1>6, <1>7, <1>8 DEF ObligationStep

-----------------------------------------------------------------------------

\* Every command on a cycle, recognition included, preserves the invariant.
LEMMA CycleStepInv ==
    ASSUME ClearInv, NEW c \in Cycles, CycleStep(c)
    PROVE  ClearInv'
<1> USE DEF ClearInv
<1>1. ASSUME NEW r, CycleShape(r), cycle[c] # Absent => cycle[c].members \subseteq r.members,
             cycle[c].state # "FINALIZED", cycle' = [cycle EXCEPT ![c] = r],
             UNCHANGED <<obligation, netting>>
      PROVE  ClearInv'
  <2>0. /\ r # Absent
        /\ \A d \in Cycles : cycle'[d] = IF d = c THEN r ELSE cycle[d]
        /\ cycle' = [d \in Cycles |-> cycle'[d]]
    BY <1>1 DEF Shapes, CycleShape, CycleState
  <2>1. Shapes'
    BY <1>1, <2>0 DEF Shapes, MembersExist
  <2>2. OriginKnown'
    BY <1>1, <2>0 DEF OriginKnown
  <2>3. MembersOrigin'
    <3> SUFFICES ASSUME NEW n \in Nettings, netting[n] # Absent, NEW o \in netting[n].members,
                        obligation[o].cycle # None, cycle[obligation[o].cycle].state = "FINALIZED"
                 PROVE  cycle'[obligation[o].cycle].state = "FINALIZED"
      BY <1>1 DEF MembersOrigin
    <3>1. o \in ObligationIds /\ obligation[o] # Absent
      BY DEF Shapes, MembersExist, NettingShape
    <3>2. obligation[o].cycle \in Cycles
      BY <3>1 DEF OriginKnown
    <3> QED BY <1>1, <2>0, <3>2
  <2>4. DischargedOnce'
    BY <1>1 DEF DischargedOnce
  <2> QED BY <2>1, <2>2, <2>3, <2>4
<1>2. CASE CycleCreate(c)
  <2> DEFINE r == [state |-> "OPEN", members |-> {}]
  <2>1. CycleShape(r)
    BY DEF CycleShape, CycleState
  <2>2. /\ cycle' = [cycle EXCEPT ![c] = r] /\ UNCHANGED <<obligation, netting>>
        /\ cycle[c] = Absent /\ cycle[c].state # "FINALIZED"
    BY <1>2 DEF CycleCreate
  <2> HIDE DEF r
  <2> QED BY <1>1, <2>1, <2>2
<1>3. ASSUME NEW from \in SUBSET {"OPEN", "VALIDATED"}, NEW to \in CycleState,
             AdvanceCycle(c, from, to)
      PROVE  ClearInv'
  <2>1. cycle[c] # Absent /\ CycleShape(cycle[c])
    BY <1>3 DEF AdvanceCycle, Shapes
  <2> DEFINE r == [cycle[c] EXCEPT !.state = to]
  <2>2. CycleShape(r) /\ r.members = cycle[c].members
    BY <2>1 DEF CycleShape
  <2>3. cycle' = [cycle EXCEPT ![c] = r]
    BY <1>3 DEF AdvanceCycle
  <2> HIDE DEF r
  <2> QED BY <1>1, <1>3, <2>2, <2>3 DEF AdvanceCycle
<1>4. CASE CycleValidate(c) \/ CycleFinalize(c) \/ CycleCancel(c)
  BY <1>3, <1>4 DEF CycleValidate, CycleFinalize, CycleCancel, CycleState
<1>5. ASSUME NEW q \in Results, ObligationCreate(q, c) PROVE ClearInv'
  <2> DEFINE r == Recognized(Leg[q].payer, Leg[q].payee, Leg[q].asset, Leg[q].amount, c, None)
  <2>1. q \in ObligationIds
    BY DEF ObligationIds
  <2>2. /\ ObligationShape(r) /\ r # Absent /\ r.cycle = c /\ r.state = "RECOGNIZED"
    BY DEF Recognized, ObligationShape, ObligationState
  <2>3. obligation' = [obligation EXCEPT ![q] = r] /\ obligation[q] = Absent /\ UNCHANGED netting
    BY <1>5 DEF ObligationCreate
  <2> HIDE DEF r
  <2>4. CycleShape(cycle[c]) /\ cycle[c] # Absent
    BY <1>5 DEF ObligationCreate, Shapes
  <2>5. /\ \A d \in Cycles : d # c => cycle'[d] = cycle[d]
        /\ cycle'[c] = [cycle[c] EXCEPT !.members = @ \cup {q}]
        /\ cycle' = [d \in Cycles |-> cycle'[d]]
    BY <1>5 DEF ObligationCreate, Shapes
  <2>6. /\ CycleShape(cycle'[c]) /\ cycle'[c] # Absent
        /\ cycle'[c].members = cycle[c].members \cup {q} /\ cycle'[c].state = cycle[c].state
    BY <2>4, <2>5 DEF CycleShape, CycleState
  <2>7. /\ \A p \in ObligationIds : obligation'[p] = IF p = q THEN r ELSE obligation[p]
        /\ obligation' = [p \in ObligationIds |-> obligation'[p]]
    BY <2>1, <2>3 DEF Shapes
  <2>8. Shapes'
    <3>1. \A p \in ObligationIds : obligation'[p] = Absent \/ ObligationShape(obligation'[p])
      BY <2>2, <2>7 DEF Shapes
    <3>2. \A d \in Cycles : cycle'[d] = Absent \/ CycleShape(cycle'[d])
      BY <2>5, <2>6 DEF Shapes
    <3>3. MembersExist'
      BY <2>2, <2>3, <2>7 DEF Shapes, MembersExist, NettingShape
    <3> QED BY <2>3, <2>5, <2>7, <3>1, <3>2, <3>3 DEF Shapes
  <2>9. OriginKnown'
    <3> SUFFICES ASSUME NEW p \in ObligationIds, obligation'[p] # Absent
                 PROVE  \/ /\ obligation'[p].cycle \in Cycles
                           /\ cycle'[obligation'[p].cycle] # Absent
                           /\ p \in cycle'[obligation'[p].cycle].members
                        \/ /\ obligation'[p].cycle = None
                           /\ obligation'[p].issuer \in Nettings
                           /\ netting[obligation'[p].issuer].state = "FINALIZED"
      BY <2>3 DEF OriginKnown
    <3>1. CASE p = q
      BY <3>1, <2>2, <2>6, <2>7
    <3>2. CASE p # q
      <4>1. obligation'[p] = obligation[p]
        BY <3>2, <2>7
      <4>2. \A d \in Cycles : cycle[d] # Absent =>
                cycle'[d] # Absent /\ cycle[d].members \subseteq cycle'[d].members
        BY <2>5, <2>6
      <4> QED BY <4>1, <4>2 DEF OriginKnown
    <3> QED BY <3>1, <3>2
  <2>10. MembersOrigin'
    <3> SUFFICES ASSUME NEW n \in Nettings, netting[n] # Absent, NEW o \in netting[n].members
                 PROVE  \/ /\ obligation'[o].cycle # None
                           /\ cycle'[obligation'[o].cycle].state = "FINALIZED"
                        \/ obligation'[o].cycle = None /\ obligation'[o].issuer # n
      BY <2>3 DEF MembersOrigin
    <3>1. o \in ObligationIds /\ obligation[o] # Absent
      BY DEF Shapes, MembersExist, NettingShape
    <3>2. obligation'[o] = obligation[o]
      BY <2>3, <2>7, <3>1
    <3>3. obligation[o].cycle # None => obligation[o].cycle \in Cycles
      BY <3>1 DEF OriginKnown
    <3>4. \A d \in Cycles : cycle'[d].state = cycle[d].state
      BY <2>5, <2>6
    <3> QED BY <3>2, <3>3, <3>4 DEF MembersOrigin
  <2>11. DischargedOnce'
    BY <2>1, <2>2, <2>3, <2>7 DEF DischargedOnce
  <2> QED BY <2>8, <2>9, <2>10, <2>11
<1> QED BY <1>2, <1>4, <1>5 DEF CycleStep

-----------------------------------------------------------------------------

\* A command that changes only one netting, short of finalizing it, preserves
\* the invariant if every member it gains is a cleared obligation of no other
\* netting.
LEMMA NettingChangeInv ==
    ASSUME ClearInv, NEW n \in Nettings, NEW r,
           NettingShape(r), r.state # "FINALIZED", netting[n].state # "FINALIZED",
           \A o \in r.members :
               \/ netting[n] # Absent /\ netting[n].state # "CANCELLED" /\ o \in netting[n].members
               \/ /\ obligation[o].state \in OBLIGATION_VALIDATED_STATES
                  /\ obligation[o].issuer # n
                  /\ CycleCleared(o)
                  /\ NettingExclusive(o),
           netting' = [netting EXCEPT ![n] = r], UNCHANGED <<cycle, obligation>>
    PROVE  ClearInv'
<1> USE DEF ClearInv
<1>0. /\ r # Absent
      /\ \A m \in Nettings : netting'[m] = IF m = n THEN r ELSE netting[m]
      /\ netting' = [m \in Nettings |-> netting'[m]]
  BY DEF Shapes, NettingShape, NettingState
<1>1. Shapes'
  <2>1. \A o \in r.members : obligation[o] # Absent
    BY DEF Shapes, MembersExist, OBLIGATION_VALIDATED_STATES
  <2>2. MembersExist'
    BY <1>0, <2>1 DEF Shapes, MembersExist
  <2> QED BY <1>0, <2>2 DEF Shapes
<1>2. OriginKnown'
  BY <1>0 DEF OriginKnown
<1>3. MembersOrigin'
  BY <1>0 DEF MembersOrigin, CycleCleared
<1>4. \A m \in Nettings : m # n /\ netting[m].state \in {"OPEN", "CALCULATED", "FINALIZED"}
          /\ netting'[n].state \in {"OPEN", "CALCULATED", "FINALIZED"}
          => netting[m].members \cap r.members = {}
  <2> SUFFICES ASSUME NEW m \in Nettings, m # n,
                      netting[m].state \in {"OPEN", "CALCULATED", "FINALIZED"},
                      NEW o \in r.members, o \in netting[m].members
               PROVE  FALSE
    OBVIOUS
  <2>1. o \in ObligationIds
    BY DEF NettingShape
  <2>2. CASE netting[n] # Absent /\ netting[n].state # "CANCELLED" /\ o \in netting[n].members
    <3>1. netting[n].state \in {"OPEN", "CALCULATED", "FINALIZED"}
      BY <2>2 DEF Shapes, NettingShape, NettingState
    <3> QED BY <2>2, <3>1 DEF DischargedOnce
  <2>3. CASE obligation[o].state \in OBLIGATION_VALIDATED_STATES /\ NettingExclusive(o)
    <3>1. netting[m].state = "FINALIZED"
      BY <2>3 DEF NettingExclusive, LiveNettings
    <3>2. obligation[o].state = "RESOLVED"
      BY <3>1, <2>1 DEF DischargedOnce
    <3> QED BY <2>3, <3>2 DEF OBLIGATION_VALIDATED_STATES
  <2> QED BY <2>2, <2>3
<1>5. DischargedOnce'
  BY <1>0, <1>4 DEF DischargedOnce
<1> QED BY <1>1, <1>2, <1>3, <1>5

\* Finalizing a netting preserves the invariant.
LEMMA FinalizeInv ==
    ASSUME ClearInv, NEW n \in Nettings, NettingFinalize(n)
    PROVE  ClearInv'
<1> USE DEF ClearInv
<1> DEFINE M == netting[n].members
<1>1. /\ NettingShape(netting[n]) /\ netting[n] # Absent /\ netting[n].state = "CALCULATED"
  BY DEF NettingFinalize, Shapes
<1>2. /\ \A m \in Nettings : m # n => netting'[m] = netting[m]
      /\ netting'[n] = [netting[n] EXCEPT !.state = "FINALIZED"]
      /\ netting' = [m \in Nettings |-> netting'[m]]
  BY DEF NettingFinalize, Shapes
<1>3. /\ netting'[n].state = "FINALIZED" /\ netting'[n].members = M /\ netting'[n] # Absent
      /\ NettingShape(netting'[n])
  BY <1>1, <1>2 DEF NettingShape, NettingState
<1>4. UNCHANGED cycle
  BY DEF NettingFinalize
<1>5. \A o \in M : /\ o \in ObligationIds
                   /\ obligation[o].state \in OBLIGATION_VALIDATED_STATES
                   /\ ObligationShape(obligation[o])
  BY <1>1 DEF NettingFinalize, StatementCurrent, Nettable, NettingShape, Shapes, MembersExist
<1>6. \A o \in M : /\ ObligationShape(obligation'[o]) /\ obligation'[o] # Absent
                   /\ obligation'[o].state = "RESOLVED" /\ obligation'[o].resolution = n
                   /\ obligation'[o].cycle = obligation[o].cycle
                   /\ obligation'[o].issuer = obligation[o].issuer
  <2> SUFFICES ASSUME NEW o \in M
               PROVE  /\ ObligationShape(obligation'[o]) /\ obligation'[o] # Absent
                      /\ obligation'[o].state = "RESOLVED" /\ obligation'[o].resolution = n
                      /\ obligation'[o].cycle = obligation[o].cycle
                      /\ obligation'[o].issuer = obligation[o].issuer
    OBVIOUS
  <2>1. obligation'[o] = [obligation[o] EXCEPT !.state = "RESOLVED", !.version = @ + 1, !.resolution = n]
    BY <1>5 DEF NettingFinalize, NettedAway
  <2> QED BY <1>5, <2>1 DEF ObligationShape, ObligationState, OBLIGATION_TERMINAL_STATES
<1>7. \A o \in ObligationIds \ M :
          \/ obligation'[o] = obligation[o]
          \/ /\ obligation[o] = Absent /\ ObligationShape(obligation'[o])
             /\ obligation'[o] # Absent /\ obligation'[o].state = "RECOGNIZED"
             /\ obligation'[o].cycle = None /\ obligation'[o].issuer = n
  <2> SUFFICES ASSUME NEW o \in ObligationIds \ M, o \in Issues(n)
               PROVE  /\ obligation[o] = Absent /\ ObligationShape(obligation'[o])
                      /\ obligation'[o] # Absent /\ obligation'[o].state = "RECOGNIZED"
                      /\ obligation'[o].cycle = None /\ obligation'[o].issuer = n
    BY DEF NettingFinalize
  <2>1. obligation'[o] = Recognized(o[3], o[4], o[2],
                             netting[n].statement.pairs[<<o[2], o[3], o[4]>>], None, n)
    BY DEF NettingFinalize
  <2>2. obligation[o] = Absent
    BY DEF NettingFinalize
  <2> QED BY <2>1, <2>2 DEF Recognized, ObligationShape, ObligationState
<1>8. obligation' = [o \in ObligationIds |-> obligation'[o]]
  BY DEF NettingFinalize
<1> HIDE DEF M
<1>9. \A m \in Nettings \ {n} : \A o \in M :
          netting[m].state = "FINALIZED" => o \notin netting[m].members
  BY <1>1 DEF DischargedOnce, M
<1>10. Shapes'
  <2>1. \A o \in ObligationIds : obligation'[o] = Absent \/ ObligationShape(obligation'[o])
    BY <1>6, <1>7 DEF Shapes
  <2>2. \A o \in ObligationIds : obligation[o] # Absent => obligation'[o] # Absent
    BY <1>6, <1>7
  <2>3. MembersExist'
    BY <1>1, <1>2, <1>3, <2>2 DEF MembersExist, Shapes, NettingShape, M
  <2>4. \A m \in Nettings : netting'[m] = Absent \/ NettingShape(netting'[m])
    BY <1>2, <1>3 DEF Shapes
  <2> QED BY <1>2, <1>4, <1>8, <2>1, <2>3, <2>4 DEF Shapes
<1>11. OriginKnown'
  <2> SUFFICES ASSUME NEW o \in ObligationIds, obligation'[o] # Absent
               PROVE  \/ /\ obligation'[o].cycle \in Cycles
                         /\ cycle[obligation'[o].cycle] # Absent
                         /\ o \in cycle[obligation'[o].cycle].members
                      \/ /\ obligation'[o].cycle = None
                         /\ obligation'[o].issuer \in Nettings
                         /\ netting'[obligation'[o].issuer].state = "FINALIZED"
    BY <1>4 DEF OriginKnown
  <2>1. CASE obligation[o] # Absent
    <3>1. obligation'[o].cycle = obligation[o].cycle /\ obligation'[o].issuer = obligation[o].issuer
      BY <2>1, <1>6, <1>7
    <3>2. \A m \in Nettings : netting[m].state = "FINALIZED" => netting'[m].state = "FINALIZED"
      BY <1>2, <1>3
    <3> QED BY <2>1, <3>1, <3>2 DEF OriginKnown
  <2>2. CASE obligation[o] = Absent
    <3>1. o \notin M
      BY <1>5, <2>2 DEF OBLIGATION_VALIDATED_STATES
    <3> QED BY <1>3, <1>7, <2>2, <3>1
  <2> QED BY <2>1, <2>2
<1>12. MembersOrigin'
  <2>1. \A o \in ObligationIds : obligation[o] # Absent =>
            obligation'[o].cycle = obligation[o].cycle /\ obligation'[o].issuer = obligation[o].issuer
    BY <1>6, <1>7
  <2>2. \A m \in Nettings : netting'[m].members = netting[m].members
    BY <1>2, <1>3 DEF M
  <2>3. \A m \in Nettings : netting[m] # Absent =>
            \A o \in netting[m].members : o \in ObligationIds /\ obligation[o] # Absent
    BY DEF Shapes, MembersExist, NettingShape
  <2>4. \A m \in Nettings : netting'[m] # Absent => netting[m] # Absent
    BY <1>1, <1>2
  <2> QED BY <1>4, <2>1, <2>2, <2>3, <2>4 DEF MembersOrigin
<1>13. DischargedOnce'
  <2>1. ASSUME NEW o \in ObligationIds, NEW m \in Nettings
        PROVE  (netting'[m].state = "FINALIZED" /\ o \in netting'[m].members) <=>
               (obligation'[o].state = "RESOLVED" /\ obligation'[o].resolution = m)
    <3>0. (netting[m].state = "FINALIZED" /\ o \in netting[m].members) <=>
          (obligation[o].state = "RESOLVED" /\ obligation[o].resolution = m)
      BY DEF DischargedOnce
    <3>1. CASE m = n /\ o \in M
      BY <3>1, <1>3, <1>6
    <3>2. CASE m = n /\ o \notin M
      BY <3>0, <3>2, <1>1, <1>3, <1>7
    <3>3. CASE m # n /\ o \in M
      BY <3>3, <1>2, <1>6, <1>9
    <3>4. CASE m # n /\ o \notin M
      BY <3>0, <3>4, <1>2, <1>7
    <3> QED BY <3>1, <3>2, <3>3, <3>4
  <2>2. \A l, m \in Nettings :
          l # m /\ Standing(l)' /\ Standing(m)' => netting'[l].members \cap netting'[m].members = {}
    <3>1. \A m \in Nettings : Standing(m)' => Standing(m) /\ netting'[m].members = netting[m].members
      BY <1>1, <1>2, <1>3 DEF M
    <3> HIDE DEF Standing
    <3> QED BY <3>1 DEF DischargedOnce
  <2> QED BY <2>1, <2>2 DEF DischargedOnce
<1> QED BY <1>10, <1>11, <1>12, <1>13

\* Every command on a netting preserves the invariant.
LEMMA NettingStepInv ==
    ASSUME ClearInv, NEW n \in Nettings, NettingStep(n)
    PROVE  ClearInv'
<1> USE DEF ClearInv
<1>1. ASSUME NEW r, DOMAIN r = DOMAIN netting[n], r.state \in {"OPEN", "CALCULATED", "CANCELLED"},
             netting[n].state \in {"OPEN", "CALCULATED"},
             \A o \in r.members : o \in netting[n].members \/
                 /\ o \in ObligationIds
                 /\ obligation[o].state \in OBLIGATION_VALIDATED_STATES
                 /\ obligation[o].issuer # n
                 /\ CycleCleared(o)
                 /\ NettingExclusive(o),
             netting' = [netting EXCEPT ![n] = r], UNCHANGED <<cycle, obligation>>
      PROVE  ClearInv'
  <2>1. netting[n] # Absent /\ NettingShape(netting[n]) /\ netting[n].state \notin {"CANCELLED", "FINALIZED"}
    BY <1>1 DEF Shapes
  <2>2. NettingShape(r)
    BY <1>1, <2>1 DEF NettingShape, NettingState
  <2> QED BY <1>1, <2>1, <2>2, NettingChangeInv
<1>0. netting[n].state \in {"OPEN", "CALCULATED"} =>
          DOMAIN netting[n] = {"state", "mode", "members", "statement"}
  BY DEF Shapes, NettingShape
<1>2. ASSUME NEW mode \in NettingMode, NettingCreate(n, mode) PROVE ClearInv'
  <2> DEFINE r == [state |-> "OPEN", mode |-> mode, members |-> {}, statement |-> NoStatement]
  <2>1. NettingShape(r) /\ r.state = "OPEN" /\ r.members = {}
    BY DEF NettingShape, NettingState
  <2>2. netting' = [netting EXCEPT ![n] = r] /\ netting[n].state # "FINALIZED" /\ UNCHANGED <<cycle, obligation>>
    BY <1>2 DEF NettingCreate
  <2> HIDE DEF r
  <2> QED BY <2>1, <2>2, NettingChangeInv
<1>3. ASSUME NEW o \in ObligationIds, NettingAdd(n, o) PROVE ClearInv'
  <2> DEFINE r == [netting[n] EXCEPT !.members = @ \cup {o}]
  <2>1. netting[n].state \in {"OPEN", "CALCULATED"} /\ UNCHANGED <<cycle, obligation>>
    BY <1>3 DEF NettingAdd
  <2>2. netting' = [netting EXCEPT ![n] = r]
    BY <1>3 DEF NettingAdd, Shapes
  <2>3. DOMAIN r = DOMAIN netting[n] /\ r.state \in {"OPEN", "CALCULATED", "CANCELLED"} /\ r.members = netting[n].members \cup {o}
    BY <1>0, <1>3, <2>1 DEF NettingAdd
  <2> HIDE DEF r
  <2> QED BY <1>1, <1>3, <2>1, <2>2, <2>3 DEF NettingAdd
<1>4. ASSUME NEW o \in ObligationIds, NettingRemove(n, o) PROVE ClearInv'
  <2> DEFINE r == [netting[n] EXCEPT !.members = @ \ {o}]
  <2>1. netting[n].state \in {"OPEN", "CALCULATED"} /\ UNCHANGED <<cycle, obligation>>
    BY <1>4 DEF NettingRemove
  <2>2. netting' = [netting EXCEPT ![n] = r]
    BY <1>4 DEF NettingRemove, Shapes
  <2>3. DOMAIN r = DOMAIN netting[n] /\ r.state \in {"OPEN", "CALCULATED", "CANCELLED"} /\ r.members = netting[n].members \ {o}
    BY <1>0, <1>4, <2>1 DEF NettingRemove
  <2> HIDE DEF r
  <2> QED BY <1>1, <1>4, <2>1, <2>2, <2>3 DEF NettingRemove
<1>5. CASE NettingCalculate(n)
  <2> DEFINE r == [netting[n] EXCEPT !.state = "CALCULATED", !.statement = Statement(netting[n].members, netting[n].mode)]
  <2>1. netting[n].state \in {"OPEN", "CALCULATED"} /\ UNCHANGED <<cycle, obligation>>
    BY <1>5 DEF NettingCalculate
  <2>2. netting' = [netting EXCEPT ![n] = r]
    BY <1>5 DEF NettingCalculate, Shapes
  <2>3. DOMAIN r = DOMAIN netting[n] /\ r.state \in {"OPEN", "CALCULATED", "CANCELLED"} /\ r.members = netting[n].members
    BY <1>0, <1>5, <2>1 DEF NettingCalculate
  <2> HIDE DEF r
  <2> QED BY <1>1, <1>5, <2>1, <2>2, <2>3 DEF NettingCalculate
<1>6. CASE NettingCancel(n)
  <2> DEFINE r == [netting[n] EXCEPT !.state = "CANCELLED"]
  <2>1. netting[n].state \in {"OPEN", "CALCULATED"} /\ UNCHANGED <<cycle, obligation>>
    BY <1>6 DEF NettingCancel
  <2>2. netting' = [netting EXCEPT ![n] = r]
    BY <1>6 DEF NettingCancel, Shapes
  <2>3. DOMAIN r = DOMAIN netting[n] /\ r.state \in {"OPEN", "CALCULATED", "CANCELLED"} /\ r.members = netting[n].members
    BY <1>0, <1>6, <2>1 DEF NettingCancel
  <2> HIDE DEF r
  <2> QED BY <1>1, <1>6, <2>1, <2>2, <2>3 DEF NettingCancel
<1> QED BY <1>2, <1>3, <1>4, <1>5, <1>6, FinalizeInv DEF NettingStep

-----------------------------------------------------------------------------

\* ClearInv is an invariant of the clearing domain.
THEOREM ClearingInvariant == ClearingSpec => []ClearInv
<1>1. ClearingInit => ClearInv
  BY ClearInitInv
<1>2. ClearInv /\ [ClearingNext]_clearingVars => ClearInv'
  <2> SUFFICES ASSUME ClearInv, [ClearingNext]_clearingVars PROVE ClearInv'
    OBVIOUS
  <2>1. CASE UNCHANGED clearingVars
    <3>1. Shapes' /\ OriginKnown'
      BY <2>1 DEF clearingVars, ClearInv, Shapes, MembersExist, OriginKnown
    <3>2. MembersOrigin' /\ DischargedOnce'
      BY <2>1 DEF clearingVars, ClearInv, MembersOrigin, DischargedOnce
    <3> QED BY <3>1, <3>2 DEF ClearInv
  <2> QED BY <2>1, CycleStepInv, ObligationStepInv, NettingStepInv DEF ClearingNext
<1> QED BY <1>1, <1>2, PTL DEF ClearingSpec

\* No obligation is discharged by two nettings, or by a netting and by evidence,
\* however many nettings run at once (engine.py 476-491, 1307-1421).
THEOREM ObligationsDischargedOnce == ClearingSpec => []DischargedOnce
<1>1. ClearInv => DischargedOnce
  BY DEF ClearInv
<1> QED BY <1>1, ClearingInvariant, PTL

\* Only cleared obligations are netted, and never those the netting itself or a
\* netting with a common member issued (engine.py 464-474, 1230-1263).
THEOREM OnlyClearedAreNetted == ClearingSpec => []MembersCleared
<1>1. ClearInv => MembersCleared
  <2> SUFFICES ASSUME ClearInv, NEW n \in Nettings,
                      Standing(n), NEW o \in netting[n].members
               PROVE  \/ /\ obligation[o].cycle # None
                         /\ cycle[obligation[o].cycle].state = "FINALIZED"
                         /\ o \in cycle[obligation[o].cycle].members
                      \/ /\ obligation[o].issuer \in Nettings \ {n}
                         /\ netting[obligation[o].issuer].state = "FINALIZED"
                         /\ netting[obligation[o].issuer].members \cap netting[n].members = {}
    BY DEF MembersCleared
  <2>1. netting[n] # Absent /\ o \in ObligationIds /\ obligation[o] # Absent
    BY DEF ClearInv, Shapes, MembersExist, NettingShape
  <2>2. CASE obligation[o].cycle # None
    BY <2>1, <2>2 DEF ClearInv, OriginKnown, MembersOrigin
  <2>3. CASE obligation[o].cycle = None
    <3>1. /\ obligation[o].issuer \in Nettings \ {n}
          /\ netting[obligation[o].issuer].state = "FINALIZED"
      BY <2>1, <2>3, NoneAssumption DEF ClearInv, OriginKnown, MembersOrigin
    <3> QED BY <3>1 DEF ClearInv, DischargedOnce
  <2> QED BY <2>2, <2>3
<1> QED BY <1>1, ClearingInvariant, PTL

-----------------------------------------------------------------------------
(* Netting conserves value. *)

\* What each obligation of M adds to the debt of p to q in asset x, with the
\* obligation records O, and that debt.
Weight(O, M, x, p, q) ==
    [o \in ObligationIds |->
        IF o \in M /\ O[o].asset = x /\ O[o].obligor = p /\ O[o].obligee = q THEN O[o].amount ELSE 0]

Debt(O, M, x, p, q) == SumFunctionOnSet(Weight(O, M, x, p, q), ObligationIds)

\* The net debt of p to each participant.
Flow(O, M, x, p) == [q \in Participants |-> Debt(O, M, x, p, q) - Debt(O, M, x, q, p)]

\* Gross adds up weights.
LEMMA GrossIsDebt ==
    ASSUME NEW O, NEW M \in SUBSET ObligationIds, \A o \in M : O[o].amount \in Int,
           NEW x, NEW p, NEW q
    PROVE  /\ SumFunction([o \in {m \in M : O[m].asset = x /\ O[m].obligor = p /\ O[m].obligee = q}
                              |-> O[o].amount]) = Debt(O, M, x, p, q)
           /\ Debt(O, M, x, p, q) \in Int
<1> DEFINE S == {m \in M : O[m].asset = x /\ O[m].obligor = p /\ O[m].obligee = q}
           f == [o \in S |-> O[o].amount]
           w == Weight(O, M, x, p, q)
<1>1. /\ DOMAIN f = S /\ \A o \in S : f[o] = w[o]
      /\ S \in SUBSET ObligationIds /\ \A o \in ObligationIds \ S : w[o] = 0
      /\ \A o \in ObligationIds : w[o] \in Int
  BY DEF Weight
<1> HIDE DEF S, f, w
<1>2. IsFiniteSet(ObligationIds) /\ IsFiniteSet(S)
  BY <1>1, FiniteAssumption, FS_Subset
<1>3. SumFunction(f) = SumFunctionOnSet(w, S)
  BY <1>1, <1>2, SumOfValues
<1>4. SumFunctionOnSet(w, ObligationIds) = SumFunctionOnSet(w, S)
  BY <1>1, <1>2, SumSupport
<1>5. SumFunctionOnSet(w, ObligationIds) \in Int
  BY <1>1, <1>2, SumType
<1> QED
  BY <1>3, <1>4, <1>5 DEF f, S, w, Debt

\* A participant's position adds up its net debts.
LEMMA PositionIsFlow ==
    ASSUME NEW M \in SUBSET ObligationIds, \A o \in M : obligation[o].amount \in Int, NEW x, NEW p
    PROVE  /\ Position(M, x, p) = SumFunctionOnSet(Flow(obligation, M, x, p), Participants)
           /\ \A q \in Participants : Flow(obligation, M, x, p)[q] \in Int
           /\ \A q \in Participants : PairNet(M, x, p, q) = Flow(obligation, M, x, p)[q]
<1> DEFINE f == [q \in Participants |-> Gross(M, x, p, q) - Gross(M, x, q, p)]
           g == Flow(obligation, M, x, p)
<1>1. \A q \in Participants : /\ Gross(M, x, p, q) = Debt(obligation, M, x, p, q)
                              /\ Gross(M, x, q, p) = Debt(obligation, M, x, q, p)
                              /\ Debt(obligation, M, x, p, q) \in Int
                              /\ Debt(obligation, M, x, q, p) \in Int
  BY GrossIsDebt DEF Gross
<1>2. DOMAIN f = Participants /\ \A q \in Participants : f[q] = g[q] /\ g[q] \in Int
  BY <1>1 DEF Flow
<1>3. \A q \in Participants : PairNet(M, x, p, q) = g[q]
  BY <1>1 DEF Flow, PairNet
<1> HIDE DEF f, g
<1>4. SumFunction(f) = SumFunctionOnSet(g, Participants)
  BY <1>2, FiniteAssumption, SumOfValues
<1> QED
  BY <1>2, <1>3, <1>4 DEF f, g, Position

\* Debts of two disjoint sets of obligations add up, and so do positions.
LEMMA DebtSplits ==
    ASSUME NEW O, NEW M \in SUBSET ObligationIds, NEW N \in SUBSET ObligationIds, M \cap N = {},
           \A o \in M \cup N : O[o].amount \in Int, NEW x, NEW p, NEW q
    PROVE  /\ Debt(O, M \cup N, x, p, q) = Debt(O, M, x, p, q) + Debt(O, N, x, p, q)
           /\ Debt(O, M, x, p, q) \in Int /\ Debt(O, N, x, p, q) \in Int
<1> DEFINE u == Weight(O, M, x, p, q)
           v == Weight(O, N, x, p, q)
           w == Weight(O, M \cup N, x, p, q)
<1>1. \A o \in ObligationIds : u[o] \in Int /\ v[o] \in Int /\ w[o] = u[o] + v[o]
  BY DEF Weight
<1> HIDE DEF u, v, w
<1>2. SumFunctionOnSet(w, ObligationIds) = SumFunctionOnSet(u, ObligationIds) + SumFunctionOnSet(v, ObligationIds)
  BY <1>1, FiniteAssumption, SumAdd
<1>3. SumFunctionOnSet(u, ObligationIds) \in Int /\ SumFunctionOnSet(v, ObligationIds) \in Int
  BY <1>1, FiniteAssumption, SumType
<1> QED
  BY <1>2, <1>3 DEF u, v, w, Debt

\* Obligations are for positive amounts, and the positions that finalized
\* multilateral nettings carry are amounts.
Carries(r) == r.state = "FINALIZED" /\ r.mode = "MULTILATERAL"

AmountInv ==
    /\ \A o \in ObligationIds : obligation[o] # Absent => obligation[o].amount \in Nat \ {0}
    /\ \A m \in Nettings : Carries(netting[m]) =>
          \A x \in Assets, p \in Participants : netting[m].statement.positions[<<x, p>>] \in Int

\* The members of a netting that is about to be finalized are open, and what
\* its statement says of them is what holds now.
LEMMA StatementHolds ==
    ASSUME ClearInv, AmountInv, NEW n \in Nettings, netting[n].state = "CALCULATED", StatementCurrent(n)
    PROVE  /\ netting[n].members \in SUBSET Open
           /\ \A o \in netting[n].members : obligation[o].amount \in Int
           /\ netting[n].mode = "BILATERAL" =>
                 \A x \in Assets, p \in Participants, q \in Participants :
                    netting[n].statement.pairs[<<x, p, q>>] =
                       IF PairNet(netting[n].members, x, p, q) > 0
                       THEN PairNet(netting[n].members, x, p, q) ELSE 0
           /\ netting[n].mode = "MULTILATERAL" =>
                 \A x \in Assets, p \in Participants :
                    netting[n].statement.positions[<<x, p>>] = Position(netting[n].members, x, p)
<1> DEFINE M == netting[n].members
           s == netting[n].statement
<1>1. M \subseteq ObligationIds /\ \A o \in M : obligation[o].state \in OBLIGATION_VALIDATED_STATES
  BY DEF ClearInv, Shapes, NettingShape, StatementCurrent, Nettable
<1>2. M \in SUBSET Open
  BY <1>1 DEF Open, OBLIGATION_VALIDATED_STATES, OBLIGATION_TERMINAL_STATES
<1>3. \A o \in M : obligation[o].amount \in Int
  <2> TAKE o \in M
  <2>1. obligation[o] # Absent
    BY <1>1 DEF OBLIGATION_VALIDATED_STATES
  <2> QED
    BY <1>1, <2>1 DEF AmountInv
<1>4. s = Statement(M, netting[n].mode)
  BY DEF StatementCurrent
<1> HIDE DEF s, M
<1>5. ASSUME netting[n].mode = "BILATERAL", NEW x \in Assets, NEW p \in Participants, NEW q \in Participants
      PROVE  s.pairs[<<x, p, q>>] = IF PairNet(M, x, p, q) > 0 THEN PairNet(M, x, p, q) ELSE 0
  <2>1. s.pairs = [k \in Assets \X Participants \X Participants |->
                      IF PairNet(M, k[1], k[2], k[3]) > 0 THEN PairNet(M, k[1], k[2], k[3]) ELSE 0]
    BY <1>4, <1>5 DEF Statement
  <2> QED
    BY <2>1
<1>6. ASSUME netting[n].mode = "MULTILATERAL", NEW x \in Assets, NEW p \in Participants
      PROVE  s.positions[<<x, p>>] = Position(M, x, p)
  <2>1. s.positions = [k \in Assets \X Participants |-> Position(M, k[1], k[2])]
    BY <1>4, <1>6 DEF Statement
  <2> QED
    BY <2>1
<1> QED
  BY <1>2, <1>3, <1>5, <1>6 DEF s, M

\* The net of a pair is an amount.
LEMMA PairNetType ==
    ASSUME NEW M \in SUBSET ObligationIds, \A o \in M : obligation[o].amount \in Int, NEW x, NEW p,
           NEW q \in Participants
    PROVE  PairNet(M, x, p, q) \in Int
BY PositionIsFlow

\* So is a position.
LEMMA PositionType ==
    ASSUME NEW M \in SUBSET ObligationIds, \A o \in M : obligation[o].amount \in Int, NEW x, NEW p
    PROVE  Position(M, x, p) \in Int
<1> DEFINE g == Flow(obligation, M, x, p)
<1>1. Position(M, x, p) = SumFunctionOnSet(g, Participants) /\ \A q \in Participants : g[q] \in Int
  BY PositionIsFlow
<1> HIDE DEF g
<1> QED
  BY <1>1, FiniteAssumption, SumType

\* A new engine has no amounts.
LEMMA AmountInitInv == ClearingInit => AmountInv
BY DEF ClearingInit, AmountInv, Carries

\* Every command keeps the amounts.
LEMMA AmountStepInv ==
    ASSUME ClearInv, AmountInv, [ClearingNext]_clearingVars
    PROVE  AmountInv'
<1> DEFINE Carried(N) == \A m \in Nettings : Carries(N[m]) =>
               \A x \in Assets, p \in Participants : N[m].statement.positions[<<x, p>>] \in Int
           Positive(O) == \A o \in ObligationIds : O[o] # Absent => O[o].amount \in Nat \ {0}
<1>0. Carried(netting) /\ Positive(obligation) /\ (Carried(netting') /\ Positive(obligation') => AmountInv')
  BY DEF AmountInv
<1>1. ASSUME NEW c \in Cycles, CycleStep(c) PROVE AmountInv'
  <2>1. CASE UNCHANGED <<obligation, netting>>
    BY <1>0, <2>1
  <2>2. ASSUME NEW r \in Results, ObligationCreate(r, c) PROVE AmountInv'
    <3>1. UNCHANGED netting
      BY <2>2 DEF ObligationCreate
    <3>2. \A o \in ObligationIds : o # r => obligation'[o] = obligation[o]
      BY <2>2 DEF ObligationCreate, ClearInv, Shapes
    <3>3. r \in ObligationIds => obligation'[r].amount = Leg[r].amount
      BY <2>2 DEF ObligationCreate, ClearInv, Shapes, Recognized
    <3>4. Leg[r].amount \in Nat \ {0}
      BY LegAssumption
    <3>5. Positive(obligation')
      BY <1>0, <3>2, <3>3, <3>4
    <3> QED
      BY <1>0, <3>1, <3>5
  <2> QED
    BY <1>1, <2>1, <2>2 DEF CycleStep, CycleCreate, CycleValidate, CycleFinalize, CycleCancel, AdvanceCycle
<1>2. ASSUME NEW o \in ObligationIds, ObligationStep(o) PROVE AmountInv'
  <2>1. ASSUME NEW from, "NONE" \notin from, NEW r, AdvanceObligation(o, from, r),
               DOMAIN r = DOMAIN obligation[o],
               r.amount \in NewAmounts \cup {obligation[o].amount}
        PROVE  AmountInv'
    <3>1. UNCHANGED netting /\ obligation[o] # Absent
      BY <2>1 DEF AdvanceObligation
    <3>2. "amount" \in DOMAIN obligation[o]
      BY <3>1 DEF ClearInv, Shapes, ObligationShape
    <3>3. /\ \A k \in ObligationIds : k # o => obligation'[k] = obligation[k]
          /\ obligation'[o] = [r EXCEPT !.version = @ + 1]
      BY <2>1 DEF AdvanceObligation, ClearInv, Shapes
    <3>4. obligation'[o].amount = r.amount
      BY <2>1, <3>2, <3>3
    <3>5. r.amount \in Nat \ {0}
      BY <1>0, <2>1, <3>1, NewAmountsAssumption
    <3>6. Positive(obligation')
      BY <1>0, <3>3, <3>4, <3>5
    <3> QED
      BY <1>0, <3>1, <3>6
  <2> HIDE DEF Carried, Positive
  <2> USE DEF OBLIGATION_VALIDATED_STATES, AdvanceObligation
  <2>2. obligation[o].state # "NONE"
    BY <1>2 DEF ObligationStep, ObligationValidate, ObligationDispute, ObligationMarkDue, ObligationDefault,
                ObligationResolve, ObligationAmend, ObligationRestructure
  <2>3. DOMAIN obligation[o] = ObligationFields
    BY <2>2 DEF ClearInv, Shapes, ObligationShape
  <2> HIDE DEF AdvanceObligation
  <2>4. CASE ObligationValidate(o)
    BY <2>1, <2>3, <2>4 DEF ObligationValidate
  <2>5. CASE ObligationDispute(o)
    <3> DEFINE r == [obligation[o] EXCEPT !.state = "DISPUTED", !.disputed = TRUE]
    <3>1. AdvanceObligation(o, OBLIGATION_VALIDATED_STATES, r) /\ "NONE" \notin OBLIGATION_VALIDATED_STATES
      BY <2>5 DEF ObligationDispute
    <3>2. DOMAIN r = DOMAIN obligation[o] /\ r.amount \in NewAmounts \cup {obligation[o].amount}
      BY <2>3
    <3> HIDE DEF r
    <3> QED
      BY <2>1, <3>1, <3>2
  <2>6. CASE ObligationMarkDue(o)
    <3> DEFINE r == [obligation[o] EXCEPT !.state = "DUE", !.due = TRUE]
    <3>1. AdvanceObligation(o, {"VALIDATED", "AMENDED", "RESTRUCTURED"}, r) /\ "NONE" \notin {"VALIDATED", "AMENDED", "RESTRUCTURED"}
      BY <2>6 DEF ObligationMarkDue
    <3>2. DOMAIN r = DOMAIN obligation[o] /\ r.amount \in NewAmounts \cup {obligation[o].amount}
      BY <2>3
    <3> HIDE DEF r
    <3> QED
      BY <2>1, <3>1, <3>2
  <2>7. CASE ObligationDefault(o)
    BY <2>1, <2>3, <2>7 DEF ObligationDefault
  <2>8. CASE ObligationResolve(o)
    BY <2>1, <2>3, <2>8 DEF ObligationResolve
  <2>9. ASSUME NEW amount \in NewAmounts, ObligationAmend(o, amount) PROVE AmountInv'
    <3> DEFINE r == [obligation[o] EXCEPT !.state = "AMENDED", !.amount = amount]
    <3>1. AdvanceObligation(o, {"VALIDATED", "AMENDED", "RESTRUCTURED"}, r) /\ "NONE" \notin {"VALIDATED", "AMENDED", "RESTRUCTURED"}
      BY <2>9 DEF ObligationAmend
    <3>2. DOMAIN r = DOMAIN obligation[o] /\ r.amount \in NewAmounts \cup {obligation[o].amount}
      BY <2>3
    <3> HIDE DEF r
    <3> QED
      BY <2>1, <3>1, <3>2
  <2>10. ASSUME NEW amount \in NewAmounts, ObligationRestructure(o, amount) PROVE AmountInv'
    BY <2>1, <2>3, <2>10 DEF ObligationRestructure
  <2> QED
    BY <1>2, <2>4, <2>5, <2>6, <2>7, <2>8, <2>9, <2>10 DEF ObligationStep
<1>3. ASSUME NEW n \in Nettings, NettingStep(n), ~NettingFinalize(n) PROVE AmountInv'
  <2>1. /\ UNCHANGED obligation
        /\ \A m \in Nettings : m # n => netting'[m] = netting[m]
        /\ netting'[n].state # "FINALIZED"
    <3> USE DEF ClearInv, Shapes, NettingShape
    <3>1. CASE \E mode \in NettingMode : NettingCreate(n, mode)
      BY <3>1 DEF NettingCreate
    <3>2. CASE \E o \in ObligationIds : NettingAdd(n, o) \/ NettingRemove(n, o)
      BY <3>2 DEF NettingAdd, NettingRemove
    <3>3. CASE NettingCalculate(n)
      BY <3>3 DEF NettingCalculate
    <3>4. CASE NettingCancel(n)
      BY <3>4 DEF NettingCancel
    <3> QED
      BY <1>3, <3>1, <3>2, <3>3, <3>4 DEF NettingStep
  <2>2. Carried(netting')
    BY <1>0, <2>1 DEF Carries
  <2> QED
    BY <1>0, <2>1, <2>2
<1>4. ASSUME NEW n \in Nettings, NettingFinalize(n) PROVE AmountInv'
  <2> DEFINE M == netting[n].members
  <2>1. /\ netting[n].state = "CALCULATED" /\ StatementCurrent(n)
        /\ \A m \in Nettings : m # n => netting'[m] = netting[m]
        /\ NettingShape(netting[n])
        /\ netting'[n].mode = netting[n].mode /\ netting'[n].statement = netting[n].statement
    BY <1>4 DEF NettingFinalize, ClearInv, Shapes, NettingShape
  <2>2. /\ M \in SUBSET ObligationIds /\ \A o \in M : obligation[o].amount \in Int
        /\ netting[n].mode = "MULTILATERAL" =>
              \A x \in Assets, p \in Participants : netting[n].statement.positions[<<x, p>>] = Position(M, x, p)
    BY <2>1, StatementHolds DEF Open
  <2>3. Carried(netting')
    <3>1. \A x \in Assets, p \in Participants : Position(M, x, p) \in Int
      BY <2>2, PositionType
    <3> HIDE DEF M
    <3>2. ASSUME NEW m \in Nettings, Carries(netting'[m]), NEW x \in Assets, NEW p \in Participants
          PROVE  netting'[m].statement.positions[<<x, p>>] \in Int
      <4>1. CASE m = n
        BY <2>1, <2>2, <3>1, <3>2, <4>1 DEF Carries
      <4>2. CASE m # n
        BY <1>0, <2>1, <3>2, <4>2
      <4> QED
        BY <4>1, <4>2
    <3> QED
      BY <3>2
  <2>4. Positive(obligation')
    <3> SUFFICES ASSUME NEW o \in ObligationIds, obligation'[o] # Absent
                 PROVE  obligation'[o].amount \in Nat \ {0}
      OBVIOUS
    <3>1. CASE o \in M
      <4>1. obligation'[o] = [obligation[o] EXCEPT !.state = "RESOLVED", !.version = @ + 1, !.resolution = n]
        BY <1>4, <3>1 DEF NettingFinalize, NettedAway
      <4>2. obligation[o] # Absent /\ DOMAIN obligation[o] = ObligationFields
        BY <2>1, <3>1 DEF ClearInv, Shapes, MembersExist, ObligationShape
      <4>3. obligation'[o].amount = obligation[o].amount
        BY <4>1, <4>2
      <4> QED
        BY <1>0, <4>2, <4>3
    <3>2. CASE o \notin M /\ o \in Issues(n)
      <4>1. obligation'[o] = Recognized(o[3], o[4], o[2],
                                netting[n].statement.pairs[<<o[2], o[3], o[4]>>], None, n)
        BY <1>4, <3>2 DEF NettingFinalize
      <4>2. /\ o[2] \in Assets /\ o[3] \in Participants /\ o[4] \in Participants
            /\ netting[n].mode = "BILATERAL" /\ netting[n].statement.pairs[<<o[2], o[3], o[4]>>] > 0
        BY <3>2 DEF Issues, Issued
      <4>3. netting[n].statement.pairs[<<o[2], o[3], o[4]>>] =
               IF PairNet(M, o[2], o[3], o[4]) > 0 THEN PairNet(M, o[2], o[3], o[4]) ELSE 0
        BY <2>1, <4>2, StatementHolds
      <4>4. PairNet(M, o[2], o[3], o[4]) \in Int
        <5>1. \A x \in Assets, p \in Participants, q \in Participants : PairNet(M, x, p, q) \in Int
          <6> HIDE DEF M
          <6> QED
            BY <2>2, PairNetType
        <5> QED
          BY <4>2, <5>1
      <4>5. obligation'[o].amount = netting[n].statement.pairs[<<o[2], o[3], o[4]>>]
        BY <4>1 DEF Recognized
      <4> QED
        BY <4>2, <4>3, <4>4, <4>5
    <3>3. CASE o \notin M /\ o \notin Issues(n)
      BY <1>0, <1>4, <3>3 DEF NettingFinalize
    <3> QED
      BY <3>1, <3>2, <3>3
  <2> QED
    BY <1>0, <2>3, <2>4
<1>5. CASE UNCHANGED clearingVars
  BY <1>0, <1>5 DEF clearingVars
<1> HIDE DEF Carried, Positive
<1> QED
  BY <1>1, <1>2, <1>3, <1>4, <1>5 DEF ClearingNext

-----------------------------------------------------------------------------

\* What finalizing netting n makes p owe q anew.
NewDebt(n, x, p, q) ==
    IF netting[n].mode = "BILATERAL" /\ PairNet(netting[n].members, x, p, q) > 0
    THEN PairNet(netting[n].members, x, p, q) ELSE 0

\* Finalizing closes the members and opens the issued obligations.
LEMMA FinalizeDebts ==
    ASSUME ClearInv, AmountInv, NEW n \in Nettings, NettingFinalize(n),
           NEW x \in Assets, NEW p \in Participants, NEW q \in Participants
    PROVE  /\ Debt(obligation', Open', x, p, q) =
                  Debt(obligation, Open \ netting[n].members, x, p, q) + NewDebt(n, x, p, q)
           /\ Debt(obligation, Open \ netting[n].members, x, p, q) \in Int
           /\ NewDebt(n, x, p, q) \in Int
<1> DEFINE M == netting[n].members
           id == <<n, x, p, q>>
           new == NewDebt(n, x, p, q)
           u == Weight(obligation, Open \ M, x, p, q)
           w == Weight(obligation', Open', x, p, q)
           d == [o \in ObligationIds |-> IF o = id THEN new ELSE 0]
<1>1. netting[n].state = "CALCULATED" /\ StatementCurrent(n)
  BY DEF NettingFinalize
<1>2. /\ M \in SUBSET Open /\ M \in SUBSET ObligationIds /\ \A o \in M : obligation[o].amount \in Int
      /\ netting[n].mode = "BILATERAL" =>
            netting[n].statement.pairs[<<x, p, q>>] = IF PairNet(M, x, p, q) > 0 THEN PairNet(M, x, p, q) ELSE 0
  BY <1>1, StatementHolds DEF Open
<1>3. new \in Int
  BY <1>2, PairNetType DEF NewDebt
<1>4. id \in ObligationIds
  BY DEF ObligationIds, Issued
<1>5. IF id \in Issues(n) THEN new = netting[n].statement.pairs[<<x, p, q>>] ELSE new = 0
  <2>1. id \in Issued /\ id[1] = n /\ id[2] = x /\ id[3] = p /\ id[4] = q
    BY DEF Issued
  <2>2. id \in Issues(n) <=> netting[n].mode = "BILATERAL" /\ netting[n].statement.pairs[<<x, p, q>>] > 0
    BY <2>1 DEF Issues
  <2> HIDE DEF id
  <2>3. PairNet(M, x, p, q) \in Int
    BY <1>2, PairNetType
  <2> QED
    BY <1>2, <2>2, <2>3 DEF NewDebt
<1>6. \A o \in Open : obligation[o].amount \in Int
  BY DEF AmountInv, Open
<1>7. ASSUME NEW o \in ObligationIds PROVE u[o] \in Int /\ d[o] \in Int /\ w[o] = u[o] + d[o]
  <2>0. u[o] \in Int /\ d[o] \in Int
    BY <1>3, <1>6 DEF Weight
  <2>1. CASE o \in M
    <3>1. obligation'[o] = [obligation[o] EXCEPT !.state = "RESOLVED", !.version = @ + 1, !.resolution = n]
      BY <2>1 DEF NettingFinalize, NettedAway
    <3>2. obligation[o] # Absent /\ DOMAIN obligation[o] = ObligationFields
      BY <1>1, <2>1 DEF ClearInv, Shapes, MembersExist, ObligationShape
    <3>3. obligation'[o].state = "RESOLVED"
      BY <3>1, <3>2
    <3>4. o \notin Open' /\ o \notin Open \ M
      BY <2>1, <3>3 DEF Open, OBLIGATION_TERMINAL_STATES
    <3>5. o \notin Issues(n)
      BY <3>2 DEF NettingFinalize
    <3>6. d[o] = 0
      BY <1>5, <3>5
    <3>7. u[o] = 0 /\ w[o] = 0
      BY <3>4 DEF Weight
    <3> QED
      BY <3>6, <3>7
  <2>2. CASE o \notin M /\ o \in Issues(n)
    <3>1. /\ obligation'[o] = Recognized(o[3], o[4], o[2],
                                 netting[n].statement.pairs[<<o[2], o[3], o[4]>>], None, n)
          /\ obligation[o] = Absent
      BY <2>2 DEF NettingFinalize
    <3>2. o \in Open' /\ o \notin Open
      BY <3>1 DEF Open, Recognized, OBLIGATION_TERMINAL_STATES
    <3>3. o = <<o[1], o[2], o[3], o[4]>> /\ o[1] = n
      BY <2>2 DEF Issues, Issued
    <3>4. o = id <=> (o[2] = x /\ o[3] = p /\ o[4] = q)
      BY <3>3
    <3>5. u[o] = 0
      BY <3>2 DEF Weight
    <3>6. /\ obligation'[o].asset = o[2] /\ obligation'[o].obligor = o[3] /\ obligation'[o].obligee = o[4]
          /\ obligation'[o].amount = netting[n].statement.pairs[<<o[2], o[3], o[4]>>]
      BY <3>1 DEF Recognized
    <3> HIDE DEF id, new, u
    <3>7. CASE o = id
      <4>1. o[2] = x /\ o[3] = p /\ o[4] = q /\ new = netting[n].statement.pairs[<<x, p, q>>]
        BY <1>5, <2>2, <3>4, <3>7
      <4>2. w[o] = new
        BY <3>2, <3>6, <4>1 DEF Weight
      <4> QED
        BY <2>0, <3>5, <3>7, <4>2
    <3>8. CASE o # id
      <4>1. w[o] = 0
        BY <3>4, <3>6, <3>8 DEF Weight
      <4> QED
        BY <2>0, <3>5, <3>8, <4>1
    <3> QED
      BY <3>7, <3>8
  <2>3. CASE o \notin M /\ o \notin Issues(n)
    <3>1. obligation'[o] = obligation[o]
      BY <2>3 DEF NettingFinalize
    <3>2. o \in Open' <=> o \in Open \ M
      BY <2>3, <3>1 DEF Open
    <3>3. w[o] = u[o]
      BY <3>1, <3>2 DEF Weight
    <3>4. d[o] = 0
      BY <1>5, <2>3
    <3> QED
      BY <2>0, <3>3, <3>4
  <2> QED
    BY <2>1, <2>2, <2>3
<1>8. d[id] = new /\ \A o \in ObligationIds \ {id} : d[o] = 0
  BY <1>4
<1> HIDE DEF id, new, u, w, d
<1>9. SumFunctionOnSet(d, ObligationIds) = new
  BY <1>3, <1>4, <1>8, FiniteAssumption, SumSingle
<1>10. SumFunctionOnSet(w, ObligationIds) = SumFunctionOnSet(u, ObligationIds) + SumFunctionOnSet(d, ObligationIds)
  BY <1>7, FiniteAssumption, SumAdd
<1>11. SumFunctionOnSet(u, ObligationIds) \in Int
  BY <1>7, FiniteAssumption, SumType
<1> QED
  BY <1>3, <1>9, <1>10, <1>11 DEF u, w, new, Debt

\* A netting has one of the two modes.
ModeInv == \A n \in Nettings : netting[n] # Absent => netting[n].mode \in NettingMode

\* Modes are never changed.
LEMMA ModeStepInv ==
    ASSUME ClearInv, ModeInv, [ClearingNext]_clearingVars
    PROVE  ModeInv'
<1>1. CASE UNCHANGED netting
  BY <1>1 DEF ModeInv
<1>2. ASSUME NEW n \in Nettings, NettingStep(n) PROVE ModeInv'
  <2>1. /\ \A m \in Nettings : m # n => netting'[m] = netting[m]
        /\ netting'[n].mode \in NettingMode
    <3> USE DEF ClearInv, Shapes, NettingShape, ModeInv
    <3>1. CASE \E mode \in NettingMode : NettingCreate(n, mode)
      BY <3>1 DEF NettingCreate
    <3>2. CASE \E o \in ObligationIds : NettingAdd(n, o) \/ NettingRemove(n, o)
      BY <3>2 DEF NettingAdd, NettingRemove
    <3>3. CASE NettingCalculate(n)
      <4> DEFINE r == [netting[n] EXCEPT !.state = "CALCULATED",
                                         !.statement = Statement(netting[n].members, netting[n].mode)]
      <4>1. netting[n].state = "OPEN" /\ netting' = [netting EXCEPT ![n] = r]
        BY <3>3 DEF NettingCalculate
      <4>2. netting[n] # Absent /\ DOMAIN netting[n] = {"state", "mode", "members", "statement"}
        BY <4>1
      <4>3. r.mode = netting[n].mode
        BY <4>2
      <4> HIDE DEF r
      <4> QED
        BY <4>1, <4>2, <4>3
    <3>4. CASE NettingCancel(n)
      BY <3>4 DEF NettingCancel
    <3>5. CASE NettingFinalize(n)
      BY <3>5 DEF NettingFinalize
    <3> QED
      BY <1>2, <3>1, <3>2, <3>3, <3>4, <3>5 DEF NettingStep
  <2> QED
    BY <2>1 DEF ModeInv
<1>3. ASSUME NEW c \in Cycles, CycleStep(c) PROVE UNCHANGED netting
  BY <1>3 DEF CycleStep, CycleCreate, CycleValidate, CycleFinalize, CycleCancel, AdvanceCycle, ObligationCreate
<1>4. ASSUME NEW o \in ObligationIds, ObligationStep(o) PROVE UNCHANGED netting
  BY <1>4 DEF ObligationStep, ObligationValidate, ObligationDispute, ObligationMarkDue, ObligationDefault,
              ObligationResolve, ObligationAmend, ObligationRestructure, AdvanceObligation
<1> QED
  BY <1>1, <1>2, <1>3, <1>4 DEF ClearingNext, clearingVars

\* What netting m carries for p in asset x, with the netting records N.
Carry(N, x, p) == [m \in Nettings |-> IF Carries(N[m]) THEN N[m].statement.positions[<<x, p>>] ELSE 0]

\* Positions carried, added up.
LEMMA CarriedSum ==
    ASSUME NEW N, NEW x, NEW p, \A m \in Nettings : Carries(N[m]) => N[m].statement.positions[<<x, p>>] \in Int
    PROVE  /\ SumFunction([n \in {m \in Nettings : N[m].state = "FINALIZED" /\ N[m].mode = "MULTILATERAL"}
                              |-> N[n].statement.positions[<<x, p>>]])
                = SumFunctionOnSet(Carry(N, x, p), Nettings)
           /\ \A m \in Nettings : Carry(N, x, p)[m] \in Int
<1> DEFINE S == {m \in Nettings : N[m].state = "FINALIZED" /\ N[m].mode = "MULTILATERAL"}
           f == [n \in S |-> N[n].statement.positions[<<x, p>>]]
           c == Carry(N, x, p)
<1>1. /\ DOMAIN f = S /\ \A m \in S : f[m] = c[m]
      /\ S \in SUBSET Nettings /\ \A m \in Nettings \ S : c[m] = 0
      /\ \A m \in Nettings : c[m] \in Int
  BY DEF Carry, Carries
<1> HIDE DEF S, f, c
<1>2. IsFiniteSet(Nettings) /\ IsFiniteSet(S)
  BY <1>1, FiniteAssumption, FS_Subset
<1>3. SumFunction(f) = SumFunctionOnSet(c, S)
  BY <1>1, <1>2, SumOfValues
<1>4. SumFunctionOnSet(c, Nettings) = SumFunctionOnSet(c, S)
  BY <1>1, <1>2, SumSupport
<1> QED
  BY <1>1, <1>3, <1>4 DEF f, S, c

\* A position after the step is the sum of the flows after it.
LEMMA LaterPosition ==
    ASSUME NEW O, NEW M \in SUBSET ObligationIds, \A o \in M : O[o].amount \in Int, NEW x, NEW p,
           obligation' = O
    PROVE  /\ SumFunction([q \in Participants |-> Gross(M, x, p, q)' - Gross(M, x, q, p)']) =
                 SumFunctionOnSet(Flow(O, M, x, p), Participants)
           /\ \A q \in Participants : Flow(O, M, x, p)[q] \in Int
<1> DEFINE f == [q \in Participants |-> Gross(M, x, p, q)' - Gross(M, x, q, p)']
           g == Flow(O, M, x, p)
<1>1. \A q \in Participants : /\ Gross(M, x, p, q)' = Debt(O, M, x, p, q)
                              /\ Gross(M, x, q, p)' = Debt(O, M, x, q, p)
                              /\ Debt(O, M, x, p, q) \in Int
                              /\ Debt(O, M, x, q, p) \in Int
  BY GrossIsDebt DEF Gross
<1>2. DOMAIN f = Participants /\ \A q \in Participants : f[q] = g[q] /\ g[q] \in Int
  BY <1>1 DEF Flow
<1> HIDE DEF f, g
<1>3. SumFunction(f) = SumFunctionOnSet(g, Participants)
  BY <1>2, FiniteAssumption, SumOfValues
<1> QED
  BY <1>2, <1>3 DEF f, g

\* Finalizing changes the flows of a participant by nothing (bilateral), or
\* takes the members out of them (multilateral).
LEMMA FinalizeFlows ==
    ASSUME ClearInv, AmountInv, NEW n \in Nettings, NettingFinalize(n),
           NEW x \in Assets, NEW p \in Participants, NEW q \in Participants
    PROVE  /\ Flow(obligation, Open, x, p)[q] \in Int
           /\ Flow(obligation, netting[n].members, x, p)[q] \in Int
           /\ Flow(obligation', Open', x, p)[q] =
                 Flow(obligation, Open, x, p)[q] -
                    (IF netting[n].mode = "BILATERAL" THEN 0 ELSE Flow(obligation, netting[n].members, x, p)[q])
<1> DEFINE M == netting[n].members
           R == Open \ M
           B(a, b) == Debt(obligation, R, x, a, b)
           D(a, b) == Debt(obligation, M, x, a, b)
<1>1. M \in SUBSET Open /\ \A o \in M : obligation[o].amount \in Int
  BY StatementHolds DEF NettingFinalize
<1>2. /\ R \in SUBSET ObligationIds /\ M \in SUBSET ObligationIds /\ R \cap M = {} /\ R \cup M = Open
      /\ \A o \in R \cup M : obligation[o].amount \in Int
  BY <1>1 DEF AmountInv, Open
<1>3. ASSUME NEW a \in Participants, NEW b \in Participants
      PROVE  /\ Debt(obligation, Open, x, a, b) = B(a, b) + D(a, b)
             /\ B(a, b) \in Int /\ D(a, b) \in Int
             /\ Debt(obligation', Open', x, a, b) = B(a, b) + NewDebt(n, x, a, b)
             /\ PairNet(M, x, a, b) = D(a, b) - D(b, a)
  <2>1. Debt(obligation', Open', x, a, b) = B(a, b) + NewDebt(n, x, a, b)
    BY FinalizeDebts
  <2>2. PairNet(M, x, a, b) = Flow(obligation, M, x, a)[b]
    <3> HIDE DEF M
    <3> QED
      BY <1>1, <1>2, PositionIsFlow
  <2>3. Flow(obligation, M, x, a)[b] = D(a, b) - D(b, a)
    BY DEF Flow
  <2>4. /\ Debt(obligation, R \cup M, x, a, b) = B(a, b) + D(a, b)
        /\ B(a, b) \in Int /\ D(a, b) \in Int
    <3> HIDE DEF R, M
    <3> QED
      BY <1>2, DebtSplits
  <2> QED
    BY <1>2, <2>1, <2>2, <2>3, <2>4
<1>4. /\ Flow(obligation, Open, x, p)[q] = Debt(obligation, Open, x, p, q) - Debt(obligation, Open, x, q, p)
      /\ Flow(obligation, M, x, p)[q] = D(p, q) - D(q, p)
      /\ Flow(obligation', Open', x, p)[q] = Debt(obligation', Open', x, p, q) - Debt(obligation', Open', x, q, p)
  BY DEF Flow
<1>5. /\ NewDebt(n, x, p, q) = IF netting[n].mode = "BILATERAL" /\ PairNet(M, x, p, q) > 0
                               THEN PairNet(M, x, p, q) ELSE 0
      /\ NewDebt(n, x, q, p) = IF netting[n].mode = "BILATERAL" /\ PairNet(M, x, q, p) > 0
                               THEN PairNet(M, x, q, p) ELSE 0
  BY DEF NewDebt
<1>6. /\ B(p, q) \in Int /\ D(p, q) \in Int /\ PairNet(M, x, p, q) = D(p, q) - D(q, p)
      /\ B(q, p) \in Int /\ D(q, p) \in Int /\ PairNet(M, x, q, p) = D(q, p) - D(p, q)
      /\ Debt(obligation, Open, x, p, q) = B(p, q) + D(p, q)
      /\ Debt(obligation, Open, x, q, p) = B(q, p) + D(q, p)
      /\ Debt(obligation', Open', x, p, q) = B(p, q) + NewDebt(n, x, p, q)
      /\ Debt(obligation', Open', x, q, p) = B(q, p) + NewDebt(n, x, q, p)
  BY <1>3
<1> HIDE DEF M, B, D
<1>7. CASE netting[n].mode = "BILATERAL"
  <2>1. NewDebt(n, x, p, q) - NewDebt(n, x, q, p) = D(p, q) - D(q, p)
    BY <1>5, <1>6, <1>7
  <2>2. NewDebt(n, x, p, q) \in Int /\ NewDebt(n, x, q, p) \in Int
    BY <1>5, <1>6
  <2>3. Flow(obligation', Open', x, p)[q] = Flow(obligation, Open, x, p)[q] - 0
    BY <1>4, <1>6, <2>1, <2>2
  <2> QED
    BY <1>4, <1>6, <1>7, <2>3 DEF M
<1>8. CASE netting[n].mode # "BILATERAL"
  <2>1. NewDebt(n, x, p, q) = 0 /\ NewDebt(n, x, q, p) = 0
    BY <1>5, <1>8
  <2>2. Flow(obligation', Open', x, p)[q] = Flow(obligation, Open, x, p)[q] - Flow(obligation, M, x, p)[q]
    BY <1>4, <1>6, <2>1
  <2> QED
    BY <1>4, <1>6, <1>8, <2>2 DEF M
<1> QED
  BY <1>7, <1>8

\* Finalizing a netting changes nobody's exposure.
LEMMA FinalizeConserves ==
    ASSUME ClearInv, AmountInv, AmountInv', ModeInv, NEW n \in Nettings, NettingFinalize(n),
           NEW x \in Assets, NEW p \in Participants
    PROVE  Exposure(x, p)' = Exposure(x, p)
<1> DEFINE M == netting[n].members
           F == Flow(obligation, Open, x, p)
           G == Flow(obligation, M, x, p)
           H == Flow(obligation', Open', x, p)
           C == Carry(netting, x, p)
           E == Carry(netting', x, p)
           moved == IF netting[n].mode = "BILATERAL" THEN 0 ELSE Position(M, x, p)
<1>1. /\ netting[n].state = "CALCULATED" /\ StatementCurrent(n) /\ netting[n].mode \in NettingMode
      /\ NettingShape(netting[n])
      /\ \A m \in Nettings : m # n => netting'[m] = netting[m]
      /\ netting'[n] = [netting[n] EXCEPT !.state = "FINALIZED"]
  BY DEF NettingFinalize, ClearInv, Shapes, ModeInv
<1>2. /\ M \in SUBSET ObligationIds /\ \A o \in M : obligation[o].amount \in Int
      /\ netting[n].mode = "MULTILATERAL" => netting[n].statement.positions[<<x, p>>] = Position(M, x, p)
  BY <1>1, StatementHolds DEF Open
<1>3. /\ Open \in SUBSET ObligationIds /\ \A o \in Open : obligation[o].amount \in Int
      /\ Open' \in SUBSET ObligationIds /\ \A o \in Open' : obligation'[o].amount \in Int
  BY DEF AmountInv, Open
<1>4. /\ Position(Open, x, p) = SumFunctionOnSet(F, Participants)
      /\ Position(M, x, p) = SumFunctionOnSet(G, Participants)
  BY <1>2, <1>3, PositionIsFlow
<1>5. Position(Open, x, p)' = SumFunctionOnSet(H, Participants)
  <2>0. PICK N \in SUBSET ObligationIds : N = Open'
    BY <1>3
  <2>a. PICK O : O = obligation'
    OBVIOUS
  <2>1. N = Open' /\ O = obligation'
    BY <2>0, <2>a
  <2>2. SumFunction([q \in Participants |-> Gross(N, x, p, q)' - Gross(N, x, q, p)']) =
           SumFunctionOnSet(Flow(O, N, x, p), Participants)
    BY <1>3, <2>1, LaterPosition
  <2>3. Position(Open, x, p)' = SumFunction([q \in Participants |-> Gross(N, x, p, q)' - Gross(N, x, q, p)'])
    BY <2>1 DEF Position, Gross
  <2> QED
    BY <2>1, <2>2, <2>3
<1>6. \A q \in Participants : /\ F[q] \in Int /\ G[q] \in Int
                              /\ H[q] = F[q] - (IF netting[n].mode = "BILATERAL" THEN 0 ELSE G[q])
  BY FinalizeFlows
<1>7. /\ Exposure(x, p) = Position(Open, x, p) + SumFunctionOnSet(C, Nettings)
      /\ \A m \in Nettings : C[m] \in Int
  BY CarriedSum DEF Exposure, AmountInv
<1>8. /\ Exposure(x, p)' = Position(Open, x, p)' + SumFunctionOnSet(E, Nettings)
      /\ \A m \in Nettings : E[m] \in Int
  <2>1. \A m \in Nettings : Carries(netting'[m]) => netting'[m].statement.positions[<<x, p>>] \in Int
    BY DEF AmountInv, Carries
  <2>2. PICK N : N = netting'
    OBVIOUS
  <2>3. /\ SumFunction([k \in {m \in Nettings : N[m].state = "FINALIZED" /\ N[m].mode = "MULTILATERAL"}
                              |-> N[k].statement.positions[<<x, p>>]])
             = SumFunctionOnSet(Carry(N, x, p), Nettings)
        /\ \A m \in Nettings : Carry(N, x, p)[m] \in Int
    BY <2>1, <2>2, CarriedSum
  <2> QED
    BY <2>2, <2>3 DEF Exposure
<1>9. /\ \A m \in Nettings \ {n} : E[m] = C[m]
      /\ C[n] = 0 /\ E[n] = moved
  <2>1. \A m \in Nettings \ {n} : E[m] = C[m]
    BY <1>1 DEF Carry
  <2>2. C[n] = 0
    BY <1>1 DEF Carry, Carries
  <2>3. /\ netting'[n].state = "FINALIZED" /\ netting'[n].mode = netting[n].mode
        /\ netting'[n].statement = netting[n].statement
    BY <1>1 DEF NettingShape
  <2>4. E[n] = IF netting[n].mode = "MULTILATERAL" THEN netting[n].statement.positions[<<x, p>>] ELSE 0
    BY <2>3 DEF Carry, Carries
  <2> QED
    BY <1>1, <1>2, <2>1, <2>2, <2>4 DEF NettingMode
<1> HIDE DEF M, F, G, H, C, E
<1>10. SumFunctionOnSet(H, Participants) = SumFunctionOnSet(F, Participants) - moved
  <2>1. SumFunctionOnSet(F, Participants) \in Int /\ SumFunctionOnSet(G, Participants) \in Int
    BY <1>6, FiniteAssumption, SumType
  <2>2. CASE netting[n].mode = "BILATERAL"
    <3>1. \A q \in Participants : H[q] = F[q]
      BY <1>6, <2>2
    <3>2. SumFunctionOnSet(H, Participants) = SumFunctionOnSet(F, Participants)
      BY <3>1, FiniteAssumption, SumSame
    <3> QED
      BY <2>1, <2>2, <3>2
  <2>3. CASE netting[n].mode # "BILATERAL"
    <3>1. \A q \in Participants : H[q] \in Int /\ F[q] = H[q] + G[q]
      BY <1>6, <2>3
    <3>2. SumFunctionOnSet(F, Participants) = SumFunctionOnSet(H, Participants) + SumFunctionOnSet(G, Participants)
      BY <1>6, <3>1, FiniteAssumption, SumAdd
    <3>3. SumFunctionOnSet(H, Participants) \in Int
      BY <3>1, FiniteAssumption, SumType
    <3> QED
      BY <1>4, <2>1, <2>3, <3>2, <3>3
  <2> QED
    BY <2>2, <2>3
<1>11. SumFunctionOnSet(E, Nettings) = SumFunctionOnSet(C, Nettings) + moved
  <2>1. /\ SumFunctionOnSet(C, Nettings) = C[n] + SumFunctionOnSet(C, Nettings \ {n})
        /\ SumFunctionOnSet(E, Nettings) = E[n] + SumFunctionOnSet(E, Nettings \ {n})
    BY <1>7, <1>8, FiniteAssumption, SumRemove
  <2>2. IsFiniteSet(Nettings \ {n})
    BY FiniteAssumption, FS_Subset
  <2>3. SumFunctionOnSet(E, Nettings \ {n}) = SumFunctionOnSet(C, Nettings \ {n})
    BY <1>9, <2>2, SumSame
  <2>4. SumFunctionOnSet(C, Nettings \ {n}) \in Int
    BY <1>7, <2>2, SumType
  <2>5. E[n] \in Int
    BY <1>8
  <2> QED
    BY <1>9, <2>1, <2>3, <2>4, <2>5
<1>12. /\ SumFunctionOnSet(F, Participants) \in Int /\ SumFunctionOnSet(C, Nettings) \in Int
       /\ moved \in Int
  <2>1. SumFunctionOnSet(F, Participants) \in Int
    BY <1>6, FiniteAssumption, SumType
  <2>2. SumFunctionOnSet(C, Nettings) \in Int
    BY <1>7, FiniteAssumption, SumType
  <2> QED
    BY <1>8, <1>9, <2>1, <2>2
<1> HIDE DEF moved
<1> QED
  BY <1>4, <1>5, <1>7, <1>8, <1>10, <1>11, <1>12

\* Netting conserves value, whatever happened to the members between the
\* calculation and the finalization: only netting_finalize makes a netting
\* FINALIZED, and it leaves every exposure as it was.
THEOREM NettingKeepsExposure == ClearingSpec => NettingConserves
<1> DEFINE A == \A n \in Nettings :
                   netting[n].state = "CALCULATED" /\ netting'[n].state = "FINALIZED" =>
                      \A x \in Assets, p \in Participants : Exposure(x, p)' = Exposure(x, p)
<1>1. ClearingInit => AmountInv /\ ModeInv
  BY AmountInitInv DEF ClearingInit, ModeInv
<1>2. ClearInv /\ AmountInv /\ ModeInv /\ [ClearingNext]_clearingVars => AmountInv' /\ ModeInv'
  BY AmountStepInv, ModeStepInv
<1>3. ClearInv /\ AmountInv /\ ModeInv /\ [ClearingNext]_clearingVars => [A]_clearingVars
  <2> SUFFICES ASSUME ClearInv, AmountInv, ModeInv, ClearingNext, NEW n \in Nettings,
                      netting[n].state = "CALCULATED", netting'[n].state = "FINALIZED",
                      NEW x \in Assets, NEW p \in Participants
               PROVE  Exposure(x, p)' = Exposure(x, p)
    BY DEF clearingVars
  <2>1. NettingFinalize(n)
    <3>1. ASSUME NEW c \in Cycles, CycleStep(c) PROVE UNCHANGED netting
      BY <3>1 DEF CycleStep, CycleCreate, CycleValidate, CycleFinalize, CycleCancel, AdvanceCycle, ObligationCreate
    <3>2. ASSUME NEW o \in ObligationIds, ObligationStep(o) PROVE UNCHANGED netting
      BY <3>2 DEF ObligationStep, ObligationValidate, ObligationDispute, ObligationMarkDue, ObligationDefault,
                  ObligationResolve, ObligationAmend, ObligationRestructure, AdvanceObligation
    <3>3. PICK m \in Nettings : NettingStep(m)
      BY <3>1, <3>2 DEF ClearingNext
    <3>4. NettingFinalize(m) \/ \A k \in Nettings : k # m => netting'[k] = netting[k]
      BY <3>3 DEF NettingStep, NettingCreate, NettingAdd, NettingRemove, NettingCalculate, NettingCancel,
                  ClearInv, Shapes
    <3>5. NettingFinalize(m) => \A k \in Nettings : k # m => netting'[k] = netting[k]
      BY DEF NettingFinalize, ClearInv, Shapes
    <3>6. m = n
      BY <3>4, <3>5
    <3>7. ASSUME ~NettingFinalize(n) PROVE FALSE
      <4>1. CASE NettingCalculate(n)
        BY <4>1 DEF NettingCalculate
      <4>2. CASE NettingCancel(n)
        BY <4>2 DEF NettingCancel, ClearInv, Shapes, NettingShape
      <4>3. CASE \E o \in ObligationIds : NettingAdd(n, o) \/ NettingRemove(n, o)
        BY <4>3 DEF NettingAdd, NettingRemove
      <4>4. CASE \E mode \in NettingMode : NettingCreate(n, mode)
        BY <4>4 DEF NettingCreate
      <4> QED
        BY <3>3, <3>6, <3>7, <4>1, <4>2, <4>3, <4>4 DEF NettingStep
    <3> QED
      BY <3>7
  <2>2. AmountInv'
    BY AmountStepInv
  <2> QED
    BY <2>1, <2>2, FinalizeConserves
<1>4. ClearingSpec => [][A]_clearingVars
  <2> HIDE DEF A
  <2> QED
    BY <1>1, <1>2, <1>3, ClearingInvariant, PTL DEF ClearingSpec
<1> QED
  BY <1>4 DEF NettingConserves

=============================================================================
