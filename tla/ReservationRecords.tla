------------------------- MODULE ReservationRecords -------------------------
(***************************************************************************)
(* The reservation record and its command family                           *)
(* (src/src/reservation/records.py, conditions.py).  A command is a guard  *)
(* on a record and the caller's as_of instant, and the record it builds.   *)
(* Amounts, parties, funding and evidence references are left out: no      *)
(* guard of the family reads them.                                         *)
(***************************************************************************)
EXTENDS ResourceKeys

CONSTANTS
    Ids,        \* reservation ids
    Instants,   \* the as_of instants callers supply
    Windows,    \* operating windows [opens, closes)
    CondSets,   \* declared condition sets
    NoRecord    \* "the store holds no such reservation"

ASSUME InstantsAssumption == Instants \subseteq Int
ASSUME WindowsAssumption == Windows \subseteq [opens : Int, closes : Int]

ReservationState ==
    {"RESERVED", "HELD", "COMMITTED", "RELEASED", "EXPIRED", "DEFAULTED", "CONSUMED"}

RESERVATION_TERMINAL_STATES == {"RELEASED", "EXPIRED", "DEFAULTED", "CONSUMED"}

\* Source states per command.
RESERVATION_TRANSITIONS ==
    [ HOLD    |-> {"RESERVED"},
      AMEND   |-> {"RESERVED", "HELD"},
      COMMIT  |-> {"RESERVED", "HELD"},
      RELEASE |-> {"RESERVED", "HELD"},
      EXPIRE  |-> {"RESERVED", "HELD"},
      DEFAULT |-> {"HELD", "COMMITTED"},
      CONSUME |-> {"COMMITTED"} ]

\* committed, defaulted and consumed hold the recorded instants, as sets of at
\* most one instant.
Reservation ==
    [ key : Keys, ver : Nat \ {0}, state : ReservationState,
      window : Windows, conds : CondSets, hold : BOOLEAN,
      committed : SUBSET Instants, defaulted : SUBSET Instants,
      consumed : SUBSET Instants ]

ASSUME NoRecordAssumption == NoRecord \notin Reservation

Exists(r) == r # NoRecord

Live(r) == Exists(r) /\ r.state \notin RESERVATION_TERMINAL_STATES

Version(r) == IF Exists(r) THEN r.ver ELSE 0

\* Keys with more than one live reservation in a view of the store.
Crowded(view) ==
    {k \in Keys : \E a, b \in Ids :
        a # b /\ Live(view[a]) /\ Live(view[b]) /\ view[a].key = k /\ view[b].key = k}

-----------------------------------------------------------------------------

FromState(r, command) == r.state \in RESERVATION_TRANSITIONS[command]

InWindow(r, asOf) == r.window.opens <= asOf /\ asOf < r.window.closes

\* _advance: the next version in the given state.
Advance(r, state) == [r EXCEPT !.ver = @ + 1, !.state = state]

Created(key, window, conds) ==
    [ key |-> key, ver |-> 1, state |-> "RESERVED", window |-> window,
      conds |-> conds, hold |-> FALSE,
      committed |-> {}, defaulted |-> {}, consumed |-> {} ]

CanHold(r, asOf) == FromState(r, "HOLD") /\ InWindow(r, asOf)

Held(r) == [Advance(r, "HELD") EXCEPT !.hold = TRUE]

CanAmend(r, asOf) == FromState(r, "AMEND") /\ InWindow(r, asOf)

Amended(r, window, conds) ==
    [Advance(r, r.state) EXCEPT !.window = window, !.conds = conds]

\* Mutant of CanCommit: the window is not looked at.
CanCommitAnytime(r, asOf, satisfied) == FromState(r, "COMMIT") /\ satisfied = r.conds

\* No declared condition missing, none unknown.
CanCommit(r, asOf, satisfied) ==
    FromState(r, "COMMIT") /\ InWindow(r, asOf) /\ satisfied = r.conds

Committed(r, asOf) == [Advance(r, "COMMITTED") EXCEPT !.committed = {asOf}]

CanRelease(r, asOf) == FromState(r, "RELEASE") /\ asOf < r.window.closes

CanExpire(r, asOf) == FromState(r, "EXPIRE") /\ asOf >= r.window.closes

CanDefault(r, asOf) == FromState(r, "DEFAULT") /\ \A c \in r.committed : asOf >= c

Defaulted(r, asOf) == [Advance(r, "DEFAULTED") EXCEPT !.defaulted = {asOf}]

CanConsume(r, asOf) == FromState(r, "CONSUME") /\ \A c \in r.committed : asOf >= c

Consumed(r, asOf) == [Advance(r, "CONSUMED") EXCEPT !.consumed = {asOf}]

-----------------------------------------------------------------------------

\* _validate_state_coherence: the facts a record in each state must and must
\* not carry; the constructor refuses any other combination.
Coherent(r) ==
    /\ r.state = "RESERVED" => ~r.hold
    /\ r.state = "HELD" => r.hold
    /\ r.state \in {"RESERVED", "HELD", "RELEASED", "EXPIRED"} => r.committed = {}
    /\ r.state \in {"COMMITTED", "CONSUMED"} => r.committed # {}
    /\ r.state = "DEFAULTED" <=> r.defaulted # {}
    /\ r.state = "CONSUMED" <=> r.consumed # {}

\* The record `new` is what some command of the family builds from `old`.
IsSuccessor(old, new) ==
    \/ \E asOf \in Instants :
        \/ CanHold(old, asOf) /\ new = Held(old)
        \/ CanAmend(old, asOf) /\ \E w \in Windows, c \in CondSets : new = Amended(old, w, c)
        \/ CanCommit(old, asOf, old.conds) /\ new = Committed(old, asOf)
        \/ CanRelease(old, asOf) /\ new = Advance(old, "RELEASED")
        \/ CanExpire(old, asOf) /\ new = Advance(old, "EXPIRED")
        \/ CanDefault(old, asOf) /\ new = Defaulted(old, asOf)
        \/ CanConsume(old, asOf) /\ new = Consumed(old, asOf)

IsCreation(new) ==
    \E k \in Keys, w \in Windows, c \in CondSets : new = Created(k, w, c)

=============================================================================
