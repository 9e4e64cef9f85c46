--------------------------------- MODULE Trust ---------------------------------
(***************************************************************************)
(* Authority in the trust registry (src/src/trust/service.py with          *)
(* authority.py, mandates.py, authorization.py and objects.py): grants,    *)
(* which may be delegated down a chain, mandates to act for another        *)
(* principal, the decision on a request, the retirement of a principal and *)
(* the checks on loading a persisted registry.  Scope, amount limits and   *)
(* jurisdictions are one set, the items a grant covers: each of them may   *)
(* only shrink on the way down, and every link of a chain must cover the   *)
(* request.  All records are of one environment and one domain.            *)
(***************************************************************************)
EXTENDS Identity

CONSTANTS
    Grants, Mandates,
    Classes,     \* authority classes
    Items,       \* what a request may ask for
    TermSheets,  \* the terms callers ask for in a grant, a mandate or an amendment
    Pairs        \* <<grantor, grantee>> and <<mandator, mandatary>> that callers name

Terms == [covers : SUBSET Items, window : SUBSET Instants, depth : Nat]

ASSUME TermsAssumption == TermSheets \subseteq Terms
ASSUME PairsAssumption == Pairs \subseteq Principals \X Principals
ASSUME GrantsAssumption == IsFiniteSet(Grants)
ASSUME NoneGrantAssumption == None \notin Grants

VARIABLES
    grant,       \* grant id -> its record
    mandate      \* mandate id -> its record

trustVars == <<principal, key, credential, events, grant, mandate>>

GrantState == {"ACTIVE", "SUSPENDED", "REVOKED"}
MandateState == {"CREATED", "ACTIVE", "SUSPENDED", "REVOKED"}
Live == {"ACTIVE", "SUSPENDED"}

\* A grant without a parent is a ROOT grant.  issued holds the terms of its
\* first version: amendments make new versions of the record.
GrantRecord ==
    [state : GrantState \cup {"NONE"}, grantor : Principals \cup {None},
     grantee : Principals \cup {None}, class : Classes \cup {None}, terms : Terms, issued : Terms,
     parent : Grants \cup {None}]
MandateRecord ==
    [state : MandateState \cup {"NONE"}, mandator : Principals \cup {None},
     mandatary : Principals \cup {None}, terms : Terms]

NoTerms == [covers |-> {}, window |-> {}, depth |-> 0]
NoGrant ==
    [state |-> "NONE", grantor |-> None, grantee |-> None, class |-> None, terms |-> NoTerms,
     issued |-> NoTerms, parent |-> None]
NoMandate == [state |-> "NONE", mandator |-> None, mandatary |-> None, terms |-> NoTerms]

TrustTypeOK ==
    /\ IdentityTypeOK
    /\ grant \in [Grants -> GrantRecord]
    /\ mandate \in [Mandates -> MandateRecord]

TrustInit ==
    /\ IdentityInit
    /\ grant = [g \in Grants |-> NoGrant]
    /\ mandate = [m \in Mandates |-> NoMandate]

-----------------------------------------------------------------------------
(* Grants. *)

\* scope_subset, window_subset, amount_limits_bounded_by, jurisdictions_subset.
Within(child, parent) == child.covers \subseteq parent.covers /\ child.window \subseteq parent.window

IssueRootGrant(g, grantor, grantee, class, terms) ==
    /\ grant[g].state = "NONE"
    /\ Active(grantor) /\ Active(grantee)
    /\ grant' = [grant EXCEPT ![g] = [state |-> "ACTIVE", grantor |-> grantor, grantee |-> grantee,
                                      class |-> class, terms |-> terms, issued |-> terms,
                                      parent |-> None]]
    /\ UNCHANGED <<identityVars, mandate>>

\* Mutant of DelegationBounded: the depth may stay as it is.
DelegationNotWidened(terms, parent) ==
    /\ Within(terms, parent.terms)
    /\ terms.depth <= parent.terms.depth

\* _require_delegation_bounded.
DelegationBounded(terms, parent) ==
    /\ Within(terms, parent.terms)
    /\ parent.terms.depth >= 1 /\ terms.depth <= parent.terms.depth - 1

\* Mutant of HeldParent: a grant of the class is taken for the parent, whoever
\* holds it.
HeldByAnyone(h, grantor, class, at) ==
    /\ grant[h].state = "ACTIVE"
    /\ grant[h].class = class
    /\ at \in grant[h].terms.window

\* _resolve_parent_grant: only the parent itself is looked at, not its chain.
HeldParent(h, grantor, class, at) ==
    /\ grant[h].state = "ACTIVE"
    /\ grant[h].grantee = grantor /\ grant[h].class = class
    /\ at \in grant[h].terms.window

DelegateGrant(g, grantor, grantee, class, terms, h, at) ==
    /\ grant[g].state = "NONE"
    /\ Active(grantor) /\ Active(grantee) /\ grantor # grantee
    /\ HeldParent(h, grantor, class, at)
    /\ DelegationBounded(terms, grant[h])
    /\ grant' = [grant EXCEPT ![g] = [state |-> "ACTIVE", grantor |-> grantor, grantee |-> grantee,
                                      class |-> class, terms |-> terms, issued |-> terms,
                                      parent |-> h]]
    /\ UNCHANGED <<identityVars, mandate>>

GrantTransition(g, from, to) ==
    /\ Operated
    /\ grant[g].state \in from
    /\ grant' = [grant EXCEPT ![g].state = to]
    /\ UNCHANGED <<identityVars, mandate>>

SuspendGrant(g) == GrantTransition(g, {"ACTIVE"}, "SUSPENDED")
ResumeGrant(g) == GrantTransition(g, {"SUSPENDED"}, "ACTIVE")
RevokeGrant(g) == GrantTransition(g, Live, "REVOKED")

\* Tightens one grant; the grants below it keep their terms.
AmendGrant(g, terms) ==
    /\ Operated
    /\ grant[g].state \in Live
    /\ Within(terms, grant[g].terms) /\ terms.depth <= grant[g].terms.depth
    /\ grant' = [grant EXCEPT ![g].terms = terms]
    /\ UNCHANGED <<identityVars, mandate>>

-----------------------------------------------------------------------------
(* Mandates. *)

CreateMandate(m, mandator, mandatary, terms) ==
    /\ mandate[m].state = "NONE"
    /\ Active(mandator) /\ Active(mandatary) /\ mandator # mandatary
    /\ mandate' = [mandate EXCEPT ![m] = [state |-> "CREATED", mandator |-> mandator,
                                          mandatary |-> mandatary, terms |-> terms]]
    /\ UNCHANGED <<identityVars, grant>>

\* The states of the two principals are not asked for again.
MandateTransition(m, from, to) ==
    /\ Operated
    /\ mandate[m].state \in from
    /\ mandate' = [mandate EXCEPT ![m].state = to]
    /\ UNCHANGED <<identityVars, grant>>

ActivateMandate(m) == MandateTransition(m, {"CREATED"}, "ACTIVE")
SuspendMandate(m) == MandateTransition(m, {"ACTIVE"}, "SUSPENDED")
ResumeMandate(m) == MandateTransition(m, {"SUSPENDED"}, "ACTIVE")
RevokeMandate(m) == MandateTransition(m, {"CREATED"} \cup Live, "REVOKED")

AmendMandate(m, terms) ==
    /\ Operated
    /\ mandate[m].state \in Live
    /\ Within(terms, mandate[m].terms)
    /\ mandate' = [mandate EXCEPT ![m].terms = terms]
    /\ UNCHANGED <<identityVars, grant>>

-----------------------------------------------------------------------------
(* Retirement. *)

\* Mutant of NoDependents: only the grants a principal holds are looked at.
HoldsNothing(p) ==
    /\ \A c \in Credentials : credential[c].of = p => credential[c].state # "ACTIVE"
    /\ \A k \in Keys : key[k].owner = p => key[k].state # "ACTIVE"
    /\ \A g \in Grants : p = grant[g].grantee => grant[g].state \notin Live
    /\ \A m \in Mandates : p = mandate[m].mandatary => mandate[m].state \notin Live

\* The blockers of retire_principal.  A mandate that is CREATED is none.
NoDependents(p) ==
    /\ \A c \in Credentials : credential[c].of = p => credential[c].state # "ACTIVE"
    /\ \A k \in Keys : key[k].owner = p => key[k].state # "ACTIVE"
    /\ \A g \in Grants : p \in {grant[g].grantor, grant[g].grantee} => grant[g].state \notin Live
    /\ \A m \in Mandates :
          p \in {mandate[m].mandator, mandate[m].mandatary} => mandate[m].state \notin Live

RetirePrincipal(p) ==
    /\ NoDependents(p)
    /\ PrincipalTransition(p, {"ACTIVE", "SUSPENDED"}, "RETIRED")
    /\ UNCHANGED <<grant, mandate>>

-----------------------------------------------------------------------------
(* The decision on a request, which changes nothing. *)

Requests ==
    [by : Principals, for : Principals \cup {None}, classes : SUBSET Classes \ {{}},
     item : Items, at : Instants]

Covers(terms, request) == request.item \in terms.covers /\ request.at \in terms.window

\* _grant_link_reasons is empty.
LinkHolds(g, request) == grant[g].state = "ACTIVE" /\ Covers(grant[g].terms, request)

\* A parent that _walk_grant_chain and _validate_grant_chain_acyclic accept.
ParentFits(g) ==
    /\ grant[g].parent # None
    /\ grant[grant[g].parent].state # "NONE"
    /\ grant[grant[g].parent].grantee = grant[g].grantor
    /\ grant[grant[g].parent].class = grant[g].class

\* g and the grants that its parent links lead to.
Chain(g) ==
    {h \in Grants : \A C \in SUBSET Grants :
        g \in C /\ (\A x \in C : grant[x].parent # None => grant[x].parent \in C) => h \in C}

\* Every link fits, and following them ends, at a ROOT grant, instead of coming
\* back to a grant already seen.
ChainFits(g) ==
    /\ \A h \in Chain(g) : grant[h].parent # None => ParentFits(h)
    /\ \E h \in Chain(g) : grant[h].parent = None

\* Mutant of ChainHolds: the terms of the leaf are taken to be within the terms
\* of its chain.
ChainActive(g, request) ==
    /\ ChainFits(g)
    /\ Covers(grant[g].terms, request)
    /\ \A h \in Chain(g) : grant[h].state = "ACTIVE"

\* _walk_grant_chain: every link from g up to a ROOT grant.
ChainHolds(g, request) == ChainFits(g) /\ \A h \in Chain(g) : LinkHolds(h, request)

\* _evaluate_authority_class.
ClassHeld(class, request) ==
    \E g \in Grants : /\ grant[g].state # "NONE"
                      /\ grant[g].grantee = request.by /\ grant[g].class = class
                      /\ ChainHolds(g, request)

\* _evaluate_mandate.
Mandated(request) ==
    \E m \in Mandates : /\ mandate[m].mandator = request.for /\ mandate[m].mandatary = request.by
                        /\ mandate[m].state = "ACTIVE"
                        /\ Covers(mandate[m].terms, request)

\* decide: the request carries the authentication event e, whose credential may
\* have been revoked since.
Allowed(request, e) ==
    /\ Active(request.by)
    /\ e.outcome = "SUCCESS" /\ e.by = request.by /\ e.at <= request.at
    /\ request.for # None => Mandated(request)
    /\ \A class \in request.classes : ClassHeld(class, request)

-----------------------------------------------------------------------------
(* Loading a persisted registry. *)

Linked(link, record, none) == link # None => record[link] # none

\* _validate_loaded_references: from_dict takes back what to_dict wrote.
Known(p) == p \in Principals /\ principal[p] # "NONE"
KeyLoads(k) ==
    /\ Known(key[k].owner)
    /\ key[k].recovery # None => key[key[k].recovery].state # "NONE" /\ key[key[k].recovery].purpose = "RECOVERY"
    /\ Linked(key[k].successor, key, NoKey) /\ Linked(key[k].predecessor, key, NoKey)
CredentialLoads(c) ==
    /\ Known(credential[c].of)
    /\ Linked(credential[c].successor, credential, NoCredential)
    /\ Linked(credential[c].predecessor, credential, NoCredential)
Loads ==
    /\ \A c \in Credentials : credential[c] # NoCredential => CredentialLoads(c)
    /\ \A k \in Keys : key[k] # NoKey => KeyLoads(k)
    /\ \A g \in Grants : grant[g] # NoGrant =>
          Known(grant[g].grantor) /\ Known(grant[g].grantee) /\ ChainFits(g)
    /\ \A m \in Mandates : mandate[m] # NoMandate =>
          Known(mandate[m].mandator) /\ Known(mandate[m].mandatary)
    /\ \A e \in events : Known(e.by) /\ credential[e.with] # NoCredential

-----------------------------------------------------------------------------

GrantStep(g) ==
    \/ \E pair \in Pairs, class \in Classes, terms \in TermSheets :
          IssueRootGrant(g, pair[1], pair[2], class, terms)
    \/ \E pair \in Pairs, class \in Classes, terms \in TermSheets, h \in Grants, at \in Instants :
          DelegateGrant(g, pair[1], pair[2], class, terms, h, at)
    \/ SuspendGrant(g)
    \/ ResumeGrant(g)
    \/ RevokeGrant(g)
    \/ \E terms \in TermSheets : AmendGrant(g, terms)

MandateStep(m) ==
    \/ \E pair \in Pairs, terms \in TermSheets : CreateMandate(m, pair[1], pair[2], terms)
    \/ ActivateMandate(m)
    \/ SuspendMandate(m)
    \/ ResumeMandate(m)
    \/ RevokeMandate(m)
    \/ \E terms \in TermSheets : AmendMandate(m, terms)

TrustNext ==
    \/ IdentityStep /\ UNCHANGED <<grant, mandate>>
    \/ \E g \in Grants : GrantStep(g)
    \/ \E m \in Mandates : MandateStep(m)
    \/ \E p \in Principals : RetirePrincipal(p)

TrustSpec == TrustInit /\ [][TrustNext]_trustVars

-----------------------------------------------------------------------------
(* Properties. *)

\* Delegation only narrows (service.py: "delegation is bounded").  An amendment
\* leaves the grants below as they are, so the current terms of a child may
\* exceed its parent's; what always holds is that the first versions narrow down
\* the chain, the depth strictly, and that no later version exceeds the first.
\* The chain above a grant is therefore finite and no longer than the depth its
\* root was issued with.
DelegationNarrows ==
    \A g \in Grants :
        /\ Within(grant[g].terms, grant[g].issued)
        /\ grant[g].terms.depth <= grant[g].issued.depth
        /\ grant[g].parent # None =>
              /\ Within(grant[g].issued, grant[grant[g].parent].issued)
              /\ grant[g].issued.depth < grant[grant[g].parent].issued.depth

\* A request is allowed only under a ROOT grant that is active now and whose
\* present terms cover it, whatever was suspended, revoked or amended since the
\* chain below was delegated (service.py: "any revoked or suspended link denies
\* authorization without mutating descendants").
AllowedUnderRoot ==
    \A request \in Requests, e \in events :
        Allowed(request, e) =>
            \A class \in request.classes :
                \E r \in Grants : /\ grant[r].parent = None
                                  /\ grant[r].class = class
                                  /\ LinkHolds(r, request)

\* The grants and credentials of a retired principal stay out of use: none of
\* its credentials is active and no grant to it or from it is live, whatever is
\* resumed, rotated or issued after retire_principal looked at them.  Keys and
\* mandates are another matter: a CREATED mandate of a retired principal can be
\* activated and a ROTATED key rotated again (service.py 408).
RetiredHoldNoAuthority ==
    \A p \in Principals : principal[p] = "RETIRED" =>
        /\ \A c \in Credentials : credential[c].of = p => credential[c].state # "ACTIVE"
        /\ \A g \in Grants :
              p \in {grant[g].grantor, grant[g].grantee} => grant[g].state \notin Live

\* The registry can be restored from whatever state it is persisted in: no
\* sequence of commands reaches a state that from_dict refuses.
PersistedStateLoads == Loads

\* Rotation never sheds what protects a key: its successor has the same owner
\* and purpose, the same threshold policy and recovery key, and no longer a
\* window, through any number of rotations.
RotationKeepsProtection ==
    \A k \in Keys : key[k].predecessor # None =>
        LET p == key[k].predecessor
        IN  /\ key[k].owner = key[p].owner /\ key[k].purpose = key[p].purpose
            /\ key[k].guarded = key[p].guarded /\ key[k].recovery = key[p].recovery
            /\ key[k].window \subseteq key[p].window

=============================================================================
