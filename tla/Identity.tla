------------------------------- MODULE Identity -------------------------------
(***************************************************************************)
(* Principals, keys, credentials and authentication of the trust registry  *)
(* (src/src/trust/service.py with principal.py, keys.py, credentials.py    *)
(* and authentication.py).  The registry is one in-memory object and every *)
(* command is one call; a call that raises changes nothing.  A validity    *)
(* window is the set of instants in it, and the secret of a key or of a    *)
(* credential is the key or the credential itself: callers choose distinct *)
(* secrets.  Display names, attributes (all that update_principal changes),*)
(* envelopes and seals are left out.                                       *)
(***************************************************************************)
EXTENDS Naturals, FiniteSets

CONSTANTS
    Principals, Credentials, Keys,
    Instants,    \* the time stamps callers pass as as_of
    Windows,     \* the validity windows callers ask for
    KeyRequests, \* the keys callers register
    CredentialRequests, \* the credentials callers issue
    Nonces,      \* the nonces of authentication attempts
    Approvers,   \* the approvers of the threshold policy of a guarded key
    Threshold,   \* and how many of them it needs
    None         \* "not linked"

ASSUME InstantsAssumption == Instants \subseteq Nat
ASSUME WindowsAssumption == Windows \subseteq SUBSET Instants
ASSUME KeyRequestsAssumption ==
    KeyRequests \subseteq [owner : Principals, purpose : {"AUTHENTICATION", "RECOVERY"},
                           guarded : BOOLEAN]
ASSUME CredentialRequestsAssumption ==
    CredentialRequests \subseteq [of : Principals, kind : {"SECRET_DIGEST", "KEY_PROOF"}]
ASSUME PolicyAssumption == Approvers \subseteq Principals /\ Threshold \in Nat \ {0}
ASSUME NoneAssumption == None \notin Principals \cup Credentials \cup Keys

VARIABLES
    principal,   \* principal id -> its state
    key,         \* key id -> its record
    credential,  \* credential id -> its record
    events       \* the authentication events recorded

identityVars == <<principal, key, credential, events>>

PrincipalState == {"ACTIVE", "SUSPENDED", "RETIRED"}
KeyState == {"ACTIVE", "ROTATED", "REVOKED"}
CredentialState == KeyState
KeyPurpose == {"AUTHENTICATION", "RECOVERY"}
CredentialKind == {"SECRET_DIGEST", "KEY_PROOF"}

\* A key is guarded when it has a threshold policy; recovery is the key that
\* may stand in for the approvers.
KeyRecord ==
    [state : KeyState \cup {"NONE"}, owner : Principals \cup {None}, purpose : KeyPurpose,
     window : SUBSET Instants, successor : Keys \cup {None}, predecessor : Keys \cup {None},
     guarded : BOOLEAN, recovery : Keys \cup {None}]
CredentialRecord ==
    [state : CredentialState \cup {"NONE"}, of : Principals \cup {None}, kind : CredentialKind,
     bound : Keys \cup {None}, window : SUBSET Instants,
     successor : Credentials \cup {None}, predecessor : Credentials \cup {None}]
AuthenticationEvent ==
    [by : Principals, with : Credentials, nonce : Nonces, at : Instants,
     outcome : {"SUCCESS", "FAILURE"}]

NoKey ==
    [state |-> "NONE", owner |-> None, purpose |-> "AUTHENTICATION", window |-> {},
     successor |-> None, predecessor |-> None, guarded |-> FALSE, recovery |-> None]
NoCredential ==
    [state |-> "NONE", of |-> None, kind |-> "SECRET_DIGEST", bound |-> None, window |-> {},
     successor |-> None, predecessor |-> None]

IdentityTypeOK ==
    /\ principal \in [Principals -> PrincipalState \cup {"NONE"}]
    /\ key \in [Keys -> KeyRecord]
    /\ credential \in [Credentials -> CredentialRecord]
    /\ events \subseteq AuthenticationEvent

IdentityInit ==
    /\ principal = [p \in Principals |-> "NONE"]
    /\ key = [k \in Keys |-> NoKey]
    /\ credential = [c \in Credentials |-> NoCredential]
    /\ events = {}

Active(p) == principal[p] = "ACTIVE"

\* _require_operator: any active principal may operate the registry.
Operated == \E operator \in Principals : Active(operator)

-----------------------------------------------------------------------------
(* Principals.  Retirement looks at grants and mandates too: see Trust. *)

CreatePrincipal(p) ==
    /\ principal[p] = "NONE"
    /\ principal' = [principal EXCEPT ![p] = "ACTIVE"]
    /\ UNCHANGED <<key, credential, events>>

PrincipalTransition(p, from, to) ==
    /\ Operated
    /\ principal[p] \in from
    /\ principal' = [principal EXCEPT ![p] = to]
    /\ UNCHANGED <<key, credential, events>>

SuspendPrincipal(p) == PrincipalTransition(p, {"ACTIVE"}, "SUSPENDED")
ReinstatePrincipal(p) == PrincipalTransition(p, {"SUSPENDED"}, "ACTIVE")

-----------------------------------------------------------------------------
(* Keys. *)

\* Mutant of RecoveryFits: the recovery key is looked up when it is needed.
RecoveryUnchecked(recovery) == TRUE

RecoveryFits(recovery) ==
    recovery # None => key[recovery].state # "NONE" /\ key[recovery].purpose = "RECOVERY"

\* The owner may itself be the operator.  The recovery key may belong to anyone and be
\* in any state.
RegisterKey(k, request, window, recovery) ==
    /\ key[k].state = "NONE"
    /\ Active(request.owner)
    /\ RecoveryFits(recovery)
    /\ key' = [key EXCEPT ![k] = [NoKey EXCEPT !.state = "ACTIVE",
                                               !.owner = request.owner,
                                               !.purpose = request.purpose,
                                               !.window = window,
                                               !.guarded = request.guarded,
                                               !.recovery = recovery]]
    /\ UNCHANGED <<principal, credential, events>>

\* ThresholdApproval: as many approvers as the policy needs.  `approvals` are those
\* for whom the caller brings a SUCCESS record not newer than the operation; the
\* record is taken as it is and not looked up among the events.
Approved(approvals) == Cardinality(approvals) >= Threshold

\* _verify_recovery_proof: the caller presents the secret of the recovery key
\* bound to k.
Recovered(k, at) ==
    /\ key[k].recovery # None
    /\ key[key[k].recovery].purpose = "RECOVERY"
    /\ key[key[k].recovery].state = "ACTIVE"
    /\ at \in key[key[k].recovery].window

Authorized(k, at, approvals) == ~key[k].guarded \/ Approved(approvals) \/ Recovered(k, at)

\* Mutant of Successor: the successor is registered afresh, without the guard.
SuccessorFresh(k, window) ==
    [NoKey EXCEPT !.state = "ACTIVE", !.owner = key[k].owner, !.purpose = key[k].purpose,
                  !.window = window, !.predecessor = k]

\* What rotate_key copies from a key to its successor.
Successor(k, window) ==
    [key[k] EXCEPT !.state = "ACTIVE", !.window = window, !.successor = None, !.predecessor = k]

\* Only a REVOKED key is refused: a ROTATED key may be rotated again, and its
\* successor link then names the newest successor.  The owner is not asked for.
RotateKey(k, s, window, at, approvals) ==
    /\ Operated
    /\ key[k].state \in {"ACTIVE", "ROTATED"}
    /\ key[s].state = "NONE"
    /\ window \subseteq key[k].window
    /\ Authorized(k, at, approvals)
    /\ key' = [key EXCEPT ![s] = Successor(k, window), ![k].state = "ROTATED", ![k].successor = s]
    /\ UNCHANGED <<principal, credential, events>>

\* Revocation needs neither approvers nor the recovery key.
RevokeKey(k) ==
    /\ Operated
    /\ key[k].state \in {"ACTIVE", "ROTATED"}
    /\ key' = [key EXCEPT ![k].state = "REVOKED"]
    /\ UNCHANGED <<principal, credential, events>>

-----------------------------------------------------------------------------
(* Credentials. *)

\* _require_bound_authentication_key and the window of the credential; a
\* SECRET_DIGEST credential has no key.
BoundKeyHolds(kind, k, p, window, at) ==
    IF kind = "SECRET_DIGEST" THEN k = None
    ELSE /\ k # None
         /\ key[k].state = "ACTIVE" /\ key[k].owner = p /\ key[k].purpose = "AUTHENTICATION"
         /\ at \in key[k].window
         /\ window \subseteq key[k].window

IssueCredential(c, request, k, window, at) ==
    /\ credential[c].state = "NONE"
    /\ Active(request.of)
    /\ BoundKeyHolds(request.kind, k, request.of, window, at)
    /\ credential' = [credential EXCEPT ![c] = [NoCredential EXCEPT !.state = "ACTIVE",
                                                  !.of = request.of, !.kind = request.kind,
                                                  !.bound = k, !.window = window]]
    /\ UNCHANGED <<principal, key, events>>

\* The principal is not asked for.
RotateCredential(c, s, k, window, at) ==
    /\ Operated
    /\ credential[c].state = "ACTIVE"
    /\ credential[s].state = "NONE"
    /\ window \subseteq credential[c].window
    /\ BoundKeyHolds(credential[c].kind, k, credential[c].of, window, at)
    /\ credential' = [credential EXCEPT ![s] = [credential[c] EXCEPT !.bound = k, !.window = window,
                                                                     !.predecessor = c],
                                        ![c].state = "ROTATED", ![c].successor = s]
    /\ UNCHANGED <<principal, key, events>>

RevokeCredential(c) ==
    /\ Operated
    /\ credential[c].state \in {"ACTIVE", "ROTATED"}
    /\ credential' = [credential EXCEPT ![c].state = "REVOKED"]
    /\ UNCHANGED <<principal, key, events>>

-----------------------------------------------------------------------------
(* Authentication. *)

\* The keys that the successor links lead to from k, k itself included.
RotationChain(k) ==
    LET reached[n \in Nat] ==
            IF n = 0 THEN {k} ELSE reached[n - 1] \cup ({key[j].successor : j \in reached[n - 1]} \ {None})
    IN  reached[Cardinality(Keys)]

\* _verify_credential_proof: a KEY_PROOF is matched with the bound key and then
\* with its successors, and the key it matches must be usable.
ProofHolds(c, secret, at) ==
    IF credential[c].kind = "SECRET_DIGEST" THEN secret = c
    ELSE /\ secret \in RotationChain(credential[c].bound)
         /\ key[secret].state = "ACTIVE"
         /\ at \in key[secret].window

Authenticates(c, secret, at) ==
    /\ Active(credential[c].of)
    /\ credential[c].state = "ACTIVE"
    /\ at \in credential[c].window
    /\ ProofHolds(c, secret, at)

\* A repeated attempt (same credential, nonce and instant) must have the same
\* outcome, and is then the event on record.
Authenticate(c, secret, nonce, at) ==
    LET event == [by |-> credential[c].of, with |-> c, nonce |-> nonce, at |-> at,
                  outcome |-> IF Authenticates(c, secret, at) THEN "SUCCESS" ELSE "FAILURE"]
    IN  /\ credential[c].state # "NONE"
        /\ principal[credential[c].of] # "RETIRED"
        /\ \A e \in events : e.with = c /\ e.nonce = nonce /\ e.at = at => e = event
        /\ events' = events \cup {event}
        /\ UNCHANGED <<principal, key, credential>>

PrincipalStep(p) == CreatePrincipal(p) \/ SuspendPrincipal(p) \/ ReinstatePrincipal(p)

KeyStep(k) ==
    \/ \E request \in KeyRequests, w \in Windows, r \in Keys \cup {None} :
          RegisterKey(k, request, w, r)
    \/ \E s \in Keys, w \in Windows, at \in Instants, approvals \in SUBSET Approvers :
          RotateKey(k, s, w, at, approvals)
    \/ RevokeKey(k)

CredentialStep(c) ==
    \/ \E request \in CredentialRequests, k \in Keys \cup {None}, w \in Windows, at \in Instants :
          IssueCredential(c, request, k, w, at)
    \/ \E s \in Credentials, k \in Keys \cup {None}, w \in Windows, at \in Instants :
          RotateCredential(c, s, k, w, at)
    \/ RevokeCredential(c)
    \/ \E secret \in Keys \cup Credentials, nonce \in Nonces, at \in Instants :
          Authenticate(c, secret, nonce, at)

IdentityStep ==
    \/ \E p \in Principals : PrincipalStep(p)
    \/ \E k \in Keys : KeyStep(k)
    \/ \E c \in Credentials : CredentialStep(c)

=============================================================================
