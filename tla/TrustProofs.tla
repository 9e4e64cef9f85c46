------------------------------ MODULE TrustProofs ------------------------------
(***************************************************************************)
(* Proofs about Trust for any number of principals, keys, credentials and  *)
(* grants and any terms.  TrustInvariant adds to the properties that what  *)
(* a link names exists: a fresh id is then never the parent of a grant or  *)
(* the predecessor of a key, so that filling it in disturbs no other.      *)
(*                                                                         *)
(* Depth strictly decreases along a chain of grants, so every chain ends,  *)
(* in a root of its class: that is where an allowed request's authority    *)
(* comes from.  LinksLoad adds what from_dict asks of each record's links, *)
(* so that a registry that was saved loads again.                          *)
(***************************************************************************)
EXTENDS Trust, FiniteSetTheorems, TLAPS

ParentsFit == \A g \in Grants : grant[g].parent # None => ParentFits(g)

PredecessorsExist ==
    \A k \in Keys : key[k].predecessor # None => key[key[k].predecessor].state # "NONE"

KeyInvariant == key \in [Keys -> KeyRecord] /\ PredecessorsExist /\ RotationKeepsProtection
GrantInvariant == grant \in [Grants -> GrantRecord] /\ ParentsFit /\ DelegationNarrows


CredentialTypeOK ==
    /\ credential \in [Credentials -> CredentialRecord]
    /\ \A c \in Credentials : credential[c].state # "NONE" => credential[c].of \in Principals

TrustInvariant ==
    TrustTypeOK /\ CredentialTypeOK /\ KeyInvariant /\ GrantInvariant /\ RetiredHoldNoAuthority

-----------------------------------------------------------------------------
(* Keys. *)

\* The links and the protection of keys survive a change of one key that keeps
\* what rotation copies.
LEMMA KeyChange ==
    ASSUME KeyInvariant, NEW k \in Keys, key[k].state # "NONE",
           NEW state \in KeyState, NEW successor \in Keys \cup {None},
           key' = [key EXCEPT ![k].state = state, ![k].successor = successor]
    PROVE  KeyInvariant'
<1> USE NoneAssumption DEF KeyInvariant, KeyRecord, KeyState
<1>1. key' \in [Keys -> KeyRecord]
  <2> DEFINE r == [key[k] EXCEPT !.state = state, !.successor = successor]
  <2>1. r \in KeyRecord /\ key' = [key EXCEPT ![k] = r]
    OBVIOUS
  <2> HIDE DEF r
  <2> QED
    BY <2>1
<1>2. \A j \in Keys : /\ key'[j].predecessor = key[j].predecessor /\ key'[j].owner = key[j].owner
                      /\ key'[j].purpose = key[j].purpose /\ key'[j].guarded = key[j].guarded
                      /\ key'[j].recovery = key[j].recovery /\ key'[j].window = key[j].window
                      /\ key[j].state # "NONE" => key'[j].state # "NONE"
  OBVIOUS
<1>3. \A j \in Keys : key[j].predecessor \in Keys \cup {None}
  OBVIOUS
<1>4. PredecessorsExist'
  BY <1>2, <1>3 DEF PredecessorsExist
<1>5. RotationKeepsProtection'
  BY <1>2, <1>3 DEF RotationKeepsProtection
<1> QED
  BY <1>1, <1>4, <1>5

\* ... and the creation of a key whose predecessor, if it has one, is like it.
LEMMA KeyCreation ==
    ASSUME KeyInvariant, NEW s \in Keys, key[s].state = "NONE", NEW r \in KeyRecord,
           r.state # "NONE",
           r.predecessor # None =>
               /\ key[r.predecessor].state # "NONE"
               /\ r.owner = key[r.predecessor].owner /\ r.purpose = key[r.predecessor].purpose
               /\ r.guarded = key[r.predecessor].guarded
               /\ r.recovery = key[r.predecessor].recovery
               /\ r.window \subseteq key[r.predecessor].window,
           key' = [key EXCEPT ![s] = r]
    PROVE  KeyInvariant'
<1> USE NoneAssumption DEF KeyInvariant
<1>1. key' \in [Keys -> KeyRecord] /\ key'[s] = r /\ \A j \in Keys \ {s} : key'[j] = key[j]
  OBVIOUS
<1>2. \A j \in Keys : key[j].predecessor \in Keys \cup {None} /\ r.predecessor \in Keys \cup {None}
  BY DEF KeyRecord
<1>3. \A j \in Keys : key[j].predecessor # None => key[j].predecessor # s
  BY DEF PredecessorsExist
<1>4. r.predecessor # s
  BY NoneAssumption
<1>5. PredecessorsExist'
  BY <1>1, <1>2, <1>3, <1>4 DEF PredecessorsExist
<1>6. RotationKeepsProtection'
  BY <1>1, <1>2, <1>3, <1>4 DEF RotationKeepsProtection
<1> QED
  BY <1>1, <1>5, <1>6

\* Every command of the key family keeps the key invariant.
LEMMA KeyActions ==
    ASSUME KeyInvariant, NEW k \in Keys, KeyStep(k)
    PROVE  KeyInvariant'
<1> USE NoneAssumption, WindowsAssumption
<1>1. ASSUME NEW request \in KeyRequests, NEW w \in Windows, NEW r \in Keys \cup {None},
             RegisterKey(k, request, w, r)
      PROVE  KeyInvariant'
  <2> DEFINE new == [NoKey EXCEPT !.state = "ACTIVE", !.owner = request.owner,
                                  !.purpose = request.purpose, !.window = w,
                                  !.guarded = request.guarded, !.recovery = r]
  <2>1. new \in KeyRecord /\ new.state = "ACTIVE" /\ new.predecessor = None
    BY KeyRequestsAssumption DEF NoKey, KeyRecord, KeyState, KeyPurpose
  <2>2. key[k].state = "NONE" /\ key' = [key EXCEPT ![k] = new]
    BY <1>1 DEF RegisterKey
  <2> HIDE DEF new
  <2> QED
    BY <2>1, <2>2, KeyCreation
<1>2. ASSUME NEW s \in Keys, NEW w \in Windows, NEW at \in Instants,
             NEW approvals \in SUBSET Approvers, RotateKey(k, s, w, at, approvals)
      PROVE  KeyInvariant'
  <2> DEFINE new == Successor(k, w)
             middle == [key EXCEPT ![s] = new]
  <2>1. key[k].state \in {"ACTIVE", "ROTATED"} /\ key[s].state = "NONE" /\ w \subseteq key[k].window
    BY <1>2 DEF RotateKey
  <2>2. key[k] \in KeyRecord
    BY DEF KeyInvariant
  <2>3. /\ new \in KeyRecord /\ new.state = "ACTIVE" /\ new.predecessor = k /\ new.window = w
        /\ new.owner = key[k].owner /\ new.purpose = key[k].purpose
        /\ new.guarded = key[k].guarded /\ new.recovery = key[k].recovery
    BY <2>2 DEF Successor, KeyRecord, KeyState
  <2>4. k # s
    BY <2>1
  <2>5. key' = [key EXCEPT ![s] = new, ![k].state = "ROTATED", ![k].successor = s]
    BY <1>2 DEF RotateKey
  <2> HIDE DEF new
  <2>6. /\ key' \in [Keys -> KeyRecord] /\ key'[s] = new
        /\ key'[k] = [key[k] EXCEPT !.state = "ROTATED", !.successor = s]
        /\ \A j \in Keys \ {s, k} : key'[j] = key[j]
    BY <2>2, <2>3, <2>4, <2>5 DEF KeyInvariant, KeyRecord, KeyState
  <2>7. /\ key'[k].state = "ROTATED" /\ key'[k].predecessor = key[k].predecessor
        /\ key'[k].owner = key[k].owner /\ key'[k].purpose = key[k].purpose
        /\ key'[k].guarded = key[k].guarded /\ key'[k].recovery = key[k].recovery
        /\ key'[k].window = key[k].window
    BY <2>2, <2>6 DEF KeyRecord
  <2>8. \A j \in Keys : /\ key[j].predecessor \in Keys \cup {None}
                        /\ key[j].predecessor # None => key[j].predecessor # s
    BY <2>1 DEF KeyInvariant, KeyRecord, PredecessorsExist
  <2>9. ASSUME NEW j \in Keys, key'[j].predecessor # None
        PROVE  key'[key'[j].predecessor].state # "NONE"
    <3>1. CASE j = s
      BY <3>1, <2>3, <2>6, <2>7
    <3>2. CASE j # s
      <4> DEFINE p == key[j].predecessor
      <4>1. key'[j].predecessor = p /\ p \in Keys /\ p # s
        BY <3>2, <2>6, <2>7, <2>8, <2>9
      <4>2. key[p].state # "NONE"
        BY <4>1 DEF KeyInvariant, PredecessorsExist
      <4> HIDE DEF p
      <4> QED
        BY <4>1, <4>2, <2>6, <2>7
    <3> QED
      BY <3>1, <3>2
  <2>10. ASSUME NEW j \in Keys, key'[j].predecessor # None
         PROVE  LET p == key'[j].predecessor
                IN  /\ key'[j].owner = key'[p].owner /\ key'[j].purpose = key'[p].purpose
                    /\ key'[j].guarded = key'[p].guarded /\ key'[j].recovery = key'[p].recovery
                    /\ key'[j].window \subseteq key'[p].window
    <3>1. CASE j = s
      BY <3>1, <2>1, <2>3, <2>4, <2>6, <2>7
    <3>2. CASE j # s
      <4> DEFINE p == key[j].predecessor
      <4>1. key'[j].predecessor = p /\ p \in Keys /\ p # s
        BY <3>2, <2>6, <2>7, <2>8, <2>10
      <4>2. /\ key[j].owner = key[p].owner /\ key[j].purpose = key[p].purpose
            /\ key[j].guarded = key[p].guarded /\ key[j].recovery = key[p].recovery
            /\ key[j].window \subseteq key[p].window
        BY <4>1 DEF KeyInvariant, RotationKeepsProtection
      <4> HIDE DEF p
      <4> QED
        BY <3>2, <4>1, <4>2, <2>6, <2>7
    <3> QED
      BY <3>1, <3>2
  <2> QED
    BY <2>6, <2>9, <2>10 DEF KeyInvariant, RotationKeepsProtection, PredecessorsExist
<1>3. ASSUME RevokeKey(k) PROVE KeyInvariant'
  <2>1. key[k] \in KeyRecord /\ key[k].state # "NONE"
    BY <1>3 DEF RevokeKey, KeyInvariant
  <2>2. key' = [key EXCEPT ![k].state = "REVOKED", ![k].successor = key[k].successor]
    BY <1>3, <2>1 DEF RevokeKey, KeyInvariant, KeyRecord
  <2> QED
    BY <2>1, <2>2, KeyChange DEF KeyRecord, KeyState
<1> QED
  BY <1>1, <1>2, <1>3 DEF KeyStep

-----------------------------------------------------------------------------
(* Grants. *)

\* A new version of one grant keeps its parties, class, parent and first terms,
\* and may only tighten its terms.
LEMMA GrantChange ==
    ASSUME GrantInvariant, NEW g \in Grants, grant[g].state # "NONE",
           NEW state \in GrantState, NEW terms \in Terms,
           Within(terms, grant[g].terms), terms.depth <= grant[g].terms.depth,
           grant' = [grant EXCEPT ![g].state = state, ![g].terms = terms]
    PROVE  GrantInvariant'
<1> DEFINE r == [grant[g] EXCEPT !.state = state, !.terms = terms]
<1>1. grant[g] \in GrantRecord
  BY DEF GrantInvariant
<1>2. /\ r \in GrantRecord /\ r.state = state /\ r.terms = terms /\ r.issued = grant[g].issued
      /\ r.parent = grant[g].parent /\ r.grantor = grant[g].grantor
      /\ r.grantee = grant[g].grantee /\ r.class = grant[g].class
  BY <1>1 DEF GrantRecord
<1>3. grant' = [grant EXCEPT ![g] = r]
  BY <1>1 DEF GrantInvariant, GrantRecord
<1> HIDE DEF r
<1>4. grant' \in [Grants -> GrantRecord] /\ grant'[g] = r /\ \A h \in Grants \ {g} : grant'[h] = grant[h]
  BY <1>2, <1>3 DEF GrantInvariant
<1>5. \A h \in Grants : /\ grant'[h].issued = grant[h].issued /\ grant'[h].parent = grant[h].parent
                        /\ grant'[h].grantor = grant[h].grantor
                        /\ grant'[h].grantee = grant[h].grantee /\ grant'[h].class = grant[h].class
                        /\ grant[h].state # "NONE" => grant'[h].state # "NONE"
  BY <1>2, <1>4 DEF GrantState
<1>6. \A h \in Grants : grant[h].parent \in Grants \cup {None}
  BY DEF GrantInvariant, GrantRecord
<1>7. ParentsFit'
  BY <1>5, <1>6 DEF GrantInvariant, ParentsFit, ParentFits
<1>8. ASSUME NEW h \in Grants
      PROVE  Within(grant'[h].terms, grant'[h].issued) /\ grant'[h].terms.depth <= grant'[h].issued.depth
  <2>1. Within(grant[h].terms, grant[h].issued) /\ grant[h].terms.depth <= grant[h].issued.depth
    BY DEF GrantInvariant, DelegationNarrows
  <2>2. CASE h # g
    BY <2>1, <2>2, <1>4
  <2>3. CASE h = g
    <3>1. grant'[h].terms = terms /\ grant'[h].issued = grant[g].issued
      BY <2>3, <1>2, <1>4
    <3>2. Within(terms, grant[g].issued)
      BY <2>1, <2>3 DEF Within
    <3>3. terms.depth \in Nat /\ grant[g].terms.depth \in Nat /\ grant[g].issued.depth \in Nat
      BY <1>1 DEF GrantRecord, Terms
    <3>4. terms.depth <= grant[g].issued.depth
      BY <2>1, <2>3, <3>3
    <3> QED
      BY <3>1, <3>2, <3>4
  <2> QED
    BY <2>2, <2>3
<1>9. ASSUME NEW h \in Grants, grant'[h].parent # None
      PROVE  /\ Within(grant'[h].issued, grant'[grant'[h].parent].issued)
             /\ grant'[h].issued.depth < grant'[grant'[h].parent].issued.depth
  BY <1>5, <1>6, <1>9 DEF GrantInvariant, DelegationNarrows
<1> QED
  BY <1>4, <1>7, <1>8, <1>9 DEF GrantInvariant, DelegationNarrows, Within

\* A new grant is within the terms of its parent, if it has one.
LEMMA GrantCreation ==
    ASSUME GrantInvariant, NEW g \in Grants, grant[g].state = "NONE", NEW r \in GrantRecord,
           r.state # "NONE", r.issued = r.terms,
           r.parent # None => /\ grant[r.parent].state # "NONE"
                              /\ grant[r.parent].grantee = r.grantor
                              /\ grant[r.parent].class = r.class
                              /\ Within(r.terms, grant[r.parent].terms)
                              /\ r.terms.depth < grant[r.parent].terms.depth,
           grant' = [grant EXCEPT ![g] = r]
    PROVE  GrantInvariant'
<1>1. grant' \in [Grants -> GrantRecord] /\ grant'[g] = r /\ \A h \in Grants \ {g} : grant'[h] = grant[h]
  BY DEF GrantInvariant
<1>2. r.parent \in Grants \cup {None} /\ \A h \in Grants : grant[h].parent \in Grants \cup {None}
  BY DEF GrantInvariant, GrantRecord
<1>3. r.parent # g /\ \A h \in Grants : grant[h].parent # None => grant[h].parent # g
  BY NoneGrantAssumption DEF GrantInvariant, ParentsFit, ParentFits
<1>4. ParentsFit'
  <2> SUFFICES ASSUME NEW h \in Grants, grant'[h].parent # None PROVE ParentFits(h)'
    BY DEF ParentsFit
  <2>1. CASE h = g
    BY <2>1, <1>1, <1>2, <1>3 DEF ParentFits
  <2>2. CASE h # g
    <3>1. grant'[h] = grant[h] /\ grant[h].parent \in Grants \ {g}
      BY <2>2, <1>1, <1>2, <1>3
    <3>2. ParentFits(h)
      BY <3>1 DEF GrantInvariant, ParentsFit
    <3> QED
      BY <3>1, <3>2, <1>1 DEF ParentFits
  <2> QED
    BY <2>1, <2>2
<1>5. ASSUME NEW h \in Grants
      PROVE  Within(grant'[h].terms, grant'[h].issued) /\ grant'[h].terms.depth <= grant'[h].issued.depth
  <2>1. CASE h # g
    BY <2>1, <1>1 DEF GrantInvariant, DelegationNarrows
  <2>2. CASE h = g
    BY <2>2, <1>1 DEF Within, GrantRecord, Terms
  <2> QED
    BY <2>1, <2>2
<1>6. ASSUME NEW h \in Grants, grant'[h].parent # None
      PROVE  /\ Within(grant'[h].issued, grant'[grant'[h].parent].issued)
             /\ grant'[h].issued.depth < grant'[grant'[h].parent].issued.depth
  <2>1. CASE h # g
    <3>1. grant'[h] = grant[h] /\ grant[h].parent \in Grants \ {g}
      BY <2>1, <1>1, <1>2, <1>3, <1>6
    <3>2. grant'[grant[h].parent] = grant[grant[h].parent]
      BY <3>1, <1>1
    <3> QED
      BY <1>6, <3>1, <3>2 DEF GrantInvariant, DelegationNarrows
  <2>2. CASE h = g
    <3> DEFINE p == r.parent
    <3>1. grant'[h] = r /\ p \in Grants /\ grant'[p] = grant[p]
      BY <2>2, <1>1, <1>2, <1>3, <1>6
    <3>2. Within(r.terms, grant[p].terms) /\ r.terms.depth < grant[p].terms.depth
      BY <3>1, <1>6
    <3>3. Within(grant[p].terms, grant[p].issued) /\ grant[p].terms.depth <= grant[p].issued.depth
      BY <3>1 DEF GrantInvariant, DelegationNarrows
    <3>4. r.terms.depth \in Nat /\ grant[p].terms.depth \in Nat /\ grant[p].issued.depth \in Nat
      BY <3>1 DEF GrantInvariant, GrantRecord, Terms
    <3>5. Within(r.issued, grant[p].issued)
      BY <3>2, <3>3 DEF Within
    <3>6. r.issued.depth < grant[p].issued.depth
      BY <3>2, <3>3, <3>4
    <3> QED
      BY <3>1, <3>5, <3>6
  <2> QED
    BY <2>1, <2>2
<1> QED
  BY <1>1, <1>4, <1>5, <1>6 DEF GrantInvariant, DelegationNarrows, Within

\* A transition changes the state of a grant and none of its links or terms.
LEMMA GrantTransitionKeeps ==
    ASSUME GrantInvariant, NEW g \in Grants, NEW from, NEW to \in GrantState, "NONE" \notin from,
           GrantTransition(g, from, to)
    PROVE  GrantInvariant'
<1>1. grant[g] \in GrantRecord /\ grant[g].state # "NONE"
  BY DEF GrantInvariant, GrantTransition
<1>2. grant' = [grant EXCEPT ![g].state = to, ![g].terms = grant[g].terms]
  BY <1>1 DEF GrantTransition, GrantInvariant, GrantRecord
<1>3. grant[g].terms \in Terms /\ grant[g].terms.depth <= grant[g].terms.depth
  BY <1>1 DEF GrantRecord, Terms
<1>4. Within(grant[g].terms, grant[g].terms)
  BY DEF Within
<1> QED
  BY <1>1, <1>2, <1>3, <1>4, GrantChange

\* Every command of the grant family keeps the grant invariant.
LEMMA GrantActions ==
    ASSUME GrantInvariant, NEW g \in Grants, GrantStep(g)
    PROVE  GrantInvariant'
<1> USE TermsAssumption, PairsAssumption
<1>1. ASSUME NEW pair \in Pairs, NEW class \in Classes, NEW terms \in TermSheets,
             IssueRootGrant(g, pair[1], pair[2], class, terms)
      PROVE  GrantInvariant'
  <2> DEFINE r == [state |-> "ACTIVE", grantor |-> pair[1], grantee |-> pair[2], class |-> class,
                   terms |-> terms, issued |-> terms, parent |-> None]
  <2>1. r \in GrantRecord /\ r.state = "ACTIVE" /\ r.issued = r.terms /\ r.parent = None
    BY DEF GrantRecord, GrantState
  <2>2. grant[g].state = "NONE" /\ grant' = [grant EXCEPT ![g] = r]
    BY <1>1 DEF IssueRootGrant
  <2> HIDE DEF r
  <2> QED
    BY <2>1, <2>2, GrantCreation
<1>2. ASSUME NEW pair \in Pairs, NEW class \in Classes, NEW terms \in TermSheets, NEW h \in Grants,
             NEW at \in Instants, DelegateGrant(g, pair[1], pair[2], class, terms, h, at)
      PROVE  GrantInvariant'
  <2> DEFINE r == [state |-> "ACTIVE", grantor |-> pair[1], grantee |-> pair[2], class |-> class,
                   terms |-> terms, issued |-> terms, parent |-> h]
  <2>1. /\ r \in GrantRecord /\ r.state = "ACTIVE" /\ r.issued = r.terms /\ r.parent = h
        /\ r.terms = terms /\ r.grantor = pair[1] /\ r.class = class
    BY DEF GrantRecord, GrantState
  <2>2. grant[g].state = "NONE" /\ grant' = [grant EXCEPT ![g] = r]
    BY <1>2 DEF DelegateGrant
  <2>3. grant[h].state # "NONE" /\ grant[h].grantee = pair[1] /\ grant[h].class = class
    BY <1>2 DEF DelegateGrant, HeldParent
  <2>4. Within(terms, grant[h].terms) /\ terms.depth <= grant[h].terms.depth - 1
    BY <1>2 DEF DelegateGrant, DelegationBounded
  <2>5. terms.depth \in Nat /\ grant[h].terms.depth \in Nat
    BY DEF GrantInvariant, GrantRecord, Terms
  <2>6. terms.depth < grant[h].terms.depth
    BY <2>4, <2>5
  <2> HIDE DEF r
  <2> QED
    BY <2>1, <2>2, <2>3, <2>4, <2>6, GrantCreation
<1>3. ASSUME SuspendGrant(g) \/ ResumeGrant(g) \/ RevokeGrant(g) PROVE GrantInvariant'
  BY <1>3, GrantTransitionKeeps DEF SuspendGrant, ResumeGrant, RevokeGrant, Live, GrantState
<1>4. ASSUME NEW terms \in TermSheets, AmendGrant(g, terms) PROVE GrantInvariant'
  <2>1. grant[g] \in GrantRecord /\ grant[g].state \in GrantState
    BY <1>4 DEF GrantInvariant, AmendGrant, Live, GrantState
  <2>2. grant' = [grant EXCEPT ![g].state = grant[g].state, ![g].terms = terms]
    BY <1>4, <2>1 DEF AmendGrant, GrantInvariant, GrantRecord
  <2>3. Within(terms, grant[g].terms) /\ terms.depth <= grant[g].terms.depth
    BY <1>4 DEF AmendGrant
  <2> QED
    BY <2>1, <2>2, <2>3, GrantChange DEF GrantState
<1> QED
  BY <1>1, <1>2, <1>3, <1>4 DEF GrantStep

-----------------------------------------------------------------------------
(* The other records, and retirement. *)

\* The key invariant reads nothing but the keys.
LEMMA KeysUnchanged ==
    ASSUME KeyInvariant, UNCHANGED key
    PROVE  KeyInvariant'
BY DEF KeyInvariant, PredecessorsExist, RotationKeepsProtection

\* The grant invariant reads nothing but the grants.
LEMMA GrantsUnchanged ==
    ASSUME GrantInvariant, UNCHANGED grant
    PROVE  GrantInvariant'
BY DEF GrantInvariant, ParentsFit, ParentFits, DelegationNarrows, Within

\* What a step of a credential does to the records: every credential that is
\* ACTIVE after it belongs to a principal that is active or had one before.
LEMMA CredentialActions ==
    ASSUME CredentialTypeOK, events \subseteq AuthenticationEvent, NEW c \in Credentials,
           CredentialStep(c)
    PROVE  /\ CredentialTypeOK' /\ (events \subseteq AuthenticationEvent)'
           /\ UNCHANGED <<principal, key>>
           /\ \A d \in Credentials : credential'[d].state = "ACTIVE" =>
                 \/ Active(credential'[d].of)
                 \/ \E b \in Credentials : credential[b].state = "ACTIVE" /\ credential[b].of = credential'[d].of
<1> USE WindowsAssumption
<1>1. ASSUME NEW request \in CredentialRequests, NEW k \in Keys \cup {None}, NEW w \in Windows,
             NEW at \in Instants, IssueCredential(c, request, k, w, at)
      PROVE  /\ CredentialTypeOK' /\ UNCHANGED <<principal, key, events>>
             /\ \A d \in Credentials : credential'[d].state = "ACTIVE" =>
                   \/ Active(credential'[d].of)
                   \/ \E b \in Credentials : credential[b].state = "ACTIVE" /\ credential[b].of = credential'[d].of
  <2> DEFINE r == [NoCredential EXCEPT !.state = "ACTIVE", !.of = request.of, !.kind = request.kind,
                                       !.bound = k, !.window = w]
  <2>1. r \in CredentialRecord /\ r.of = request.of /\ request.of \in Principals
    BY CredentialRequestsAssumption
       DEF NoCredential, CredentialRecord, CredentialState, KeyState, CredentialKind
  <2>2. credential' = [credential EXCEPT ![c] = r] /\ Active(request.of) /\ UNCHANGED <<principal, key, events>>
    BY <1>1 DEF IssueCredential
  <2> HIDE DEF r
  <2> QED
    BY <2>1, <2>2 DEF CredentialTypeOK
<1>2. ASSUME NEW s \in Credentials, NEW k \in Keys \cup {None}, NEW w \in Windows,
             NEW at \in Instants, RotateCredential(c, s, k, w, at)
      PROVE  /\ CredentialTypeOK' /\ UNCHANGED <<principal, key, events>>
             /\ \A d \in Credentials : credential'[d].state = "ACTIVE" =>
                   \E b \in Credentials : credential[b].state = "ACTIVE" /\ credential[b].of = credential'[d].of
  <2> DEFINE r == [credential[c] EXCEPT !.bound = k, !.window = w, !.predecessor = c]
             q == [credential[c] EXCEPT !.state = "ROTATED", !.successor = s]
  <2>1. /\ credential[c] \in CredentialRecord /\ credential[c].state = "ACTIVE" /\ c # s
        /\ credential[c].of \in Principals
    BY <1>2 DEF CredentialTypeOK, RotateCredential
  <2>2. /\ r \in CredentialRecord /\ r.of = credential[c].of
        /\ q \in CredentialRecord /\ q.state = "ROTATED" /\ q.of = credential[c].of
    BY <2>1 DEF CredentialRecord, CredentialState, KeyState
  <2>3. credential' = [credential EXCEPT ![s] = r, ![c].state = "ROTATED", ![c].successor = s]
    BY <1>2 DEF RotateCredential
  <2>4. UNCHANGED <<principal, key, events>>
    BY <1>2 DEF RotateCredential
  <2>5. credential' = [credential EXCEPT ![s] = r, ![c] = q]
    BY <2>1, <2>3 DEF CredentialTypeOK, CredentialRecord
  <2> HIDE DEF r, q
  <2> QED
    BY <2>1, <2>2, <2>4, <2>5 DEF CredentialTypeOK
<1>3. ASSUME RevokeCredential(c)
      PROVE  /\ CredentialTypeOK' /\ UNCHANGED <<principal, key, events>>
             /\ \A d \in Credentials : credential'[d].state = "ACTIVE" =>
                   \E b \in Credentials : credential[b].state = "ACTIVE" /\ credential[b].of = credential'[d].of
  <2> DEFINE q == [credential[c] EXCEPT !.state = "REVOKED"]
  <2>1. credential[c] \in CredentialRecord /\ credential[c].of \in Principals
    BY <1>3 DEF CredentialTypeOK, RevokeCredential
  <2>2. q \in CredentialRecord /\ q.state = "REVOKED" /\ q.of = credential[c].of
    BY <2>1 DEF CredentialRecord, CredentialState, KeyState
  <2>3. credential' = [credential EXCEPT ![c] = q] /\ UNCHANGED <<principal, key, events>>
    BY <1>3 DEF RevokeCredential
  <2> HIDE DEF q
  <2> QED
    BY <2>1, <2>2, <2>3 DEF CredentialTypeOK
<1>4. ASSUME NEW secret \in Keys \cup Credentials, NEW nonce \in Nonces, NEW at \in Instants,
             Authenticate(c, secret, nonce, at)
      PROVE  /\ CredentialTypeOK' /\ (events \subseteq AuthenticationEvent)'
             /\ UNCHANGED <<principal, key, credential>>
  BY <1>4 DEF Authenticate, AuthenticationEvent, CredentialTypeOK
<1> QED
  BY <1>1, <1>2, <1>3, <1>4 DEF CredentialStep

\* A command of the mandate family keeps the mandates well typed and touches no
\* other record.
LEMMA MandateActions ==
    ASSUME mandate \in [Mandates -> MandateRecord], NEW m \in Mandates, MandateStep(m)
    PROVE  (mandate \in [Mandates -> MandateRecord])' /\ UNCHANGED <<identityVars, grant>>
<1> USE TermsAssumption, PairsAssumption
<1>1. mandate[m] \in MandateRecord
  OBVIOUS
<1>2. ASSUME NEW r \in MandateRecord, mandate' = [mandate EXCEPT ![m] = r]
      PROVE  (mandate \in [Mandates -> MandateRecord])'
  BY <1>2
<1>3. ASSUME NEW pair \in Pairs, NEW terms \in TermSheets, CreateMandate(m, pair[1], pair[2], terms)
      PROVE  (mandate \in [Mandates -> MandateRecord])'
  BY <1>2, <1>3 DEF CreateMandate, MandateRecord, MandateState
<1>4. ASSUME NEW from, NEW to \in MandateState, MandateTransition(m, from, to)
      PROVE  (mandate \in [Mandates -> MandateRecord])' /\ UNCHANGED <<identityVars, grant>>
  <2>1. [mandate[m] EXCEPT !.state = to] \in MandateRecord
    BY <1>1 DEF MandateRecord
  <2>2. mandate' = [mandate EXCEPT ![m] = [mandate[m] EXCEPT !.state = to]]
    BY <1>4 DEF MandateTransition
  <2> QED
    BY <1>2, <1>4, <2>1, <2>2 DEF MandateTransition
<1>5. ASSUME NEW terms \in TermSheets, AmendMandate(m, terms)
      PROVE  (mandate \in [Mandates -> MandateRecord])'
  <2>1. [mandate[m] EXCEPT !.terms = terms] \in MandateRecord
    BY <1>1 DEF MandateRecord
  <2>2. mandate' = [mandate EXCEPT ![m] = [mandate[m] EXCEPT !.terms = terms]]
    BY <1>5 DEF AmendMandate
  <2> QED
    BY <1>2, <2>1, <2>2
<1>6. ASSUME ActivateMandate(m) \/ SuspendMandate(m) \/ ResumeMandate(m) \/ RevokeMandate(m)
      PROVE  (mandate \in [Mandates -> MandateRecord])' /\ UNCHANGED <<identityVars, grant>>
  BY <1>4, <1>6 DEF ActivateMandate, SuspendMandate, ResumeMandate, RevokeMandate, MandateState
<1> QED
  BY <1>3, <1>5, <1>6 DEF MandateStep, CreateMandate, AmendMandate

\* A grant that is live after a step of a grant was live before, or its parties
\* are active.
LEMMA LiveGrants ==
    ASSUME GrantInvariant, NEW g \in Grants, GrantStep(g)
    PROVE  /\ UNCHANGED <<identityVars, mandate>>
           /\ \A h \in Grants : grant'[h].state \in Live =>
                 \/ /\ grant[h].state \in Live
                    /\ grant'[h].grantor = grant[h].grantor /\ grant'[h].grantee = grant[h].grantee
                 \/ Active(grant'[h].grantor) /\ Active(grant'[h].grantee)
<1>1. grant[g] \in GrantRecord
  BY DEF GrantInvariant
<1>2. ASSUME NEW pair \in Pairs, NEW class \in Classes, NEW terms \in TermSheets,
             NEW h \in Grants, NEW at \in Instants,
             \/ IssueRootGrant(g, pair[1], pair[2], class, terms)
             \/ DelegateGrant(g, pair[1], pair[2], class, terms, h, at)
      PROVE  /\ UNCHANGED <<identityVars, mandate>>
             /\ \A d \in Grants \ {g} : grant'[d] = grant[d]
             /\ Active(grant'[g].grantor) /\ Active(grant'[g].grantee)
  BY <1>2 DEF IssueRootGrant, DelegateGrant, GrantInvariant
<1>3. ASSUME NEW pair \in Pairs, NEW class \in Classes, NEW terms \in TermSheets,
             IssueRootGrant(g, pair[1], pair[2], class, terms)
      PROVE  /\ UNCHANGED <<identityVars, mandate>>
             /\ \A d \in Grants \ {g} : grant'[d] = grant[d]
             /\ Active(grant'[g].grantor) /\ Active(grant'[g].grantee)
  BY <1>3 DEF IssueRootGrant, GrantInvariant
<1>4. ASSUME NEW from, from \subseteq Live, NEW to, GrantTransition(g, from, to)
      PROVE  /\ UNCHANGED <<identityVars, mandate>>
             /\ \A d \in Grants \ {g} : grant'[d] = grant[d]
             /\ grant[g].state \in Live
             /\ grant'[g].grantor = grant[g].grantor /\ grant'[g].grantee = grant[g].grantee
  BY <1>1, <1>4 DEF GrantTransition, GrantInvariant, GrantRecord
<1>5. ASSUME SuspendGrant(g) \/ ResumeGrant(g) \/ RevokeGrant(g)
      PROVE  /\ UNCHANGED <<identityVars, mandate>>
             /\ \A d \in Grants \ {g} : grant'[d] = grant[d]
             /\ grant[g].state \in Live
             /\ grant'[g].grantor = grant[g].grantor /\ grant'[g].grantee = grant[g].grantee
  <2>1. {"ACTIVE"} \subseteq Live /\ {"SUSPENDED"} \subseteq Live
    BY DEF Live
  <2> QED
    BY <1>4, <1>5, <2>1 DEF SuspendGrant, ResumeGrant, RevokeGrant
<1>6. ASSUME NEW terms \in TermSheets, AmendGrant(g, terms)
      PROVE  /\ UNCHANGED <<identityVars, mandate>>
             /\ \A d \in Grants \ {g} : grant'[d] = grant[d]
             /\ grant[g].state \in Live
             /\ grant'[g].grantor = grant[g].grantor /\ grant'[g].grantee = grant[g].grantee
  BY <1>1, <1>6 DEF AmendGrant, GrantInvariant, GrantRecord
<1> QED
  BY <1>2, <1>3, <1>5, <1>6 DEF GrantStep

-----------------------------------------------------------------------------

\* Every record has its type, every link names a record that exists, and the
\* three properties below hold in every reachable state.
THEOREM TrustInvariantHolds == TrustSpec => []TrustInvariant
<1>1. TrustInit => TrustInvariant
  <2> SUFFICES ASSUME TrustInit PROVE TrustInvariant
    OBVIOUS
  <2> USE NoneAssumption DEF TrustInit, IdentityInit
  <2>1. NoKey \in KeyRecord /\ NoKey.predecessor = None
    BY DEF NoKey, KeyRecord, KeyPurpose
  <2>2. NoCredential \in CredentialRecord /\ NoCredential.state = "NONE" /\ NoCredential.of = None
    BY DEF NoCredential, CredentialRecord, CredentialKind
  <2>3. /\ NoGrant \in GrantRecord /\ NoGrant.parent = None /\ NoGrant.terms = NoTerms
        /\ NoGrant.issued = NoTerms /\ NoGrant.state = "NONE"
    BY DEF NoGrant, GrantRecord, NoTerms, Terms
  <2>4. NoMandate \in MandateRecord
    BY DEF NoMandate, MandateRecord, NoTerms, Terms
  <2>5. Within(NoTerms, NoTerms) /\ NoTerms.depth <= NoTerms.depth
    BY DEF Within, NoTerms
  <2>6. TrustTypeOK
    BY <2>1, <2>2, <2>3, <2>4 DEF TrustTypeOK, IdentityTypeOK
  <2>7. KeyInvariant
    BY <2>1 DEF KeyInvariant, PredecessorsExist, RotationKeepsProtection
  <2>8. GrantInvariant
    BY <2>3, <2>5 DEF GrantInvariant, ParentsFit, DelegationNarrows
  <2>9. CredentialTypeOK
    BY <2>2 DEF CredentialTypeOK
  <2>10. RetiredHoldNoAuthority
    BY DEF RetiredHoldNoAuthority
  <2> QED
    BY <2>6, <2>7, <2>8, <2>9, <2>10 DEF TrustInvariant
<1>2. TrustInvariant /\ [TrustNext]_trustVars => TrustInvariant'
  <2> SUFFICES ASSUME TrustInvariant, [TrustNext]_trustVars PROVE TrustInvariant'
    OBVIOUS
  <2> USE DEF TrustInvariant
  <2>1. ASSUME NEW p \in Principals, PrincipalStep(p) \/ RetirePrincipal(p),
               UNCHANGED <<grant, mandate>>
        PROVE  TrustInvariant'
    <3>1. UNCHANGED <<key, credential, events>>
      BY <2>1 DEF PrincipalStep, CreatePrincipal, SuspendPrincipal, ReinstatePrincipal,
                  RetirePrincipal, PrincipalTransition
    <3>2. (principal \in [Principals -> PrincipalState \cup {"NONE"}])'
      BY <2>1 DEF TrustTypeOK, IdentityTypeOK, PrincipalState, PrincipalStep, CreatePrincipal,
                  SuspendPrincipal, ReinstatePrincipal, RetirePrincipal, PrincipalTransition
    <3>3. \A q \in Principals :
             principal'[q] = "RETIRED" => principal[q] = "RETIRED" \/ NoDependents(q)
      BY <2>1 DEF TrustTypeOK, IdentityTypeOK, PrincipalStep, CreatePrincipal,
                  SuspendPrincipal, ReinstatePrincipal, RetirePrincipal, PrincipalTransition
    <3>4. RetiredHoldNoAuthority'
      BY <2>1, <3>1, <3>3 DEF RetiredHoldNoAuthority, NoDependents
    <3>5. TrustTypeOK' /\ CredentialTypeOK'
      BY <2>1, <3>1, <3>2 DEF TrustTypeOK, IdentityTypeOK, CredentialTypeOK
    <3> QED
      BY <2>1, <3>1, <3>4, <3>5, KeysUnchanged, GrantsUnchanged
  <2>2. ASSUME NEW k \in Keys, KeyStep(k), UNCHANGED <<grant, mandate>> PROVE TrustInvariant'
    <3>1. UNCHANGED <<principal, credential, events>>
      BY <2>2 DEF KeyStep, RegisterKey, RotateKey, RevokeKey
    <3>2. KeyInvariant'
      BY <2>2, KeyActions
    <3>3. TrustTypeOK' /\ CredentialTypeOK'
      BY <2>2, <3>1, <3>2 DEF TrustTypeOK, IdentityTypeOK, CredentialTypeOK, KeyInvariant
    <3>4. RetiredHoldNoAuthority'
      BY <2>2, <3>1 DEF RetiredHoldNoAuthority
    <3> QED
      BY <2>2, <3>2, <3>3, <3>4, GrantsUnchanged
  <2>3. ASSUME NEW c \in Credentials, CredentialStep(c), UNCHANGED <<grant, mandate>>
        PROVE  TrustInvariant'
    <3>1. /\ CredentialTypeOK' /\ (events \subseteq AuthenticationEvent)'
          /\ UNCHANGED <<principal, key>>
          /\ \A d \in Credentials : credential'[d].state = "ACTIVE" =>
                \/ Active(credential'[d].of)
                \/ \E b \in Credentials :
                      credential[b].state = "ACTIVE" /\ credential[b].of = credential'[d].of
      BY <2>3, CredentialActions DEF TrustTypeOK, IdentityTypeOK
    <3>2. TrustTypeOK'
      BY <2>3, <3>1 DEF TrustTypeOK, IdentityTypeOK, CredentialTypeOK
    <3>3. RetiredHoldNoAuthority'
      BY <2>3, <3>1 DEF RetiredHoldNoAuthority, Active
    <3> QED
      BY <2>3, <3>1, <3>2, <3>3, KeysUnchanged, GrantsUnchanged
  <2>4. ASSUME NEW g \in Grants, GrantStep(g) PROVE TrustInvariant'
    <3>1. GrantInvariant'
      BY <2>4, GrantActions
    <3>2. /\ UNCHANGED <<identityVars, mandate>>
          /\ \A h \in Grants : grant'[h].state \in Live =>
                \/ /\ grant[h].state \in Live
                   /\ grant'[h].grantor = grant[h].grantor /\ grant'[h].grantee = grant[h].grantee
                \/ Active(grant'[h].grantor) /\ Active(grant'[h].grantee)
      BY <2>4, LiveGrants
    <3>3. UNCHANGED <<principal, key, credential, events, mandate>>
      BY <3>2 DEF identityVars
    <3>4. TrustTypeOK' /\ CredentialTypeOK'
      BY <3>1, <3>3 DEF TrustTypeOK, IdentityTypeOK, CredentialTypeOK, GrantInvariant
    <3>5. RetiredHoldNoAuthority'
      BY <3>2, <3>3 DEF RetiredHoldNoAuthority, Active
    <3> QED
      BY <3>1, <3>3, <3>4, <3>5, KeysUnchanged
  <2>5. ASSUME NEW m \in Mandates, MandateStep(m) PROVE TrustInvariant'
    <3>1. (mandate \in [Mandates -> MandateRecord])' /\ UNCHANGED <<identityVars, grant>>
      BY <2>5, MandateActions DEF TrustTypeOK
    <3>2. UNCHANGED <<principal, key, credential, events, grant>>
      BY <3>1 DEF identityVars
    <3>3. TrustTypeOK' /\ CredentialTypeOK' /\ RetiredHoldNoAuthority'
      BY <3>1, <3>2 DEF TrustTypeOK, IdentityTypeOK, CredentialTypeOK, RetiredHoldNoAuthority
    <3> QED
      BY <3>2, <3>3, KeysUnchanged, GrantsUnchanged
  <2>6. ASSUME UNCHANGED trustVars PROVE TrustInvariant'
    <3>1. UNCHANGED <<principal, key, credential, events, grant, mandate>>
      BY <2>6 DEF trustVars
    <3>2. TrustTypeOK' /\ CredentialTypeOK' /\ RetiredHoldNoAuthority'
      BY <3>1 DEF TrustTypeOK, IdentityTypeOK, CredentialTypeOK, RetiredHoldNoAuthority
    <3> QED
      BY <3>1, <3>2, KeysUnchanged, GrantsUnchanged
  <2>7. \A p \in Principals : RetirePrincipal(p) => UNCHANGED <<grant, mandate>>
    BY DEF RetirePrincipal
  <2> QED
    BY <2>1, <2>2, <2>3, <2>4, <2>5, <2>6, <2>7 DEF TrustNext, IdentityStep
<1> QED
  BY <1>1, <1>2, PTL DEF TrustSpec

\* Delegation narrows at every link of every chain, the depth strictly, through
\* any sequence of delegations, amendments and revocations: a chain is finite
\* and as long at most as its root was issued to allow.
THEOREM DelegationAlwaysNarrows == TrustSpec => []DelegationNarrows
<1>1. TrustInvariant => DelegationNarrows
  BY DEF TrustInvariant, GrantInvariant
<1> QED
  BY <1>1, TrustInvariantHolds, PTL

\* After retire_principal no grant of the principal, held or given, is ever live
\* again, and none of its credentials ever ACTIVE.
THEOREM RetiredNeverAuthorized == TrustSpec => []RetiredHoldNoAuthority
<1>1. TrustInvariant => RetiredHoldNoAuthority
  BY DEF TrustInvariant
<1> QED
  BY <1>1, TrustInvariantHolds, PTL

\* No sequence of rotations takes the threshold policy, the recovery key or the
\* owner away from a key, or widens its window.
THEOREM RotationNeverSheds == TrustSpec => []RotationKeepsProtection
<1>1. TrustInvariant => RotationKeepsProtection
  BY DEF TrustInvariant, KeyInvariant
<1> QED
  BY <1>1, TrustInvariantHolds, PTL

-----------------------------------------------------------------------------
(* The chain above a grant. *)

\* The parent links lead from a grant to itself and on to the parent of every
\* grant they reach, and nowhere else.
LEMMA ChainClosed ==
    ASSUME GrantInvariant, NEW g \in Grants
    PROVE  /\ g \in Chain(g) /\ Chain(g) \subseteq Grants
           /\ \A h \in Chain(g) : grant[h].parent # None => grant[h].parent \in Chain(g)
<1>1. g \in Chain(g) /\ Chain(g) \subseteq Grants
  BY DEF Chain
<1>2. ASSUME NEW h \in Chain(g), grant[h].parent # None
      PROVE  grant[h].parent \in Chain(g)
  <2>1. h \in Grants /\ grant[h].parent \in Grants
    BY <1>1, <1>2 DEF GrantInvariant, GrantRecord
  <2>2. ASSUME NEW C \in SUBSET Grants, g \in C,
               \A x \in C : grant[x].parent # None => grant[x].parent \in C
        PROVE  grant[h].parent \in C
    <3>1. h \in C
      BY <2>2 DEF Chain
    <3> QED
      BY <1>2, <2>2, <3>1
  <2> QED
    BY <2>1, <2>2 DEF Chain
<1> QED
  BY <1>1, <1>2

\* A chain is the least set with its first grant that is closed under parents.
LEMMA ChainLeast ==
    ASSUME NEW g \in Grants, NEW C \in SUBSET Grants, g \in C,
           \A x \in C : grant[x].parent # None => grant[x].parent \in C
    PROVE  Chain(g) \subseteq C
BY DEF Chain

\* The grants that were issued with more depth: fewer of them at each step up a
\* chain, so the steps end.
Above(h) == {x \in Grants : grant[x].issued.depth > grant[h].issued.depth}

\* No chain comes back to a grant it has been through: it reaches a ROOT grant.
LEMMA ChainEnds ==
    ASSUME GrantInvariant, NEW g \in Grants
    PROVE  \E h \in Chain(g) : grant[h].parent = None
<1> DEFINE T == {Above(h) : h \in Chain(g)}
           R == StrictSubsetOrdering(Grants)
<1>1. Chain(g) \subseteq Grants /\ Above(g) \in T
  BY ChainClosed
<1>2. T \subseteq SUBSET Grants /\ T # {}
  BY <1>1 DEF Above
<1>3. IsWellFoundedOn(R, SUBSET Grants)
  BY GrantsAssumption, FS_StrictSubsetOrderingWellFounded, FS_FiniteSubsetsOfFinite
<1> HIDE DEF R
<1>4. PICK x \in T : \A y \in T : <<y, x>> \notin R
  BY <1>2, <1>3, WFMin
<1>5. PICK h \in Chain(g) : x = Above(h)
  OBVIOUS
<1>6. ASSUME grant[h].parent # None PROVE FALSE
  <2> DEFINE p == grant[h].parent
  <2>1. p \in Chain(g) /\ p \in Grants /\ h \in Grants
    BY <1>1, <1>6, ChainClosed
  <2>2. grant[h].issued.depth < grant[p].issued.depth
    BY <1>6, <2>1 DEF GrantInvariant, DelegationNarrows
  <2>3. \A d \in Grants : grant[d].issued.depth \in Nat
    BY DEF GrantInvariant, GrantRecord, Terms
  <2> HIDE DEF p
  <2>4. Above(p) \subseteq Above(h)
    BY <2>1, <2>2, <2>3 DEF Above
  <2>5. p \in Above(h) /\ p \notin Above(p)
    BY <2>1, <2>2, <2>3 DEF Above
  <2>6. Above(p) \in SUBSET Grants /\ Above(h) \in SUBSET Grants
    BY DEF Above
  <2>7. <<Above(p), Above(h)>> \in R
    BY <2>4, <2>5, <2>6 DEF R, StrictSubsetOrdering
  <2>8. Above(p) \in T
    BY <2>1
  <2> QED
    BY <1>4, <1>5, <2>7, <2>8
<1> QED
  BY <1>6

\* Every chain has a root and fits link by link.
LEMMA ChainsFit ==
    ASSUME GrantInvariant, NEW g \in Grants
    PROVE  ChainFits(g)
BY ChainClosed, ChainEnds DEF ChainFits, GrantInvariant, ParentsFit

\* Every allowed request is covered by a ROOT grant of each class it needs that
\* is ACTIVE at the decision and whose present terms cover it.  The links of a
\* chain are of one class, so its root is of the class that was asked for.
THEOREM AuthorityComesFromRoots == TrustSpec => []AllowedUnderRoot
<1>1. TrustInvariant => AllowedUnderRoot
  <2> SUFFICES ASSUME TrustInvariant, NEW request \in Requests, NEW e \in events,
                      Allowed(request, e), NEW class \in request.classes
               PROVE  \E r \in Grants : /\ grant[r].parent = None
                                        /\ grant[r].class = class
                                        /\ LinkHolds(r, request)
    BY DEF AllowedUnderRoot
  <2>1. GrantInvariant
    BY DEF TrustInvariant
  <2>2. PICK g \in Grants : grant[g].class = class /\ ChainHolds(g, request)
    BY DEF Allowed, ClassHeld
  <2> DEFINE C == {h \in Chain(g) : grant[h].class = class}
  <2>3. C \in SUBSET Grants /\ g \in C
    BY <2>1, <2>2, ChainClosed
  <2>4. ASSUME NEW h \in C, grant[h].parent # None PROVE grant[h].parent \in C
    <3>1. grant[h].parent \in Chain(g) /\ ParentFits(h)
      BY <2>1, <2>3, <2>4, ChainClosed DEF GrantInvariant, ParentsFit
    <3> QED
      BY <3>1 DEF ParentFits
  <2>5. Chain(g) \subseteq C
    BY <2>3, <2>4, ChainLeast
  <2>6. PICK r \in Chain(g) : grant[r].parent = None
    BY <2>2 DEF ChainHolds, ChainFits
  <2>7. r \in Grants /\ grant[r].class = class /\ LinkHolds(r, request)
    BY <2>2, <2>3, <2>5, <2>6 DEF ChainHolds
  <2> QED
    BY <2>6, <2>7
<1> QED
  BY <1>1, TrustInvariantHolds, PTL

-----------------------------------------------------------------------------
(* Loading. *)

\* A record that exists names principals that were created and records of its
\* own kind that exist; a record that does not exist is blank.
KeyLinked(r) ==
    /\ r.state # "NONE" /\ Known(r.owner)
    /\ r.recovery # None => key[r.recovery].state # "NONE" /\ key[r.recovery].purpose = "RECOVERY"
    /\ r.successor # None => key[r.successor].state # "NONE"
    /\ r.predecessor # None => key[r.predecessor].state # "NONE"
CredentialLinked(r) ==
    /\ r.state # "NONE" /\ Known(r.of)
    /\ r.successor # None => credential[r.successor].state # "NONE"
    /\ r.predecessor # None => credential[r.predecessor].state # "NONE"
GrantLinked(r) == r.state # "NONE" /\ Known(r.grantor) /\ Known(r.grantee)
MandateLinked(r) == r.state # "NONE" /\ Known(r.mandator) /\ Known(r.mandatary)

LinksLoad ==
    /\ \A k \in Keys : key[k] = NoKey \/ KeyLinked(key[k])
    /\ \A c \in Credentials : credential[c] = NoCredential \/ CredentialLinked(credential[c])
    /\ \A g \in Grants : grant[g] = NoGrant \/ GrantLinked(grant[g])
    /\ \A m \in Mandates : mandate[m] = NoMandate \/ MandateLinked(mandate[m])
    /\ \A e \in events : Known(e.by) /\ credential[e.with].state # "NONE"

\* A blank record has no state, so no link of another record names it.
LEMMA BlankRecords ==
    /\ NoKey.state = "NONE" /\ NoCredential.state = "NONE"
    /\ NoGrant.state = "NONE" /\ NoMandate.state = "NONE"
BY DEF NoKey, NoCredential, NoGrant, NoMandate

\* A key never stops to exist and never changes its purpose; a key that a step
\* writes has its owner and its links in order.
LEMMA KeyLinks ==
    ASSUME TrustInvariant, LinksLoad, NEW k \in Keys, KeyStep(k)
    PROVE  /\ \A j \in Keys : key'[j] = NoKey \/ KeyLinked(key[j])'
           /\ UNCHANGED <<principal, credential, events>>
<1> USE NoneAssumption, BlankRecords
<1>1. UNCHANGED <<principal, credential, events>>
  BY DEF KeyStep, RegisterKey, RotateKey, RevokeKey
<1>2. key \in [Keys -> KeyRecord]
  BY DEF TrustInvariant, TrustTypeOK, IdentityTypeOK
<1>3. \A j \in Keys : /\ key[j].recovery \in Keys \cup {None}
                      /\ key[j].successor \in Keys \cup {None}
                      /\ key[j].predecessor \in Keys \cup {None}
  BY <1>2 DEF KeyRecord
<1>4. \A j \in Keys : key[j] = NoKey \/ KeyLinked(key[j])
  BY DEF LinksLoad
\* What every step has to show: old keys stay, and the keys it writes are linked.
<1>5. ASSUME \A j \in Keys : key[j].state # "NONE" =>
                 key'[j].state # "NONE" /\ key'[j].purpose = key[j].purpose,
             \A j \in Keys : key'[j] = key[j] \/ KeyLinked(key[j])'
      PROVE  \A j \in Keys : key'[j] = NoKey \/ KeyLinked(key[j])'
  <2> SUFFICES ASSUME NEW j \in Keys, key'[j] = key[j], key[j] # NoKey PROVE KeyLinked(key[j])'
    BY <1>5
  <2>1. KeyLinked(key[j]) /\ key'[j] = key[j]
    BY <1>4, <1>5
  <2> QED
    BY <2>1, <1>1, <1>3, <1>5 DEF KeyLinked, Known
<1>6. ASSUME NEW request \in KeyRequests, NEW w \in Windows, NEW r \in Keys \cup {None},
             RegisterKey(k, request, w, r)
      PROVE  \A j \in Keys : key'[j] = NoKey \/ KeyLinked(key[j])'
  <2>1. /\ key'[k].state = "ACTIVE" /\ key'[k].owner = request.owner /\ key'[k].recovery = r
        /\ key'[k].successor = None /\ key'[k].predecessor = None
        /\ \A j \in Keys \ {k} : key'[j] = key[j]
    BY <1>2, <1>6 DEF RegisterKey, NoKey
  <2>2. key[k].state = "NONE" /\ RecoveryFits(r) /\ Active(request.owner) /\ request.owner \in Principals
    BY <1>6, KeyRequestsAssumption DEF RegisterKey
  <2>3. KeyLinked(key[k])'
    BY <1>1, <2>1, <2>2 DEF KeyLinked, Known, RecoveryFits, Active
  <2> QED
    BY <1>5, <2>1, <2>2, <2>3
<1>7. ASSUME NEW s \in Keys, NEW w \in Windows, NEW at \in Instants,
             NEW approvals \in SUBSET Approvers, RotateKey(k, s, w, at, approvals)
      PROVE  \A j \in Keys : key'[j] = NoKey \/ KeyLinked(key[j])'
  <2>1. key[k].state # "NONE" /\ key[s].state = "NONE" /\ k # s /\ key[k] \in KeyRecord
    BY <1>2, <1>7 DEF RotateKey
  <2>2. /\ key'[s].state = "ACTIVE" /\ key'[s].owner = key[k].owner
        /\ key'[s].recovery = key[k].recovery
        /\ key'[s].successor = None /\ key'[s].predecessor = k
        /\ key'[k].state = "ROTATED" /\ key'[k].owner = key[k].owner
        /\ key'[k].recovery = key[k].recovery /\ key'[k].purpose = key[k].purpose
        /\ key'[k].successor = s /\ key'[k].predecessor = key[k].predecessor
        /\ \A j \in Keys \ {k, s} : key'[j] = key[j]
    BY <1>2, <1>7, <2>1 DEF RotateKey, Successor, KeyRecord
  <2>3. KeyLinked(key[k])
    BY <1>4, <2>1
  <2>4. \A j \in Keys : key[j].state # "NONE" =>
            key'[j].state # "NONE" /\ key'[j].purpose = key[j].purpose
    BY <2>1, <2>2
  <2>5. KeyLinked(key[k])' /\ KeyLinked(key[s])'
    BY <1>1, <1>3, <2>2, <2>3, <2>4 DEF KeyLinked, Known
  <2> QED
    BY <1>5, <2>2, <2>4, <2>5
<1>8. ASSUME RevokeKey(k)
      PROVE  \A j \in Keys : key'[j] = NoKey \/ KeyLinked(key[j])'
  <2>1. key[k].state # "NONE" /\ key[k] \in KeyRecord
    BY <1>2, <1>8 DEF RevokeKey
  <2>2. /\ key'[k].state = "REVOKED" /\ key'[k].owner = key[k].owner
        /\ key'[k].recovery = key[k].recovery /\ key'[k].purpose = key[k].purpose
        /\ key'[k].successor = key[k].successor /\ key'[k].predecessor = key[k].predecessor
        /\ \A j \in Keys \ {k} : key'[j] = key[j]
    BY <1>2, <1>8, <2>1 DEF RevokeKey, KeyRecord
  <2>3. KeyLinked(key[k])
    BY <1>4, <2>1
  <2>4. \A j \in Keys : key[j].state # "NONE" =>
            key'[j].state # "NONE" /\ key'[j].purpose = key[j].purpose
    BY <2>1, <2>2
  <2>5. KeyLinked(key[k])'
    BY <1>1, <1>3, <2>2, <2>3, <2>4 DEF KeyLinked, Known
  <2> QED
    BY <1>5, <2>2, <2>4, <2>5
<1> QED
  BY <1>1, <1>6, <1>7, <1>8 DEF KeyStep

\* The same for credentials and the events that name them.
LEMMA CredentialLinks ==
    ASSUME TrustInvariant, LinksLoad, NEW c \in Credentials, CredentialStep(c)
    PROVE  /\ \A d \in Credentials : credential'[d] = NoCredential \/ CredentialLinked(credential[d])'
           /\ \A e \in events' : Known(e.by)' /\ credential'[e.with].state # "NONE"
           /\ UNCHANGED <<principal, key>>
<1> USE NoneAssumption, BlankRecords
<1> DEFINE Goal == /\ \A d \in Credentials : credential'[d] = NoCredential \/ CredentialLinked(credential[d])'
                   /\ \A e \in events' : Known(e.by)' /\ credential'[e.with].state # "NONE"
<1>1. UNCHANGED <<principal, key>>
  BY DEF CredentialStep, IssueCredential, RotateCredential, RevokeCredential, Authenticate
<1>2. credential \in [Credentials -> CredentialRecord] /\ \A e \in events : e.with \in Credentials
  BY DEF TrustInvariant, TrustTypeOK, IdentityTypeOK, AuthenticationEvent
<1>3. \A d \in Credentials : /\ credential[d].successor \in Credentials \cup {None}
                             /\ credential[d].predecessor \in Credentials \cup {None}
  BY <1>2 DEF CredentialRecord
<1>4. \A d \in Credentials : credential[d] = NoCredential \/ CredentialLinked(credential[d])
  BY DEF LinksLoad
<1>5. \A e \in events : Known(e.by) /\ credential[e.with].state # "NONE"
  BY DEF LinksLoad
<1>6. ASSUME \A d \in Credentials : credential[d].state # "NONE" => credential'[d].state # "NONE",
             \A d \in Credentials : credential'[d] = credential[d] \/ CredentialLinked(credential[d])',
             UNCHANGED events
      PROVE  Goal
  <2>1. ASSUME NEW d \in Credentials, credential'[d] = credential[d], credential[d] # NoCredential
        PROVE  CredentialLinked(credential[d])'
    <3>1. CredentialLinked(credential[d]) /\ credential'[d] = credential[d]
      BY <1>4, <1>6, <2>1
    <3> QED
      BY <3>1, <1>1, <1>3, <1>6 DEF CredentialLinked, Known
  <2>2. ASSUME NEW e \in events' PROVE Known(e.by)' /\ credential'[e.with].state # "NONE"
    BY <1>1, <1>2, <1>5, <1>6 DEF Known
  <2> QED
    BY <1>6, <2>1, <2>2
<1>7. ASSUME NEW request \in CredentialRequests, NEW k \in Keys \cup {None}, NEW w \in Windows,
             NEW at \in Instants, IssueCredential(c, request, k, w, at)
      PROVE  Goal
  <2>1. /\ credential'[c].state = "ACTIVE" /\ credential'[c].of = request.of
        /\ credential'[c].successor = None /\ credential'[c].predecessor = None
        /\ \A d \in Credentials \ {c} : credential'[d] = credential[d]
        /\ UNCHANGED events
    BY <1>2, <1>7 DEF IssueCredential, NoCredential
  <2>2. credential[c].state = "NONE" /\ Active(request.of) /\ request.of \in Principals
    BY <1>7, CredentialRequestsAssumption DEF IssueCredential
  <2>3. CredentialLinked(credential[c])'
    BY <1>1, <2>1, <2>2 DEF CredentialLinked, Known, Active
  <2> HIDE DEF Goal
  <2> QED
    BY <1>6, <2>1, <2>2, <2>3
<1>8. ASSUME NEW s \in Credentials, NEW k \in Keys \cup {None}, NEW w \in Windows,
             NEW at \in Instants, RotateCredential(c, s, k, w, at)
      PROVE  Goal
  <2>1. /\ credential[c].state # "NONE" /\ credential[c].state = "ACTIVE" /\ credential[s].state = "NONE"
        /\ c # s /\ credential[c] \in CredentialRecord
    BY <1>2, <1>8 DEF RotateCredential
  <2>2. /\ credential'[s].state = "ACTIVE" /\ credential'[s].of = credential[c].of
        /\ credential'[s].successor = credential[c].successor /\ credential'[s].predecessor = c
        /\ credential'[c].state = "ROTATED" /\ credential'[c].of = credential[c].of
        /\ credential'[c].successor = s /\ credential'[c].predecessor = credential[c].predecessor
        /\ \A d \in Credentials \ {c, s} : credential'[d] = credential[d]
        /\ UNCHANGED events
    BY <1>2, <1>8, <2>1 DEF RotateCredential, CredentialRecord
  <2>3. CredentialLinked(credential[c])
    BY <1>4, <2>1
  <2>4. \A d \in Credentials : credential[d].state # "NONE" => credential'[d].state # "NONE"
    BY <2>1, <2>2
  <2>5. CredentialLinked(credential[c])' /\ CredentialLinked(credential[s])'
    BY <1>1, <1>3, <2>2, <2>3, <2>4 DEF CredentialLinked, Known
  <2> HIDE DEF Goal
  <2> QED
    BY <1>6, <2>2, <2>4, <2>5
<1>9. ASSUME RevokeCredential(c) PROVE Goal
  <2>1. credential[c].state # "NONE" /\ credential[c] \in CredentialRecord
    BY <1>2, <1>9 DEF RevokeCredential
  <2>2. /\ credential'[c].state = "REVOKED" /\ credential'[c].of = credential[c].of
        /\ credential'[c].successor = credential[c].successor
        /\ credential'[c].predecessor = credential[c].predecessor
        /\ \A d \in Credentials \ {c} : credential'[d] = credential[d]
        /\ UNCHANGED events
    BY <1>2, <1>9, <2>1 DEF RevokeCredential, CredentialRecord
  <2>3. CredentialLinked(credential[c])
    BY <1>4, <2>1
  <2>4. \A d \in Credentials : credential[d].state # "NONE" => credential'[d].state # "NONE"
    BY <2>1, <2>2
  <2>5. CredentialLinked(credential[c])'
    BY <1>1, <1>3, <2>2, <2>3, <2>4 DEF CredentialLinked, Known
  <2> HIDE DEF Goal
  <2> QED
    BY <1>6, <2>2, <2>4, <2>5
<1>10. ASSUME NEW secret \in Keys \cup Credentials, NEW nonce \in Nonces, NEW at \in Instants,
              Authenticate(c, secret, nonce, at)
       PROVE  Goal
  <2>1. credential[c].state # "NONE" /\ UNCHANGED <<principal, key, credential>>
    BY <1>10 DEF Authenticate
  <2>2. PICK e \in events' : e.by = credential[c].of /\ e.with = c /\ events' = events \cup {e}
    BY <1>10 DEF Authenticate
  <2>3. CredentialLinked(credential[c])
    BY <1>4, <2>1
  <2>4. \A d \in Credentials : credential'[d] = NoCredential \/ CredentialLinked(credential[d])'
    BY <1>4, <2>1 DEF CredentialLinked, Known
  <2>5. \A f \in events' : Known(f.by)' /\ credential'[f.with].state # "NONE"
    BY <1>5, <2>1, <2>2, <2>3 DEF CredentialLinked, Known
  <2> QED
    BY <2>4, <2>5
<1> HIDE DEF Goal
<1>11. Goal
  BY <1>7, <1>8, <1>9, <1>10 DEF CredentialStep
<1> QED
  BY <1>1, <1>11 DEF Goal

\* After a grant command every grant's links still name records they may name.
LEMMA GrantLinks ==
    ASSUME TrustInvariant, LinksLoad, NEW g \in Grants, GrantStep(g)
    PROVE  \A h \in Grants : grant'[h] = NoGrant \/ GrantLinked(grant[h])'
<1> USE BlankRecords
<1>1. UNCHANGED <<principal, key, credential, events, mandate>>
  BY LiveGrants DEF TrustInvariant, identityVars
<1>2. grant \in [Grants -> GrantRecord] /\ \A h \in Grants : grant[h] = NoGrant \/ GrantLinked(grant[h])
  BY DEF TrustInvariant, TrustTypeOK, LinksLoad
<1>3. ASSUME \A h \in Grants \ {g} : grant'[h] = grant[h], GrantLinked(grant[g])'
      PROVE  \A h \in Grants : grant'[h] = NoGrant \/ GrantLinked(grant[h])'
  BY <1>1, <1>2, <1>3 DEF GrantLinked, Known
<1>4. ASSUME NEW pair \in Pairs, NEW class \in Classes, NEW terms \in TermSheets,
             \/ IssueRootGrant(g, pair[1], pair[2], class, terms)
             \/ \E h \in Grants, at \in Instants : DelegateGrant(g, pair[1], pair[2], class, terms, h, at)
      PROVE  \A h \in Grants : grant'[h] = NoGrant \/ GrantLinked(grant[h])'
  <2>1. /\ pair[1] \in Principals /\ pair[2] \in Principals /\ Active(pair[1]) /\ Active(pair[2])
        /\ grant'[g].state = "ACTIVE" /\ grant'[g].grantor = pair[1] /\ grant'[g].grantee = pair[2]
        /\ \A h \in Grants \ {g} : grant'[h] = grant[h]
    BY <1>2, <1>4, PairsAssumption DEF IssueRootGrant, DelegateGrant
  <2> QED
    BY <1>1, <1>3, <2>1 DEF GrantLinked, Known, Active
<1>5. ASSUME NEW from, NEW to \in GrantState, "NONE" \notin from, GrantTransition(g, from, to)
      PROVE  \A h \in Grants : grant'[h] = NoGrant \/ GrantLinked(grant[h])'
  <2>1. grant[g].state # "NONE" /\ grant[g] \in GrantRecord
    BY <1>2, <1>5 DEF GrantTransition
  <2>2. /\ grant'[g].state # "NONE" /\ grant'[g].grantor = grant[g].grantor
        /\ grant'[g].grantee = grant[g].grantee /\ \A h \in Grants \ {g} : grant'[h] = grant[h]
    BY <1>2, <1>5, <2>1 DEF GrantTransition, GrantRecord, GrantState
  <2> QED
    BY <1>1, <1>2, <1>3, <2>1, <2>2 DEF GrantLinked, Known
<1>6. ASSUME SuspendGrant(g) \/ ResumeGrant(g) \/ RevokeGrant(g)
      PROVE  \A h \in Grants : grant'[h] = NoGrant \/ GrantLinked(grant[h])'
  BY <1>5, <1>6 DEF SuspendGrant, ResumeGrant, RevokeGrant, GrantState, Live
<1>7. ASSUME NEW terms \in TermSheets, AmendGrant(g, terms)
      PROVE  \A h \in Grants : grant'[h] = NoGrant \/ GrantLinked(grant[h])'
  <2>1. grant[g].state # "NONE" /\ grant[g] \in GrantRecord
    BY <1>2, <1>7 DEF AmendGrant, Live
  <2>2. /\ grant'[g].state = grant[g].state /\ grant'[g].grantor = grant[g].grantor
        /\ grant'[g].grantee = grant[g].grantee /\ \A h \in Grants \ {g} : grant'[h] = grant[h]
    BY <1>2, <1>7, <2>1 DEF AmendGrant, GrantRecord
  <2> QED
    BY <1>1, <1>2, <1>3, <2>1, <2>2 DEF GrantLinked, Known
<1> QED
  BY <1>4, <1>6, <1>7 DEF GrantStep

\* After a mandate command every mandate's links still do.
LEMMA MandateLinks ==
    ASSUME TrustInvariant, LinksLoad, NEW m \in Mandates, MandateStep(m)
    PROVE  \A n \in Mandates : mandate'[n] = NoMandate \/ MandateLinked(mandate[n])'
<1> USE BlankRecords
<1>1. UNCHANGED <<principal, key, credential, events, grant>>
  BY MandateActions DEF TrustInvariant, TrustTypeOK, identityVars
<1>2. mandate \in [Mandates -> MandateRecord] /\ \A n \in Mandates : mandate[n] = NoMandate \/ MandateLinked(mandate[n])
  BY DEF TrustInvariant, TrustTypeOK, LinksLoad
<1>3. ASSUME \A n \in Mandates \ {m} : mandate'[n] = mandate[n], MandateLinked(mandate[m])'
      PROVE  \A n \in Mandates : mandate'[n] = NoMandate \/ MandateLinked(mandate[n])'
  BY <1>1, <1>2, <1>3 DEF MandateLinked, Known
<1>4. ASSUME NEW pair \in Pairs, NEW terms \in TermSheets, CreateMandate(m, pair[1], pair[2], terms)
      PROVE  \A n \in Mandates : mandate'[n] = NoMandate \/ MandateLinked(mandate[n])'
  <2>1. /\ pair[1] \in Principals /\ pair[2] \in Principals /\ Active(pair[1]) /\ Active(pair[2])
        /\ mandate'[m].state = "CREATED" /\ mandate'[m].mandator = pair[1] /\ mandate'[m].mandatary = pair[2]
        /\ \A n \in Mandates \ {m} : mandate'[n] = mandate[n]
    BY <1>2, <1>4, PairsAssumption DEF CreateMandate
  <2> QED
    BY <1>1, <1>3, <2>1 DEF MandateLinked, Known, Active
<1>5. ASSUME NEW from, NEW to \in MandateState, "NONE" \notin from, MandateTransition(m, from, to)
      PROVE  \A n \in Mandates : mandate'[n] = NoMandate \/ MandateLinked(mandate[n])'
  <2>1. mandate[m].state # "NONE" /\ mandate[m] \in MandateRecord
    BY <1>2, <1>5 DEF MandateTransition
  <2>2. /\ mandate'[m].state # "NONE" /\ mandate'[m].mandator = mandate[m].mandator
        /\ mandate'[m].mandatary = mandate[m].mandatary /\ \A n \in Mandates \ {m} : mandate'[n] = mandate[n]
    BY <1>2, <1>5, <2>1 DEF MandateTransition, MandateRecord, MandateState
  <2> QED
    BY <1>1, <1>2, <1>3, <2>1, <2>2 DEF MandateLinked, Known
<1>6. ASSUME ActivateMandate(m) \/ SuspendMandate(m) \/ ResumeMandate(m) \/ RevokeMandate(m)
      PROVE  \A n \in Mandates : mandate'[n] = NoMandate \/ MandateLinked(mandate[n])'
  BY <1>5, <1>6 DEF ActivateMandate, SuspendMandate, ResumeMandate, RevokeMandate, MandateState, Live
<1>7. ASSUME NEW terms \in TermSheets, AmendMandate(m, terms)
      PROVE  \A n \in Mandates : mandate'[n] = NoMandate \/ MandateLinked(mandate[n])'
  <2>1. mandate[m].state # "NONE" /\ mandate[m] \in MandateRecord
    BY <1>2, <1>7 DEF AmendMandate, Live
  <2>2. /\ mandate'[m].state = mandate[m].state /\ mandate'[m].mandator = mandate[m].mandator
        /\ mandate'[m].mandatary = mandate[m].mandatary /\ \A n \in Mandates \ {m} : mandate'[n] = mandate[n]
    BY <1>2, <1>7, <2>1 DEF AmendMandate, MandateRecord
  <2> QED
    BY <1>1, <1>2, <1>3, <2>1, <2>2 DEF MandateLinked, Known
<1> QED
  BY <1>4, <1>6, <1>7 DEF MandateStep

\* from_dict takes back every registry the commands can produce: whatever is
\* rotated, revoked, retired or amended, no link is left dangling and no chain
\* of grants runs into a circle.
THEOREM RegistryAlwaysLoads == TrustSpec => []PersistedStateLoads
<1>1. TrustInit => LinksLoad
  BY DEF TrustInit, IdentityInit, LinksLoad
<1>2. TrustInvariant /\ LinksLoad /\ [TrustNext]_trustVars => LinksLoad'
  <2> SUFFICES ASSUME TrustInvariant, LinksLoad, [TrustNext]_trustVars PROVE LinksLoad'
    OBVIOUS
  <2> USE DEF LinksLoad
  <2>1. ASSUME NEW p \in Principals, PrincipalStep(p) \/ RetirePrincipal(p),
               UNCHANGED <<grant, mandate>>
        PROVE  LinksLoad'
    <3>1. UNCHANGED <<key, credential, events>>
      BY <2>1 DEF PrincipalStep, CreatePrincipal, SuspendPrincipal, ReinstatePrincipal,
                  RetirePrincipal, PrincipalTransition
    <3>2. \A q \in Principals : principal[q] # "NONE" => principal'[q] # "NONE"
      BY <2>1 DEF TrustInvariant, TrustTypeOK, IdentityTypeOK, PrincipalStep, CreatePrincipal,
                  SuspendPrincipal, ReinstatePrincipal, RetirePrincipal, PrincipalTransition
    <3> QED
      BY <2>1, <3>1, <3>2 DEF KeyLinked, CredentialLinked, GrantLinked, MandateLinked, Known
  <2>2. ASSUME NEW k \in Keys, KeyStep(k), UNCHANGED <<grant, mandate>> PROVE LinksLoad'
    BY <2>2, KeyLinks DEF CredentialLinked, GrantLinked, MandateLinked, Known
  <2>3. ASSUME NEW c \in Credentials, CredentialStep(c), UNCHANGED <<grant, mandate>>
        PROVE  LinksLoad'
    BY <2>3, CredentialLinks DEF KeyLinked, GrantLinked, MandateLinked, Known
  <2>4. ASSUME NEW g \in Grants, GrantStep(g) PROVE LinksLoad'
    <3>1. UNCHANGED <<principal, key, credential, events, mandate>>
      BY <2>4, LiveGrants DEF TrustInvariant, identityVars
    <3> QED
      BY <2>4, <3>1, GrantLinks DEF KeyLinked, CredentialLinked, MandateLinked, Known
  <2>5. ASSUME NEW m \in Mandates, MandateStep(m) PROVE LinksLoad'
    <3>1. UNCHANGED <<principal, key, credential, events, grant>>
      BY <2>5, MandateActions DEF TrustInvariant, TrustTypeOK, identityVars
    <3> QED
      BY <2>5, <3>1, MandateLinks DEF KeyLinked, CredentialLinked, GrantLinked, Known
  <2>6. ASSUME UNCHANGED trustVars PROVE LinksLoad'
    BY <2>6 DEF trustVars, KeyLinked, CredentialLinked, GrantLinked, MandateLinked, Known
  <2>7. \A p \in Principals : RetirePrincipal(p) => UNCHANGED <<grant, mandate>>
    BY DEF RetirePrincipal
  <2> QED
    BY <2>1, <2>2, <2>3, <2>4, <2>5, <2>6, <2>7 DEF TrustNext, IdentityStep
<1>3. TrustInvariant /\ LinksLoad => PersistedStateLoads
  <2> SUFFICES ASSUME TrustInvariant, LinksLoad PROVE Loads
    BY DEF PersistedStateLoads
  <2> USE BlankRecords
  <2>1. ASSUME NEW c \in Credentials, credential[c] # NoCredential PROVE CredentialLoads(c)
    BY <2>1 DEF LinksLoad, CredentialLinked, CredentialLoads, Linked
  <2>2. ASSUME NEW k \in Keys, key[k] # NoKey PROVE KeyLoads(k)
    BY <2>2 DEF LinksLoad, KeyLinked, KeyLoads, Linked
  <2>3. ASSUME NEW g \in Grants, grant[g] # NoGrant
        PROVE  Known(grant[g].grantor) /\ Known(grant[g].grantee) /\ ChainFits(g)
    BY <2>3, ChainsFit DEF LinksLoad, GrantLinked, TrustInvariant
  <2>4. ASSUME NEW m \in Mandates, mandate[m] # NoMandate
        PROVE  Known(mandate[m].mandator) /\ Known(mandate[m].mandatary)
    BY <2>4 DEF LinksLoad, MandateLinked
  <2>5. \A e \in events : Known(e.by) /\ credential[e.with] # NoCredential
    BY DEF LinksLoad
  <2> QED
    BY <2>1, <2>2, <2>3, <2>4, <2>5 DEF Loads
<1> QED
  BY <1>1, <1>2, <1>3, TrustInvariantHolds, PTL DEF TrustSpec

=============================================================================
