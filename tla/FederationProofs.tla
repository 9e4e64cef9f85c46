--------------------------- MODULE FederationProofs ---------------------------
(***************************************************************************)
(* Acceptances are unique, are of the anchor's commitments and agree with  *)
(* each other, for every set of domains, keys and ids and whatever message *)
(* is presented to whom.  The inductive invariant FedInv adds to them what *)
(* an anchor's records say by themselves: its commitments are numbered 1   *)
(* to n and each signs a journal longer than those before it (Numbered).   *)
(* No handler removes or rewrites a commitment, so what an acceptance      *)
(* refers to stays there.                                                  *)
(***************************************************************************)
EXTENDS Federation, TLAPS

LOCAL INSTANCE FiniteSetsExt

Shapes ==
    /\ domain = [d \in Domains |-> domain[d]]
    /\ \A d \in Domains : domain[d] = Absent \/ domain[d] \in NetworkDomain
    /\ journal \in [Domains -> Nat]
    /\ commitments = [d \in Domains |-> commitments[d]]
    /\ messages = [d \in Domains |-> messages[d]]
    /\ acceptances = [d \in Domains |-> acceptances[d]]

\* A commitment carries its domain and id and signs a part of the journal.
Published(d, c) ==
    /\ commitments[d][c] \in StateCommitment
    /\ commitments[d][c].domain = d
    /\ commitments[d][c].id = c
    /\ commitments[d][c].digest < journal[d]

\* The numbering of one domain's commitments.
Numbered(d) ==
    /\ \E n \in Nat : Sequences(d) = 1..n
    /\ \A c, e \in DOMAIN commitments[d] :
          /\ commitments[d][c].sequence = commitments[d][e].sequence => c = e
          /\ commitments[d][c].sequence < commitments[d][e].sequence
                => commitments[d][c].digest < commitments[d][e].digest

FedInv ==
    /\ Shapes
    /\ \A d \in Domains : (\A c \in DOMAIN commitments[d] : Published(d, c)) /\ Numbered(d)
    /\ AcceptedFromAnchor
    /\ AcceptedOnce

USE DEF Absent

\* Adding a record under a fresh id of one domain changes nothing else.
LEMMA CreatedFacts ==
    ASSUME NEW F, F = [x \in Domains |-> F[x]], NEW d \in Domains, NEW i, NEW r,
           i \notin DOMAIN F[d], NEW G, G = Created(F, d, i, r)
    PROVE  /\ G = [x \in Domains |-> G[x]]
           /\ DOMAIN G[d] = DOMAIN F[d] \cup {i}
           /\ G[d][i] = r
           /\ \A j \in DOMAIN F[d] : G[d][j] = F[d][j]
           /\ \A x \in Domains : x # d => G[x] = F[x]
           /\ \A x \in Domains : Range(F[x]) \subseteq Range(G[x])
           /\ Range(G[d]) = Range(F[d]) \cup {r}
  <1> DEFINE g == [j \in DOMAIN F[d] \cup {i} |-> IF j = i THEN r ELSE F[d][j]]
  <1>1. G = [F EXCEPT ![d] = g]
    BY DEF Created
  <1>2. G[d] = g /\ (\A x \in Domains : x # d => G[x] = F[x]) /\ G = [x \in Domains |-> G[x]]
    <2> HIDE DEF g
    <2> QED BY <1>1
  <1>3. /\ DOMAIN G[d] = DOMAIN F[d] \cup {i}
        /\ G[d][i] = r
        /\ \A j \in DOMAIN F[d] : G[d][j] = F[d][j]
    BY <1>2
  <1> HIDE DEF g
  <1>4. Range(G[d]) = Range(F[d]) \cup {r}
    BY <1>3 DEF Range
  <1> QED BY <1>2, <1>3, <1>4

\* latest_commitment_sequence is the number of commitments numbered from 1.
LEMMA LatestIsLast ==
    ASSUME NEW d \in Domains, NEW n \in Nat, Sequences(d) = 1..n
    PROVE  LatestSequence(d) = n
  <1> DEFINE S == Sequences(d) \cup {0}
  <1>1. S = 0..n
    BY SMT
  <1>2. n \in S /\ \A x \in S : x <= n
    BY <1>1
  <1>3. \A y \in S : (\A x \in S : y >= x) => y = n
    BY <1>1, <1>2
  <1> HIDE DEF S
  <1>4. Max(S) = n
    <2>1. \E y \in S : \A x \in S : y >= x
      BY <1>1, <1>2
    <2> QED BY <2>1, <1>3 DEF Max
  <1> QED BY <1>4 DEF LatestSequence, S

\* A command that changes only one domain record, and keeps the anchor of a
\* domain that has one, keeps the invariant.
LEMMA DomainCommand ==
    ASSUME FedInv, NEW d \in Domains, NEW r \in NetworkDomain, Commit(d),
           domain' = [domain EXCEPT ![d] = r],
           domain[d] # Absent /\ domain[d].state \in {"JOINED", "LEFT"} =>
               r.state \in {"JOINED", "LEFT"} /\ r.anchor = domain[d].anchor
                                            /\ r.anchor_key = domain[d].anchor_key,
           UNCHANGED <<commitments, messages, acceptances>>
    PROVE  FedInv'
  <1>1. journal' \in [Domains -> Nat] /\ \A x \in Domains : journal[x] <= journal'[x]
    <2>1. journal \in [Domains -> Nat] /\ journal' = [journal EXCEPT ![d] = journal[d] + 1]
      BY DEF FedInv, Shapes, Commit
    <2> QED BY <2>1
  <1>2. /\ domain'[d] = r /\ \A x \in Domains : x # d => domain'[x] = domain[x]
        /\ domain' = [x \in Domains |-> domain'[x]]
    BY DEF FedInv, Shapes
  <1>3. Shapes'
    BY <1>1, <1>2 DEF FedInv, Shapes
  <1>4. ASSUME NEW x \in Domains
        PROVE  (\A c \in DOMAIN commitments'[x] : Published(x, c)') /\ Numbered(x)'
    <2>1. ASSUME NEW c \in DOMAIN commitments[x]
          PROVE  Published(x, c)'
      <3>1. Published(x, c) /\ commitments[x][c].digest \in Nat
        BY DEF FedInv, Published, StateCommitment
      <3>2. journal[x] \in Nat /\ journal'[x] \in Nat /\ journal[x] <= journal'[x]
        BY <1>1 DEF FedInv, Shapes
      <3>3. commitments[x][c].digest < journal'[x]
        BY <3>1, <3>2 DEF Published
      <3> QED BY <3>1, <3>3 DEF Published
    <2>2. Numbered(x) /\ Sequences(x)' = Sequences(x)
      BY DEF FedInv, Sequences
    <2>3. Numbered(x)'
      BY <2>2 DEF Numbered
    <2> QED BY <2>1, <2>3
  <1>5. AcceptedFromAnchor'
    <2> SUFFICES ASSUME NEW x \in Domains, NEW e \in Accepted(x)
                 PROVE  AcceptedFromAnchor!(x)!(e)'
      BY DEF AcceptedFromAnchor, Accepted
    <2>1. AcceptedFromAnchor!(x)!(e)
      BY DEF FedInv, AcceptedFromAnchor
    <2>2. CASE x # d
      BY <2>1, <2>2, <1>2
    <2>3. CASE x = d
      BY <2>1, <2>3, <1>2
    <2> QED BY <2>2, <2>3
  <1>6. AcceptedOnce'
    BY DEF FedInv, AcceptedOnce
  <1> QED BY <1>3, <1>4, <1>5, <1>6 DEF FedInv

\* The commands that record, change or end a domain's membership.
LEMMA MembershipKeeps ==
    ASSUME FedInv, NEW d \in Domains, NEW k \in Keys, NEW a \in Domains, NEW p \in Principals,
           Register(d, k) \/ Join(d, a, k) \/ Leave(d) \/ UpdateAuthority(d, k) \/ TransferDomain(d, p, k)
    PROVE  FedInv'
  <1> USE OwnerAssumption
  <1>0. domain[d] = Absent \/ domain[d] \in NetworkDomain
    BY DEF FedInv, Shapes
  <1>1. CASE Register(d, k)
    <2> DEFINE r == [state |-> "REGISTERED", authority |-> [principal |-> Owner[k], key |-> k]]
    <2>1. r \in NetworkDomain
      BY DEF NetworkDomain, StateAuthority
    <2>2. domain' = [domain EXCEPT ![d] = r] /\ Commit(d) /\ domain[d] = Absent
      BY <1>1 DEF Register
    <2> HIDE DEF r
    <2> QED BY <2>1, <2>2, <1>1, DomainCommand DEF Register
  <1>2. CASE Join(d, a, k)
    <2>0. domain[d].state = "REGISTERED" /\ domain[d] \in NetworkDomain
      BY <1>0, <1>2 DEF Join
    <2> DEFINE r == [state |-> "JOINED", authority |-> domain[d].authority, anchor |-> a, anchor_key |-> k]
    <2>1. r \in NetworkDomain
      BY <2>0 DEF NetworkDomain
    <2>2. domain' = [domain EXCEPT ![d] = r] /\ Commit(d)
      BY <1>2 DEF Join
    <2> HIDE DEF r
    <2> QED BY <2>0, <2>1, <2>2, <1>2, DomainCommand DEF Join
  <1>3. CASE Leave(d)
    <2>0. domain[d].state = "JOINED" /\ domain[d] \in NetworkDomain
      BY <1>0, <1>3 DEF Leave
    <2> DEFINE r == [domain[d] EXCEPT !.state = "LEFT"]
    <2>1. r \in NetworkDomain /\ r.state = "LEFT" /\ r.anchor = domain[d].anchor
                              /\ r.anchor_key = domain[d].anchor_key
      BY <2>0 DEF NetworkDomain
    <2>2. domain' = [domain EXCEPT ![d] = r] /\ Commit(d)
      BY <1>3 DEF Leave
    <2> HIDE DEF r
    <2> QED BY <2>1, <2>2, <1>3, DomainCommand DEF Leave
  <1>4. ASSUME NEW q \in Principals, Authority(d, q, k)
        PROVE  FedInv'
    <2>0. domain[d].state \in {"REGISTERED", "JOINED"} /\ domain[d] \in NetworkDomain
      BY <1>0, <1>4 DEF Authority
    <2> DEFINE r == [domain[d] EXCEPT !.authority = [principal |-> q, key |-> k]]
    <2>1. r \in NetworkDomain
      BY <2>0 DEF NetworkDomain, StateAuthority
    <2>2. domain[d].state = "JOINED" =>
              r.state = "JOINED" /\ r.anchor = domain[d].anchor /\ r.anchor_key = domain[d].anchor_key
      BY <2>0 DEF NetworkDomain
    <2>3. domain' = [domain EXCEPT ![d] = r] /\ Commit(d) /\ UNCHANGED <<commitments, messages, acceptances>>
      BY <1>4 DEF Authority
    <2> HIDE DEF r
    <2> QED BY <2>0, <2>1, <2>2, <2>3, DomainCommand
  <1>5. CASE UpdateAuthority(d, k)
    <2>1. domain[d].authority.principal \in Principals
      BY <1>0, <1>5 DEF UpdateAuthority, NetworkDomain, StateAuthority
    <2> QED BY <1>4, <1>5, <2>1 DEF UpdateAuthority
  <1>6. CASE TransferDomain(d, p, k)
    BY <1>4, <1>6 DEF TransferDomain
  <1> QED BY <1>1, <1>2, <1>3, <1>5, <1>6

\* A new commitment takes the next number and signs a longer journal.
LEMMA PublishKeeps ==
    ASSUME FedInv, NEW d \in Domains, NEW c \in CommitmentIds, NEW m \in MessageIds, NEW to,
           PublishCommitment(d, c, to, m)
    PROVE  FedInv'
  <1> DEFINE new == [domain |-> d, id |-> c, sequence |-> LatestSequence(d) + 1,
                     digest |-> journal[d], key |-> domain[d].authority.key]
             msg == [origin |-> d, id |-> m, destination |-> to, commitment |-> new]
  <1>1. PICK n \in Nat : Sequences(d) = 1..n
    BY DEF FedInv, Numbered
  <1>2. LatestSequence(d) = n
    BY <1>1, LatestIsLast
  <1>3. /\ journal[d] \in Nat /\ journal' \in [Domains -> Nat] /\ journal'[d] = journal[d] + 1
        /\ \A x \in Domains : x # d => journal'[x] = journal[x]
    <2>1. journal \in [Domains -> Nat] /\ journal' = [journal EXCEPT ![d] = journal[d] + 1]
      BY DEF FedInv, Shapes, PublishCommitment, Commit
    <2> QED BY <2>1
  <1>4. new \in StateCommitment /\ new.domain = d /\ new.id = c
                               /\ new.sequence = n + 1 /\ new.digest = journal[d]
    <2>1. domain[d].authority.key \in Keys
      BY DEF FedInv, Shapes, PublishCommitment, NetworkDomain, StateAuthority
    <2>2. n + 1 \in Nat \ {0}
      OBVIOUS
    <2> QED BY <1>2, <1>3, <2>1, <2>2 DEF StateCommitment
  <1>5. c \notin DOMAIN commitments[d] /\ commitments' = Created(commitments, d, c, new)
    BY DEF PublishCommitment
  <1>6. \/ UNCHANGED messages
        \/ m \notin DOMAIN messages[d] /\ messages' = Created(messages, d, m, msg)
    BY DEF PublishCommitment
  <1> HIDE DEF new, msg
  <1>8. /\ commitments' = [x \in Domains |-> commitments'[x]]
        /\ DOMAIN commitments'[d] = DOMAIN commitments[d] \cup {c}
        /\ commitments'[d][c] = new
        /\ \A j \in DOMAIN commitments[d] : commitments'[d][j] = commitments[d][j]
        /\ \A x \in Domains : x # d => commitments'[x] = commitments[x]
        /\ \A x \in Domains : Range(commitments[x]) \subseteq Range(commitments'[x])
    <2>1. commitments = [x \in Domains |-> commitments[x]]
      BY DEF FedInv, Shapes
    <2> QED BY <2>1, <1>5, CreatedFacts
  <1>9. messages' = [x \in Domains |-> messages'[x]]
    <2>1. CASE UNCHANGED messages
      BY <2>1 DEF FedInv, Shapes
    <2>2. CASE m \notin DOMAIN messages[d] /\ messages' = Created(messages, d, m, msg)
      <3>1. messages = [x \in Domains |-> messages[x]]
        BY DEF FedInv, Shapes
      <3> QED BY <3>1, <2>2, CreatedFacts
    <2> QED BY <1>6, <2>1, <2>2
  <1>10. Shapes'
    BY <1>3, <1>8, <1>9 DEF FedInv, Shapes, PublishCommitment
  <1>11. ASSUME NEW x \in Domains
         PROVE  (\A j \in DOMAIN commitments'[x] : Published(x, j)') /\ Numbered(x)'
    <2>1. CASE x # d
      <3>1. commitments'[x] = commitments[x] /\ journal'[x] = journal[x]
        BY <2>1, <1>3, <1>8
      <3>2. \A j \in DOMAIN commitments'[x] : Published(x, j)'
        BY <3>1 DEF FedInv, Published
      <3>3. Numbered(x) /\ Sequences(x)' = Sequences(x)
        BY <3>1 DEF FedInv, Sequences
      <3>4. Numbered(x)'
        BY <3>1, <3>3 DEF Numbered
      <3> QED BY <3>2, <3>4
    <2>2. CASE x = d
      <3>1. ASSUME NEW j \in DOMAIN commitments[d]
            PROVE  /\ commitments[d][j] \in StateCommitment
                   /\ commitments[d][j].domain = d /\ commitments[d][j].id = j
                   /\ commitments[d][j].digest \in Nat /\ commitments[d][j].digest < journal[d]
                   /\ commitments[d][j].sequence \in 1..n
        BY <1>1 DEF FedInv, Published, StateCommitment, Sequences
      <3>2. ASSUME NEW j \in DOMAIN commitments'[d]
            PROVE  Published(d, j)'
        <4>1. CASE j = c
          BY <4>1, <1>3, <1>4, <1>8 DEF Published
        <4>2. CASE j \in DOMAIN commitments[d]
          <5>1. commitments[d][j].digest < journal'[d]
            BY <4>2, <3>1, <1>3
          <5> QED BY <4>2, <5>1, <3>1, <1>8 DEF Published
        <4> QED BY <4>1, <4>2, <1>8
      <3>3. Sequences(d)' = 1..(n + 1)
        <4>1. Sequences(d)' = Sequences(d) \cup {n + 1}
          BY <1>4, <1>8 DEF Sequences
        <4> QED BY <4>1, <1>1
      <3>4. ASSUME NEW i \in DOMAIN commitments'[d], NEW j \in DOMAIN commitments'[d]
            PROVE  /\ commitments'[d][i].sequence = commitments'[d][j].sequence => i = j
                   /\ commitments'[d][i].sequence < commitments'[d][j].sequence
                         => commitments'[d][i].digest < commitments'[d][j].digest
        <4>1. CASE i \in DOMAIN commitments[d] /\ j \in DOMAIN commitments[d]
          BY <4>1, <1>8 DEF FedInv, Numbered
        <4>2. CASE i \in DOMAIN commitments[d] /\ j = c
          <5>1. /\ commitments'[d][i].sequence \in 1..n /\ commitments'[d][j].sequence = n + 1
                /\ commitments'[d][i].digest < commitments'[d][j].digest
            BY <4>2, <3>1, <1>4, <1>8
          <5> QED BY <5>1
        <4>3. CASE i = c /\ j \in DOMAIN commitments[d]
          <5>1. commitments'[d][j].sequence \in 1..n /\ commitments'[d][i].sequence = n + 1
            BY <4>3, <3>1, <1>4, <1>8
          <5> QED BY <5>1
        <4>4. CASE i = c /\ j = c
          BY <4>4, <1>4, <1>8
        <4> QED BY <4>1, <4>2, <4>3, <4>4, <1>8
      <3>5. Numbered(d)'
        BY <3>3, <3>4 DEF Numbered
      <3> QED BY <2>2, <3>2, <3>5
    <2> QED BY <2>1, <2>2
  <1>12. AcceptedFromAnchor'
    <2> SUFFICES ASSUME NEW x \in Domains, NEW e \in Accepted(x)
                 PROVE  AcceptedFromAnchor!(x)!(e)'
      BY DEF AcceptedFromAnchor, Accepted, PublishCommitment
    <2>1. AcceptedFromAnchor!(x)!(e)
      BY DEF FedInv, AcceptedFromAnchor
    <2>2. domain[x].anchor \in Domains
      BY <2>1 DEF FedInv, Shapes, NetworkDomain
    <2> QED BY <2>1, <2>2, <1>8 DEF PublishCommitment
  <1>13. AcceptedOnce'
    BY DEF FedInv, AcceptedOnce, PublishCommitment
  <1> QED BY <1>10, <1>11, <1>12, <1>13 DEF FedInv

\* A verified message that was not accepted before keeps the acceptances unique.
LEMMA AcceptKeeps ==
    ASSUME FedInv, NEW d \in Domains, NEW a \in AcceptanceIds, NEW message, NEW p \in Domains,
           NEW c \in DOMAIN commitments[p], AcceptCommitment(d, a, message, commitments[p][c])
    PROVE  FedInv'
  <1> DEFINE commitment == commitments[p][c]
             new == [message |-> message, commitment |-> commitment, anchor_key |-> domain[d].anchor_key]
  <1>1. /\ domain[d].state \in {"JOINED", "LEFT"}
        /\ message.destination = d
        /\ message.origin = domain[d].anchor
        /\ commitment.domain = domain[d].anchor
        /\ commitment.key = domain[d].anchor_key
        /\ message.commitment = commitment
        /\ message.id \notin accepted_message_ids(d)
    BY DEF AcceptCommitment, Verified, NotReplayed
  <1>2. a \notin DOMAIN acceptances[d] /\ acceptances' = Created(acceptances, d, a, new)
    BY DEF AcceptCommitment
  <1>3. UNCHANGED <<domain, commitments, messages>> /\ Commit(d)
    BY DEF AcceptCommitment
  <1>4. new.message = message /\ new.commitment = commitment
    OBVIOUS
  <1>5. commitment \in Range(commitments[domain[d].anchor])
    BY <1>1 DEF FedInv, Published, Range
  <1> HIDE DEF new, commitment
  <1>7. /\ acceptances' = [x \in Domains |-> acceptances'[x]]
        /\ DOMAIN acceptances'[d] = DOMAIN acceptances[d] \cup {a}
        /\ acceptances'[d][a] = new
        /\ \A j \in DOMAIN acceptances[d] : acceptances'[d][j] = acceptances[d][j]
        /\ \A x \in Domains : x # d => acceptances'[x] = acceptances[x]
        /\ Range(acceptances'[d]) = Range(acceptances[d]) \cup {new}
    <2>1. acceptances = [x \in Domains |-> acceptances[x]]
      BY DEF FedInv, Shapes
    <2> QED BY <2>1, <1>2, CreatedFacts
  <1>8. /\ journal' \in [Domains -> Nat]
        /\ \A x \in Domains : journal[x] \in Nat /\ journal[x] <= journal'[x]
    <2>1. journal \in [Domains -> Nat] /\ journal' = [journal EXCEPT ![d] = journal[d] + 1]
      BY <1>3 DEF FedInv, Shapes, Commit
    <2> QED BY <2>1
  <1>9. Shapes'
    BY <1>3, <1>7, <1>8 DEF FedInv, Shapes
  <1>10. ASSUME NEW x \in Domains
         PROVE  (\A j \in DOMAIN commitments'[x] : Published(x, j)') /\ Numbered(x)'
    <2>1. ASSUME NEW j \in DOMAIN commitments[x]
          PROVE  Published(x, j)'
      <3>1. Published(x, j) /\ commitments[x][j].digest \in Nat
        BY DEF FedInv, Published, StateCommitment
      <3>2. journal[x] \in Nat /\ journal'[x] \in Nat /\ journal[x] <= journal'[x]
        BY <1>8
      <3>3. commitments[x][j].digest < journal'[x]
        BY <3>1, <3>2 DEF Published
      <3> QED BY <3>1, <3>3, <1>3 DEF Published
    <2>2. Numbered(x) /\ Sequences(x)' = Sequences(x)
      BY <1>3 DEF FedInv, Sequences
    <2>3. Numbered(x)'
      BY <1>3, <2>2 DEF Numbered
    <2> QED BY <2>1, <2>3, <1>3
  <1>11. AcceptedFromAnchor'
    <2> SUFFICES ASSUME NEW x \in Domains, NEW e \in Accepted(x)'
                 PROVE  AcceptedFromAnchor!(x)!(e)'
      BY DEF AcceptedFromAnchor
    <2>1. CASE e \in Accepted(x)
      BY <2>1, <1>3 DEF FedInv, AcceptedFromAnchor
    <2>2. CASE x = d /\ e = new
      BY <2>2, <1>1, <1>3, <1>4, <1>5
    <2> QED BY <2>1, <2>2, <1>7 DEF Accepted
  <1>12. AcceptedOnce'
    <2> SUFFICES ASSUME NEW x \in Domains, NEW i \in DOMAIN acceptances'[x], NEW j \in DOMAIN acceptances'[x],
                        acceptances'[x][i].message.id = acceptances'[x][j].message.id
                 PROVE  i = j
      BY DEF AcceptedOnce
    <2>1. CASE x # d
      BY <2>1, <1>7 DEF FedInv, AcceptedOnce
    <2>2. CASE x = d
      <3>1. \A b \in DOMAIN acceptances[d] : acceptances[d][b].message.id # new.message.id
        BY <1>1, <1>4 DEF accepted_message_ids
      <3>2. CASE i \in DOMAIN acceptances[d] /\ j \in DOMAIN acceptances[d]
        BY <2>2, <3>2, <1>7 DEF FedInv, AcceptedOnce
      <3> QED BY <2>2, <3>1, <3>2, <1>7
    <2> QED BY <2>1, <2>2
  <1> QED BY <1>9, <1>10, <1>11, <1>12 DEF FedInv

\* FedInv holds throughout: initially there are no records.
THEOREM FederationInvariant == FederationSpec => []FedInv
  <1>1. FederationInit => FedInv
    <2> SUFFICES ASSUME FederationInit PROVE FedInv
      OBVIOUS
    <2>1. \A d \in Domains : DOMAIN commitments[d] = {} /\ DOMAIN acceptances[d] = {}
      BY DEF FederationInit
    <2>2. Shapes
      BY DEF FederationInit, Shapes
    <2>3. \A d \in Domains : Sequences(d) = 1..0
      BY <2>1 DEF Sequences
    <2>4. \A d \in Domains : Numbered(d)
      BY <2>1, <2>3 DEF Numbered
    <2>5. AcceptedFromAnchor /\ AcceptedOnce
      BY <2>1 DEF AcceptedFromAnchor, Accepted, AcceptedOnce, Range
    <2> QED BY <2>1, <2>2, <2>4, <2>5 DEF FedInv
  <1>2. FedInv /\ [FederationNext]_federationVars => FedInv'
    <2> SUFFICES ASSUME FedInv, [FederationNext]_federationVars PROVE FedInv'
      OBVIOUS
    <2>1. CASE FederationNext
      <3> PICK d \in Domains : FederationNext!(d)
        BY <2>1 DEF FederationNext
      <3>0. domain[d] = Absent \/ domain[d] \in NetworkDomain
        BY DEF FedInv, Shapes
      <3>1. ASSUME NEW k \in Keys, Register(d, k) PROVE FedInv'
        BY <3>1, MembershipKeeps, OwnerAssumption
      <3>2. ASSUME NEW k \in Keys, NEW a \in Domains, Join(d, a, k) PROVE FedInv'
        BY <3>2, MembershipKeeps, OwnerAssumption
      <3>3. CASE Leave(d)
        <4>1. PICK k \in Keys : TRUE
          BY <3>0, <3>3 DEF Leave, NetworkDomain
        <4> QED BY <3>3, <4>1, MembershipKeeps, OwnerAssumption
      <3>4. ASSUME NEW k \in Keys, UpdateAuthority(d, k) PROVE FedInv'
        BY <3>4, MembershipKeeps, OwnerAssumption
      <3>5. ASSUME NEW k \in Keys, NEW p \in Principals, TransferDomain(d, p, k) PROVE FedInv'
        BY <3>5, MembershipKeeps
      <3>6. ASSUME NEW c \in CommitmentIds, NEW to \in Domains \cup {None}, NEW m \in MessageIds,
                   PublishCommitment(d, c, to, m)
            PROVE  FedInv'
        BY <3>6, PublishKeeps
      <3>7. ASSUME NEW p \in Domains, NEW a \in AcceptanceIds, NEW message \in Sealed,
                   NEW c \in DOMAIN commitments[p],
                   AcceptCommitment(d, a, message, commitments[p][c])
            PROVE  FedInv'
        BY <3>7, AcceptKeeps
      <3> QED BY <3>1, <3>2, <3>3, <3>4, <3>5, <3>6, <3>7
    <2>2. CASE UNCHANGED federationVars
      <3>1. /\ domain' = domain /\ journal' = journal /\ commitments' = commitments
            /\ messages' = messages /\ acceptances' = acceptances
        BY <2>2 DEF federationVars
      <3>2. Shapes' /\ AcceptedOnce'
        BY <3>1 DEF FedInv, Shapes, AcceptedOnce
      <3>3. AcceptedFromAnchor'
        BY <3>1 DEF FedInv, AcceptedFromAnchor, Accepted
      <3>4. ASSUME NEW d \in Domains
            PROVE  (\A c \in DOMAIN commitments'[d] : Published(d, c)') /\ Numbered(d)'
        <4>1. \A c \in DOMAIN commitments[d] : Published(d, c)'
          BY <3>1 DEF FedInv, Published
        <4>2. Numbered(d) /\ Sequences(d)' = Sequences(d)
          BY <3>1 DEF FedInv, Sequences
        <4>3. Numbered(d)'
          BY <3>1, <4>2 DEF Numbered
        <4> QED BY <3>1, <4>1, <4>3
      <3> QED BY <3>2, <3>3, <3>4 DEF FedInv
    <2> QED BY <2>1, <2>2
  <1> QED BY <1>1, <1>2, PTL DEF FederationSpec

\* accept_commitment never accepts one message twice, however the messages are
\* duplicated, delayed or reordered.
THEOREM NoReplay == FederationSpec => []AcceptedOnce
  <1>1. FedInv => AcceptedOnce
    BY DEF FedInv
  <1> QED BY <1>1, FederationInvariant, PTL

\* accept_commitment records only commitments the anchor published under the key
\* recorded at join_federation, whoever made the messages that carry them.
THEOREM AcceptancesAreGenuine == FederationSpec => []AcceptedFromAnchor
  <1>1. FedInv => AcceptedFromAnchor
    BY DEF FedInv
  <1> QED BY <1>1, FederationInvariant, PTL

\* Two acceptances of one origin's commitments, at the same or at two domains,
\* never contradict each other: publish_commitment numbers them without gap or
\* repetition, in the order of the journals they sign.
THEOREM AcceptancesNeverDisagree == FederationSpec => []AcceptancesAgree
  <1>1. FedInv => AcceptancesAgree
    <2> SUFFICES ASSUME FedInv, NEW d1 \in Domains, NEW d2 \in Domains,
                        NEW e \in Accepted(d1), NEW f \in Accepted(d2),
                        e.commitment.domain = f.commitment.domain
                 PROVE  /\ e.commitment.sequence = f.commitment.sequence => e.commitment = f.commitment
                        /\ e.commitment.sequence < f.commitment.sequence
                              => e.commitment.digest < f.commitment.digest
      BY DEF AcceptancesAgree
    <2>1. ASSUME NEW d \in Domains, NEW g \in Accepted(d)
          PROVE  \E o \in Domains : \E c \in DOMAIN commitments[o] :
                     g.commitment = commitments[o][c] /\ g.commitment.domain = o
      <3>1. /\ domain[d].state \in {"JOINED", "LEFT"}
            /\ g.commitment \in Range(commitments[domain[d].anchor])
        BY DEF FedInv, AcceptedFromAnchor
      <3>2. domain[d].anchor \in Domains
        BY <3>1 DEF FedInv, Shapes, NetworkDomain
      <3>3. PICK c \in DOMAIN commitments[domain[d].anchor] :
                g.commitment = commitments[domain[d].anchor][c]
        BY <3>1 DEF Range
      <3>4. g.commitment.domain = domain[d].anchor
        BY <3>2, <3>3 DEF FedInv, Published
      <3> QED BY <3>2, <3>3, <3>4
    <2>0. PICK o \in Domains : \E c \in DOMAIN commitments[o] :
              e.commitment = commitments[o][c] /\ e.commitment.domain = o
      BY <2>1
    <2>2. PICK c \in DOMAIN commitments[o] :
              e.commitment = commitments[o][c] /\ e.commitment.domain = o
      BY <2>0
    <2>3. PICK h \in DOMAIN commitments[o] : f.commitment = commitments[o][h]
      BY <2>1, <2>2
    <2>4. Numbered(o)
      BY DEF FedInv
    <2> QED BY <2>2, <2>3, <2>4 DEF Numbered
  <1> QED BY <1>1, FederationInvariant, PTL

=============================================================================
