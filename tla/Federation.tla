------------------------------ MODULE Federation ------------------------------
(***************************************************************************)
(* The federation domain (src/src/federation/engine.py with domains.py,    *)
(* commitments.py and messages.py): one engine per domain, each with its   *)
(* own records and journal.  A domain registers its state authority, joins *)
(* one anchor domain, publishes signed commitments to its own journal and  *)
(* accepts those of its anchor.  Between the engines there is only what    *)
(* callers carry: whatever was published stays available and is presented  *)
(* in any order, to anyone, any number of times or never.  A commitment is *)
(* signed; a message is only sealed, so that callers may present messages  *)
(* about published commitments that no engine issued.                      *)
(* A commitment is signed over its journal's digest; the journal only      *)
(* grows, so its length stands for the digest.  The digest that binds a    *)
(* message to its commitment stands for the whole commitment record.  The  *)
(* caller's proofs of knowing a secret are assumed given; rotation and     *)
(* transfer histories and finality bindings are carried and never read.    *)
(* Every accepted command adds one journal entry.                          *)
(***************************************************************************)
EXTENDS Integers, FiniteSets, Functions

LOCAL INSTANCE FiniteSetsExt

CONSTANTS
    Domains,        \* the federated domains
    Principals,     \* authority principals
    Keys,           \* ACTIVE keys of purpose DOMAIN_STATE_COMMITMENT
    Owner,          \* key -> the principal it belongs to
    CommitmentIds, MessageIds, AcceptanceIds,
    None,           \* no destination
    MaxJournal,     \* bounds the commands each domain accepts
    MaxPublished,   \* bounds the commitments each domain publishes
    MaxAccepted     \* bounds the acceptances each domain records

ASSUME OwnerAssumption == Owner \in [Keys -> Principals]
ASSUME NoneAssumption == None \notin Domains
ASSUME BoundsAssumption == {MaxJournal, MaxPublished, MaxAccepted} \subseteq [Domains -> Nat]

VARIABLES
    domain,         \* domain -> its record, or Absent
    commitments,    \* domain -> the commitments it published, by id
    messages,       \* domain -> the messages it issued, by id
    acceptances,    \* domain -> the acceptances it recorded, by id
    journal         \* domain -> the length of its journal

federationVars == <<domain, commitments, messages, acceptances, journal>>

DomainState == {"REGISTERED", "JOINED", "LEFT"}
DOMAIN_TERMINAL_STATES == {"LEFT"}

Absent == [state |-> "NONE"]

StateAuthority == [principal : Principals, key : Keys]

\* A REGISTERED domain carries no join fact, a JOINED or LEFT one does
\* (_validate_state_facts).
NetworkDomain ==
    [state : {"REGISTERED"}, authority : StateAuthority]
      \cup [state : {"JOINED", "LEFT"}, authority : StateAuthority, anchor : Domains, anchor_key : Keys]

StateCommitment ==
    [domain : Domains, id : CommitmentIds, sequence : Nat \ {0}, digest : Nat, key : Keys]

InterDomainMessage ==
    [origin : Domains, id : MessageIds, destination : Domains, commitment : StateCommitment]

CommitmentAcceptance ==
    [message : InterDomainMessage, commitment : StateCommitment, anchor_key : Keys]

FederationInit ==
    /\ domain = [d \in Domains |-> Absent]
    /\ commitments = [d \in Domains |-> <<>>]
    /\ messages = [d \in Domains |-> <<>>]
    /\ acceptances = [d \in Domains |-> <<>>]
    /\ journal = [d \in Domains |-> 0]

\* One accepted command is one journal entry; a refused one leaves no trace.
Commit(d) ==
    /\ journal[d] < MaxJournal[d]
    /\ journal' = [journal EXCEPT ![d] = @ + 1]

\* An id that the domain's store does not hold yet (expected version 0) is given a record.
Created(records, d, i, r) ==
    [records EXCEPT ![d] = [j \in DOMAIN @ \cup {i} |-> IF j = i THEN r ELSE @[j]]]

-----------------------------------------------------------------------------

Register(d, k) ==
    /\ domain[d] = Absent
    /\ domain' = [domain EXCEPT ![d] =
           [state |-> "REGISTERED", authority |-> [principal |-> Owner[k], key |-> k]]]
    /\ Commit(d)
    /\ UNCHANGED <<commitments, messages, acceptances>>

\* The anchor and the key are what the caller names: neither is compared with
\* what the anchor itself registered.
Join(d, a, k) ==
    /\ domain[d].state = "REGISTERED"
    /\ domain' = [domain EXCEPT ![d] =
           [state |-> "JOINED", authority |-> @.authority, anchor |-> a, anchor_key |-> k]]
    /\ Commit(d)
    /\ UNCHANGED <<commitments, messages, acceptances>>

Leave(d) ==
    /\ domain[d].state = "JOINED"
    /\ domain' = [domain EXCEPT ![d].state = "LEFT"]
    /\ Commit(d)
    /\ UNCHANGED <<commitments, messages, acceptances>>

Authority(d, p, k) ==
    /\ domain[d].state \in {"REGISTERED", "JOINED"}
    /\ Owner[k] = p
    /\ domain' = [domain EXCEPT ![d].authority = [principal |-> p, key |-> k]]
    /\ Commit(d)
    /\ UNCHANGED <<commitments, messages, acceptances>>

\* The rotation stays with the principal, the transfer names its successor.
UpdateAuthority(d, k) == domain[d] # Absent /\ Authority(d, domain[d].authority.principal, k)

TransferDomain(d, p, k) == Authority(d, p, k)

Sequences(d) == {commitments[d][c].sequence : c \in DOMAIN commitments[d]}

\* Mutant of LatestSequence: the numbering restarts when the authority's key changes.
LatestOfKey(d) ==
    Max({n \in Sequences(d) \cup {0} :
             \A c \in DOMAIN commitments[d] :
                 commitments[d][c].sequence = n => commitments[d][c].key = domain[d].authority.key})

LatestSequence(d) == Max(Sequences(d) \cup {0})

\* The commitment signs the journal as it stands before this command, under the
\* authority's current key; a message to a foreign domain is created with it.
PublishCommitment(d, c, to, m) ==
    /\ domain[d] # Absent
    /\ domain[d].state \notin DOMAIN_TERMINAL_STATES
    /\ c \notin DOMAIN commitments[d]
    /\ Cardinality(DOMAIN commitments[d]) < MaxPublished[d]
    /\ LET commitment == [domain |-> d, id |-> c, sequence |-> LatestSequence(d) + 1,
                          digest |-> journal[d], key |-> domain[d].authority.key]
       IN /\ commitments' = Created(commitments, d, c, commitment)
          /\ \/ to = None /\ UNCHANGED messages
             \/ /\ to \in Domains \ {d}
                /\ m \notin DOMAIN messages[d]
                /\ messages' = Created(messages, d, m,
                       [origin |-> d, id |-> m, destination |-> to, commitment |-> commitment])
    /\ Commit(d)
    /\ UNCHANGED <<domain, acceptances>>

\* Mutant of Verified: the message is not bound to the commitment presented with it.
VerifiedUnbound(d, message, commitment) ==
    /\ message.destination = d
    /\ message.origin = domain[d].anchor
    /\ commitment.domain = domain[d].anchor
    /\ commitment.key = domain[d].anchor_key

\* _verify_foreign_commitment, and the signature over the anchor's key.
Verified(d, message, commitment) ==
    /\ message.destination = d
    /\ message.origin = domain[d].anchor
    /\ commitment.domain = domain[d].anchor
    /\ commitment.key = domain[d].anchor_key
    /\ message.commitment = commitment

accepted_message_ids(d) == {acceptances[d][a].message.id : a \in DOMAIN acceptances[d]}

\* Mutant of NotReplayed: a replay is looked for under the acceptance's own id only.
NotReplayedHere(d, message) == TRUE

NotReplayed(d, message) == message.id \notin accepted_message_ids(d)

\* The messages a caller can present: sealed with the public factory, about any
\* published commitment and crossing two domains, issued by an engine or not.
Sealed ==
    LET published == UNION {Range(commitments[d]) : d \in Domains}
    IN  {[origin |-> o, id |-> m, destination |-> to, commitment |-> c] :
            o, to \in Domains, m \in MessageIds, c \in published}

\* Asks for a join fact, which a LEFT domain still carries.
AcceptCommitment(d, a, message, commitment) ==
    /\ domain[d].state \in {"JOINED", "LEFT"}
    /\ message.origin # message.destination
    /\ Verified(d, message, commitment)
    /\ NotReplayed(d, message)
    /\ a \notin DOMAIN acceptances[d]
    /\ Cardinality(DOMAIN acceptances[d]) < MaxAccepted[d]
    /\ acceptances' = Created(acceptances, d, a,
           [message |-> message, commitment |-> commitment, anchor_key |-> domain[d].anchor_key])
    /\ Commit(d)
    /\ UNCHANGED <<domain, commitments, messages>>

FederationNext ==
    \E d \in Domains :
        \/ \E k \in Keys : Register(d, k)
        \/ \E k \in Keys, a \in Domains : Join(d, a, k)
        \/ Leave(d)
        \/ \E k \in Keys : UpdateAuthority(d, k)
        \/ \E k \in Keys, p \in Principals : TransferDomain(d, p, k)
        \/ \E c \in CommitmentIds, to \in Domains \cup {None}, m \in MessageIds :
               PublishCommitment(d, c, to, m)
        \/ \E a \in AcceptanceIds, message \in Sealed, p \in Domains :
               \E c \in DOMAIN commitments[p] : AcceptCommitment(d, a, message, commitments[p][c])

FederationSpec == FederationInit /\ [][FederationNext]_federationVars

-----------------------------------------------------------------------------

Accepted(d) == Range(acceptances[d])

\* However often, in whatever order and to whomever messages are presented, a
\* domain accepts a message at most once (the replay gate of accept_commitment,
\* which has no other memory than the acceptance records).
AcceptedOnce ==
    \A d \in Domains : \A a, b \in DOMAIN acceptances[d] :
        acceptances[d][a].message.id = acceptances[d][b].message.id => a = b

\* What a domain accepted, its anchor vouched for: the anchor published that
\* very commitment, with the key the domain recorded when it joined, whatever
\* became of the anchor's key since, and the message names the anchor, this
\* domain and no other commitment (_verify_foreign_commitment).
AcceptedFromAnchor ==
    \A d \in Domains : \A e \in Accepted(d) :
        /\ domain[d].state \in {"JOINED", "LEFT"}
        /\ e.message.origin = domain[d].anchor /\ e.message.destination = d
        /\ e.commitment \in Range(commitments[domain[d].anchor])
        /\ e.commitment = e.message.commitment
        /\ e.commitment.key = domain[d].anchor_key

\* What two acceptances say of one origin can be put together, whoever recorded
\* them and in whatever order: one sequence number stands for one commitment, and
\* a later number for a longer journal (publish_commitment's next-sequence rule).
AcceptancesAgree ==
    \A d1, d2 \in Domains : \A e \in Accepted(d1), f \in Accepted(d2) :
        e.commitment.domain = f.commitment.domain =>
            /\ e.commitment.sequence = f.commitment.sequence => e.commitment = f.commitment
            /\ e.commitment.sequence < f.commitment.sequence => e.commitment.digest < f.commitment.digest

=============================================================================
