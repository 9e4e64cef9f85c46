-------------------------------- MODULE MCTrust --------------------------------
(***************************************************************************)
(* Instances of Trust for TLC.                                             *)
(***************************************************************************)
EXTENDS Trust, TLC

CONSTANTS p1, p2, i1, i2

\* Two principals that may delegate to each other.
BothWays == {<<p1, p2>>, <<p2, p1>>}
OneWay == {<<p1, p2>>}

Always == {Instants}

\* p1 has the keys and credentials, a guarded key and a recovery key among them.
MCKeyRequests ==
    {[owner |-> p1, purpose |-> "AUTHENTICATION", guarded |-> TRUE],
     [owner |-> p1, purpose |-> "RECOVERY", guarded |-> FALSE]}
ProofRequests == [of : {p1}, kind : {"KEY_PROOF"}]
SecretRequests == [of : Principals, kind : {"SECRET_DIGEST"}]

Sheet(covers, window, depth) == [covers |-> covers, window |-> window, depth |-> depth]

\* Wide terms that allow two delegations, narrow ones that allow one, and terms
\* whose window is over.
MCSheets == {Sheet({i1, i2}, {1}, 2), Sheet({i1}, {1}, 1), Sheet({i1, i2}, {}, 0)}
OneSheet == {Sheet({i1}, {1}, 0)}

Identities == Permutations(Keys) \cup Permutations(Credentials)
Authorities == Permutations(Grants) \cup Permutations(Principals)

=============================================================================
