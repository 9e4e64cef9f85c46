SPECIFICATION TrustSpec
CONSTANTS
    p1 = p1
    p2 = p2
    i1 = i1
    i2 = i2
    Principals = {p1, p2}
    Credentials = {c1}
    Keys = {}
    Instants = {1}
    Windows <- Always
    KeyRequests <- MCKeyRequests
    CredentialRequests <- SecretRequests
    Nonces = {n1}
    Approvers = {}
    Threshold = 1
    None = None
    Grants = {g1, g2, g3}
    Mandates = {}
    Classes = {"PAY"}
    Items = {i1, i2}
    TermSheets <- MCSheets
    Pairs <- BothWays
SYMMETRY Authorities
INVARIANTS DelegationNarrows AllowedUnderRoot RetiredHoldNoAuthority PersistedStateLoads
CHECK_DEADLOCK FALSE
