SPECIFICATION TrustSpec
CONSTANTS
    p1 = p1
    p2 = p2
    i1 = i1
    i2 = i2
    Principals = {p1, p2}
    Credentials = {c1, c2}
    Keys = {k1, k2, k3}
    Instants = {1}
    Windows <- Always
    KeyRequests <- MCKeyRequests
    CredentialRequests <- ProofRequests
    Nonces = {n1}
    Approvers = {p1}
    Threshold = 1
    None = None
    Grants = {}
    Mandates = {m1}
    Classes = {"PAY"}
    Items = {i1, i2}
    TermSheets <- OneSheet
    Pairs <- OneWay
SYMMETRY Identities
INVARIANTS RotationKeepsProtection PersistedStateLoads
CHECK_DEADLOCK FALSE
