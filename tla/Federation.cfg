SPECIFICATION FederationSpec
CONSTANTS
    d1 = d1
    d2 = d2
    d3 = d3
    k1 = k1
    k2 = k2
    p1 = p1
    p2 = p2
    m1 = m1
    m2 = m2
    a1 = a1
    a2 = a2
    c1 = c1
    c2 = c2
    Domains = {d1, d2, d3}
    Principals = {p1, p2}
    Keys = {k1, k2}
    Owner <- MCOwner
    CommitmentIds = {c1, c2}
    MessageIds = {m1, m2}
    AcceptanceIds = {a1, a2}
    None = None
    MaxJournal <- MCMaxJournal
    MaxPublished <- MCMaxPublished
    MaxAccepted <- MCMaxAccepted
SYMMETRY MCSymmetry
VIEW MCView
INVARIANTS AcceptedOnce AcceptedFromAnchor AcceptancesAgree
CHECK_DEADLOCK FALSE
