SPECIFICATION SettlementSpec
CONSTANTS
    o1 = o1
    o2 = o2
    s1 = s1
    s2 = s2
    k1 = k1
    Obligations = {o1, o2}
    Batches = {s1, s2}
    Drafts <- MCDrafts
    Cases = {k1}
    None = None
    MaxObservations = 2
INVARIANTS PostingsExplainLegs NoFalseFinality LiveSettlementExclusive ReversalsOnlyWithdrawn ExecutedRefundsPaid
CHECK_DEADLOCK FALSE
