SPECIFICATION ClearingSpec
CONSTANTS
    a = a
    b = b
    c = c
    r1 = r1
    r2 = r2
    r3 = r3
    n1 = n1
    n2 = n2
    usd = usd
    Participants = {a, b, c}
    Assets = {usd}
    Results = {r1, r2, r3}
    Leg <- MCLeg
    Cycles = {"c1"}
    Nettings = {n1, n2}
    None = None
    NewAmounts = {1, 3}
    MaxVersion <- MCMaxVersion
SYMMETRY MCSymmetry
INVARIANTS DischargedOnce MembersCleared
PROPERTIES NettingConserves
CHECK_DEADLOCK FALSE
