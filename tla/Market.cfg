SPECIFICATION Spec
CONSTANTS
    o1 = o1
    o2 = o2
    o3 = o3
    p1 = p1
    p2 = p2
    p3 = p3
    Taker = taker
    None = None
    OfferIds = {o1, o2, o3}
    Provider <- MCProvider
    TermSheets <- MCTermSheets
    Amounts = {1, 2}
    Demands <- MCDemands
    Instants = {0, 1, 2}
    TradingWindow <- MCWindow
    Available <- MCAvailable
    PriceBand <- MCPriceBand
    AmountWindow <- MCAmountWindow
    MaxSubmissions = 3
    ClusterMin = 2
    Validity = 1
    HoldTime = 1
    MaxSequence <- MCMaxSequence
    Volatile = {o1}
INVARIANTS FillsServeDemand ReservationsFollowMarket
PROPERTIES PriceTimePriority
CHECK_DEADLOCK FALSE
