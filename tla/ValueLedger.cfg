SPECIFICATION LedgerSpec
CONSTANTS
    cust = cust
    cash = cash
    other = other
    x1 = x1
    x2 = x2
    h1 = h1
    h2 = h2
    Assets = {x1, x2}
    Accounts = {cust, cash, other}
    Journals = {"j1"}
    Holds = {h1, h2}
    NoHold = NoHold
    AssetOf <- MCAssetOf
    CreditNormal = {cust}
    Safeguarded = {cust}
    Entries <- MCEntries
    Amounts = {1, 2}
    MaxPostings = 4
SYMMETRY MCSymmetry
INVARIANTS SafeguardedNonNegative ClosedAccountsEmpty HeldMirrorsEncumbered BooksBalance
CHECK_DEADLOCK FALSE
