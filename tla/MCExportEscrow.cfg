CONSTANTS
    e1 = e1
    e2 = e2
    ann = ann
    road = road
    None = None
    Exports <- MCExports
    Buyers <- MCBuyers
    Datasets <- MCDatasets
    BuyerOf <- MCBuyerOf
    DatasetOf <- MCDatasetOf
    Price <- MCPrice
    Credit <- MCCredit
    Requests = {r1, r2}
    Workers = {w1}
    Hooks = {h1}
    Withdrawals = {x1}
    MaxRetries = 1
SPECIFICATION Spec
INVARIANTS RefundOnce BlockedIsRefunded DebitIsFresh
PROPERTY ImplementsLedger
