SPECIFICATION LeaseSpec
CONSTANTS
    t1 = t1
    t2 = t2
    g1 = g1
    g2 = g2
    k1 = k1
    Task = {t1, t2}
    Late = {}
    Gateway = {g1, g2}
    Key = {k1}
    NoKey = NoKey
    priority <- Equal
    concurrencyKey <- OneKey
    capacity <- One
    concurrencyLimit = 1
    MaxRetry = 1
    LeaseBatchMax = 2
    LeaseID = {1, 2, 3, 4, 5, 6, 7, 8, 9, 10}
    NoLease = NoLease
    NoEntry = NoEntry
INVARIANT
    KeyLimit
VIEW ScenarioView
CHECK_DEADLOCK FALSE
