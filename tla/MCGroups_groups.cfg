SPECIFICATION GroupsSpec
VIEW View
CONSTANTS
    g1 = g1
    g2 = g2
    t1 = t1
    t2 = t2
    m1 = m1
    m2 = m2
    m3 = m3
    ga = ga
    AnyGroup = AnyGroup
    NoConfig = NoConfig
    Task = {t1, t2}
    Late = {}
    Member = {t1, t2}
    Gateway = {g1, g2}
    BatchGateway = {g1, g2}
    Key = {}
    NoKey = NoKey
    priority <- Equal
    concurrencyKey <- NoKeys
    capacity <- TwoOne
    concurrencyLimit = 0
    MaxRetry = 1
    LeaseBatchMax = 1
    LeaseID = {l1, l2, l3, l4}
    NoLease = NoLease
    NoEntry = NoEntry
    MaxSize = 2
    GroupLease = {b1, b2, b3}
INVARIANTS
    MemberDeliveredOnce
    HeldBatchCreditsConserved
    HeldBatchSettlesWhole
PROPERTIES
    FiresOnTime
CHECK_DEADLOCK FALSE
