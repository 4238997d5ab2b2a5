SPECIFICATION LeaseSpec
CONSTANTS
    TaskID = {1, 2, 3}
    Queue = {"q"}
    Group = {"g"}
    NoGroup = "nogroup"
    Key = {"k"}
    NoKey = "nokey"
    Envelopes <- AllEnvelopes
    Batches <- AllBatches
    LeaseTTL = 1
    ArchiveRetention = 1
    Limits = {1, 2}
    RetryDelays = {1}
    RunAts = {3}
    MaxTime = 4
    MaxLease = 3
CHECK_DEADLOCK FALSE
INVARIANTS
    RowsConsistent
    CompletedByLatestLease
    UniqueKeyExclusive
