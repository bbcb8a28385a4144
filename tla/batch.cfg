SPECIFICATION Spec
CONSTANTS
    Kinds <- AnyRequests
    Ids = {i1, i2, i3}
    MaxLen = 3
    MaxCalls = 2
    MaxBatchSize = 3
    MaxUpstreamBatchSize = 2
    GroupOf <- TwoGroups
    NoId = none
    Backing = "redis and memory"
    ReadReplica = TRUE
SYMMETRY AnyIds
CHECK_DEADLOCK FALSE
INVARIANTS EveryRequestIsAnswered UpstreamBatchesAreValid
    CacheHoldsRawReceipts
