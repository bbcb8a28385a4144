SPECIFICATION Spec
CONSTANTS
    UserCalls = {u1}
    PollCalls = {p1}
    MaxRPCs = 1
    MaxPolls = 1
    Latencies = {1, 2}
    MinRequests = 2
    RateNum = 1
    RateDen = 2
    MaxLatency = 2
    MaxDegradedLatency = 1
    BucketSize = 1
    WindowLength = 2
    MaxTime = 3
CHECK_DEADLOCK FALSE
INVARIANTS TotalsMatchBuckets HealthyAgain PermitsAreReturned
