SPECIFICATION Spec
CONSTANTS
    r1 = r1
    r2 = r2
    r3 = r3
    i1 = i1
    i2 = i2
    Requests = {r1, r2, r3}
    Instances = {i1, i2}
    InstanceOf <- TwoInstances
    Limiters <- AllLimiters
    Dur <- EachDur
    Max <- EachMax
    Second = 2
    UseRedis = TRUE
    UseFallback = TRUE
    MaxFailures = 2
    MaxTime = 3
    Calls <- SomeCalls
    LocalMethods = {"eth_accounts"}
    MappedMethods = {"eth_call", "eth_sendRawTransaction", "eth_sendBundle"}
    BaseRate = 1
    ExemptOrigins = {"admin"}
    ExemptUserAgents = {"bot"}
    MethodOverrides = {"eth_sendBundle"}
    GlobalMethods = {"eth_sendBundle"}
    SenderRateLimit = TRUE
SYMMETRY PerInstance
CHECK_DEADLOCK FALSE
INVARIANTS RedisLimitHolds RefusedOnlyWhenUsedUp MemoryLimitHolds NobodyIsExempt
