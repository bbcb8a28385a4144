SPECIFICATION FairSpec
CONSTANTS
    Instances = {i1, i2}
    Fields = {latest}
    MaxNumber = 2
    Tokens = {t1, t2, t3}
    NoToken = none
    LockPeriod = 2
    RedisErrors = FALSE
    CanCrash = FALSE
    Monotonic = TRUE
    Prompt = FALSE
PROPERTY
    EveryoneHasSharedState
