SPECIFICATION FairSpec
CONSTANTS
    Instances = {i1, i2}
    Fields = {latest}
    MaxNumber = 1
    Tokens = {t1, t2, t3}
    NoToken = none
    LockPeriod = 1
    RedisErrors = FALSE
    CanCrash = TRUE
    Monotonic = FALSE
    Prompt = FALSE
INVARIANT StateOutlivesLock
PROPERTY LockIsTaken
