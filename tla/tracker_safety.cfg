SPECIFICATION Spec
CONSTANTS
    Instances = {i1, i2}
    Fields = {latest}
    MaxNumber = 2
    Tokens = {t1, t2, t3, t4}
    NoToken = none
    LockPeriod = 1
    RedisErrors = TRUE
    CanCrash = TRUE
    Monotonic = TRUE
    Prompt = FALSE
INVARIANTS
    PostsUnderOwnLock
PROPERTY LeaderDoesNotGoBack
SYMMETRY Symmetry
