SPECIFICATION FairSpec
CONSTANTS
    Primaries = {p1}
    Fallbacks = {f1}
    Forced = {}
    SkipPeerCount = {}
    BanPeriod = 2
    MaxUpdateThreshold = 1
    MaxBlockLag = 1
    MinPeerCount = 3
    MaxUint = 15
    MaxHeight = 3
    TagAnswers <- SteadyPrimary
    PeerAnswers = {3}
    SyncAnswers = {TRUE}
    Branches = {A, B}
    Common = common
    NoHash = none
    ForkHeight = 3
    StrayNumbers = {}
    FetchErrors = TRUE
    CanReorg = TRUE
    CanDegrade = FALSE
INVARIANTS BannedIsCleared CandidateHasBlocks
PROPERTIES TrustedTagsAreExpected FallbacksArePolled
