SPECIFICATION Spec
CONSTANTS
    Primaries = {p1, p2}
    Fallbacks = {}
    Forced = {p1}
    SkipPeerCount = {}
    BanPeriod = 1
    MaxUpdateThreshold = 0
    MaxBlockLag = 1
    MinPeerCount = 3
    MaxUint = 15
    MaxHeight = 3
    TagAnswers <- TwoHeights
    PeerAnswers = {3}
    SyncAnswers = {TRUE}
    Branches = {A, B}
    Common = common
    NoHash = none
    ForkHeight = 1
    StrayNumbers = {}
    FetchErrors = FALSE
    CanReorg = FALSE
    CanDegrade = TRUE
INVARIANTS ConsensusNotAheadOfGroup ForkIsNotVisible HighestCommonAncestor BrokenMeansMovedBack
PROPERTIES MoveBackIsReported WalkDescends
SYMMETRY Symmetry
