SPECIFICATION FairSpec
CONSTANTS
    Configs <- AllConfigs
    Requests = {r1}
    NumBackends = 2
CHECK_DEADLOCK FALSE
INVARIANTS NothingStaysOpen ServedAsConfigured PollersOutliveRequests
PROPERTIES SessionEnds SignalEnds
