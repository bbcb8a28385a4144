SPECIFICATION ForwardSpec
CONSTANTS
    b1 = b1
    b2 = b2
    Backends = {b1, b2}
    RPCErrorCheck = TRUE
    NoAnswer = NoAnswer
    BackendList <- TwoBackends
    Strategies = {"plain", "weighted", "consensus", "multicall"}
    MaxRetries = 1
    ReceiptsTarget <- MixedTargets
    Height <- Heights
    Methods <- AllMethods
    MaxBatch = 3
    NoGroup = NoGroup
CHECK_DEADLOCK FALSE
INVARIANTS AnswersMatchRequests LastResort GivesUpWhenAllFailed
    SendsNeverBlock SuccessWins ReturnsAnAnswer
PROPERTIES EveryRequestReturns NothingIsLeftBehind
