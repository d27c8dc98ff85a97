SPECIFICATION FairSpec
CONSTANTS
    r1 = r1
    r2 = r2
    NoRequest = NoRequest
    Stop = Stop
    Requests <- MCRequests
    Streaming <- MCStreaming
    MaxTokens <- MCMaxTokens
    MaxControlCalls = 2
    MaxStranded = 1
INVARIANTS
    EngineHoldsActive
    CancelledRunsOneMoreStep
PROPERTIES
    ImplementsEventStream
    EveryRequestEnds
CHECK_DEADLOCK FALSE
