SPECIFICATION SenderSpec
CONSTANTS
    Senders <- MCSenders
    Audio = TRUE
    Work = {1, 2, 8}
    Reading = {0, 1, 8}
    REQUEST_TIMEOUT = 6
    PromptTimeout = 4
    GetTimeout = 2
    POLL_INTERVAL = 1
    RetrySleep = 1
    WarmRequests = 1
    MeasuredRequests = 2
INVARIANTS
    LatencyIsItsJob
    DisturbedOnlyByWarmup
    InTime
CHECK_DEADLOCK FALSE
