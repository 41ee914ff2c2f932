SPECIFICATION MCSpec
CONSTANTS
    c1 = c1
    c2 = c2
    Keys <- AllKeys
    Coalesced <- RiskKeys
    Fallback <- FallbackKeys
    Notify <- NotifyKeys
    Callers <- TwoCallers
    MaxAttempts = 2
    MaxRequests = 2
    MaxAsked = 2
    MaxCrashes = 2
    QuickRestart = FALSE
    StaleEnqueue = TRUE
INVARIANTS
    CompletedMeansDone
    WorkerOwnsItsJob
PROPERTIES
    JobEnds
CHECK_DEADLOCK FALSE
