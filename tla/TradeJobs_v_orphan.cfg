SPECIFICATION FairSpec
CONSTANTS
    c1 = c1
    c2 = c2
    MaxAsked = 9
    Keys <- FallbackKeys
    Coalesced <- NoKeys
    Fallback <- FallbackKeys
    Notify <- NoKeys
    Callers <- OneCaller
    MaxAttempts = 2
    MaxRequests = 1
    MaxCrashes = 1
    QuickRestart = TRUE
    StaleEnqueue = TRUE
PROPERTIES
    JobEnds
CHECK_DEADLOCK FALSE
