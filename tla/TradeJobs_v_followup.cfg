SPECIFICATION Spec
CONSTANTS
    c1 = c1
    c2 = c2
    MaxAsked = 9
    Keys <- RiskKeys
    Coalesced <- RiskKeys
    Fallback <- NoKeys
    Notify <- NoKeys
    Callers <- OneCaller
    MaxAttempts = 2
    MaxRequests = 2
    MaxCrashes = 0
    QuickRestart = FALSE
    StaleEnqueue = TRUE
INVARIANTS
    FollowUpNotLost
CHECK_DEADLOCK FALSE
