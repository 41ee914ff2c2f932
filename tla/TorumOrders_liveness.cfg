SPECIFICATION FairSpec
CONSTANTS
    Setups <- OneSetup
    Attempts = 1
    MaxEquiv = 1
    AbsentSyncs = 3
    Confirmations = 3
    MaxPosts = 2
    MaxFaults = 2
    TicketLag = FALSE
    OlderTicket = "none"
    Outage = TRUE
    QuickRoundTrip = TRUE
    SyncMidPlan = TRUE
PROPERTIES
    AmbiguousOrderResolved
    GhostCleared
