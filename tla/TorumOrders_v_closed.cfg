SPECIFICATION Spec
CONSTANTS
    Setups <- OneSetup
    Attempts = 1
    MaxEquiv = 1
    AbsentSyncs = 3
    Confirmations = 3
    MaxPosts = 3
    MaxFaults = 0
    TicketLag = FALSE
    OlderTicket = "none"
    Outage = FALSE
    QuickRoundTrip = FALSE
    SyncMidPlan = TRUE
INVARIANTS
    ClosedMeansClosed
