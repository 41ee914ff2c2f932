SPECIFICATION Spec
CONSTANTS
    Setups <- OneSetup
    Attempts = 1
    MaxEquiv = 1
    AbsentSyncs = 2
    Confirmations = 3
    MaxPosts = 1
    MaxFaults = 0
    TicketLag = FALSE
    OlderTicket = "none"
    Outage = FALSE
    QuickRoundTrip = TRUE
    SyncMidPlan = TRUE
INVARIANTS
    FailedNeverFilled
