SPECIFICATION Spec
CONSTANTS
    Setups <- OneSetup
    Attempts = 2
    MaxEquiv = 1
    AbsentSyncs = 3
    Confirmations = 3
    MaxPosts = 2
    MaxFaults = 2
    TicketLag = TRUE
    OlderTicket = "recorded"
    Outage = TRUE
    QuickRoundTrip = FALSE
    SyncMidPlan = TRUE
INVARIANTS
    OneFillPerSetup
    FailedNeverFilled
    ExecutedMeansFilled
    ClosedMeansClosed
PROPERTIES
    ExecutedIsFinal
