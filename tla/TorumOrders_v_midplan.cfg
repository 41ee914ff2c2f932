SPECIFICATION Spec
CONSTANTS
    Setups = {A, B}
    Attempts = 2
    MaxEquiv = 1
    AbsentSyncs = 2
    Confirmations = 2
    MaxPosts = 1
    MaxFaults = 0
    TicketLag = FALSE
    OlderTicket = "none"
    Outage = FALSE
    QuickRoundTrip = FALSE
    SyncMidPlan = TRUE
SYMMETRY SetupSymmetry
INVARIANTS
    CapacityRespected
