SPECIFICATION Spec
CONSTANTS
    Setups = {A, B}
    Attempts = 2
    MaxEquiv = 2
    AbsentSyncs = 2
    Confirmations = 2
    MaxPosts = 1
    MaxFaults = 1
    TicketLag = FALSE
    OlderTicket = "recorded"
    Outage = FALSE
    QuickRoundTrip = FALSE
    SyncMidPlan = FALSE
SYMMETRY SetupSymmetry
INVARIANTS
    CapacityRespected
    OneOpenRow
