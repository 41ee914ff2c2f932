SPECIFICATION FairSpec
CONSTANTS
    Confirmations = 2
    MaxAttempts = 2
    MaxCloses = 1
    Kinds <- TamerKinds
    MaxDisturbed = 1
    FirstTp = {"none"}
    HistoryLag = TRUE
    SwitchAnytime = FALSE
INVARIANTS
    ClosedMeansGone
PROPERTIES
    RowFollowsAccount
    TpConverges
    DealArrives
CHECK_DEADLOCK FALSE
