SPECIFICATION Spec
CONSTANTS
    Confirmations = 2
    MaxAttempts = 2
    MaxCloses = 1
    Kinds <- SwitchKind
    MaxDisturbed = 1
    FirstTp = {"none"}
    HistoryLag = TRUE
    SwitchAnytime = TRUE
INVARIANTS
    ClosedMeansGone
CHECK_DEADLOCK FALSE
