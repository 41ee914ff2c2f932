SPECIFICATION Spec
CONSTANTS
    Confirmations = 2
    MaxAttempts = 2
    MaxCloses = 1
    Kinds <- ListKind
    MaxDisturbed = 1
    FirstTp = {"none"}
    HistoryLag = FALSE
    SwitchAnytime = FALSE
INVARIANTS
    ClosedMeansGone
CHECK_DEADLOCK FALSE
