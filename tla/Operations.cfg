SPECIFICATION Spec
CONSTANTS
    MaxJobs = 3
    Workers = {w1, w2}
    MaxRetained = 1
    MaxProgress = 1
    Targets = {"mt5", "all"}
    FrontendCmd = FALSE
    Stubborn = {}
    Crashing = {"mt5"}
    MaxRequests = 2
    Releases = {"bls", "fed", "ism"}
    Optional = {"ism"}
    Rules = {"block", "exclude"}
    LastTime = 2
    Horizon = 0
    MaxChanges = 1
    MaxFailures = 1
PROPERTIES
    NoResultAfterCancel
    AcceptedJobEnds
    VerdictIsTrue
    CalendarIsRight
    NothingElseIsErased
CHECK_DEADLOCK FALSE
