SPECIFICATION BridgeSpec
CONSTANTS
    t1 = t1
    t2 = t2
    t3 = t3
    Threads <- ThreeThreads
    NoThread = NoThread
    MaxNest = 2
    a1 = a1
    a2 = a2
    Accounts <- TwoAccounts
    BatchMax = 2
    MaxBuffer = 3
    MaxPosts = 2
    MaxPoll = 2
    MaxTicks = 4
    MaxLate = 1
    QuickFill = TRUE
INVARIANTS
    OneAtATime
    TicksKeepTheirAccount
PROPERTIES
    OrdersGoFirst
    ArrivesInOrder
    EveryTickLeaves
CHECK_DEADLOCK FALSE
