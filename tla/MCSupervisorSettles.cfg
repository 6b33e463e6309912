SPECIFICATION FairSpec
CONSTANTS
    Controller = {c1, c2}
    None = None
    Task = {1, 2}
    Root = {"r1"}
    InitialPlans <- ChainPlan
    LaterPlans <- NoPlan
    MaxWorkers = 2
    ReplanBudget = 0
    AnyPolicy = FALSE
    Reliable = TRUE
    MaxEpoch = 2
    MaxAttempts = 2
    MaxRefreshes = 0
PROPERTIES
    Settles LedgerSpec
CHECK_DEADLOCK FALSE
