SPECIFICATION SupervisorSpec
CONSTANTS
    Controller = {c1}
    None = None
    Task = {1, 2}
    Root = {"r1"}
    InitialPlans <- ChainPlan
    LaterPlans <- ChainReplans
    MaxWorkers = 2
    ReplanBudget = 1
    AnyPolicy = TRUE
    Reliable = FALSE
    MaxEpoch = 2
    MaxAttempts = 2
    MaxRefreshes = 1
INVARIANTS
    TypeOK PersistedValid VerificationCounts AttemptsPaidFor
CHECK_DEADLOCK FALSE
