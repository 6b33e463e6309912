SPECIFICATION SupervisorSpec
CONSTANTS
    Controller = {c1, c2}
    None = None
    Task = {1, 2}
    Root = {"r1"}
    InitialPlans <- SharedPlan
    LaterPlans <- NoPlan
    MaxWorkers = 2
    ReplanBudget = 0
    AnyPolicy = FALSE
    Reliable = FALSE
    MaxEpoch = 2
    MaxAttempts = 2
    MaxRefreshes = 0
INVARIANTS
    WorktreeKept NoOrphan
PROPERTIES
    OnlyCurrentResults
CHECK_DEADLOCK FALSE
SYMMETRY Interchangeable
