SPECIFICATION Spec
CONSTANTS
    x1 = x1
    q1 = q1
    Thread = {t1, t2}
    Task = {t1, t2}
    Execution = {x1}
    Reply = {c1, c2}
    Target <- MCTarget
    Request = {r1, r2}
    Process = {p1, p2}
    Snapshot = {1, 2}
    Desired <- MCDesired
    Session = {s1, s2}
    Requirement = {q1, q2}
    Home <- MCHome
    Contents = {w1, w2}
    Free = Free
    MaxEvents = 3
    Limit = 2
    Capacity = 1
    MaxWire = 1
    Stop = Stop
    Decline = Decline
    MaxVersion = 2
    Nobody = Nobody
    MaxSnapshot = 3
    MaxOps = 4
    Workspace = Workspace
    Base = Base
    MaxCommits = 3
    MaxRoots = 2
    MaxTurns = 3
    Lines = 2
    Facts = 2
    MaxRevision = 6
    Kept = 1
    Runs = 1
    MaxTime = 3
    StuckAfter = 2
    Stagnation = 1
    MaxCards = 2
    None = None
INVARIANTS
    TypeOK RepliesTrue  Mirrored ToldOfFailure LedgerTrue OneOwner
PROPERTIES
    WorkSafe
CHECK_DEADLOCK FALSE
