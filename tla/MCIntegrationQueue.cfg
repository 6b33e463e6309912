SPECIFICATION Spec
CONSTANTS
    Request = {r1, r2}
    Base = Base
    Foreign = Foreign
    None = None
    External = {r2}
    Versions = 2
    MaxAttempts = 2
    MaxDrift = 1
    MaxFaults = 2
INVARIANTS
    QueueHeld
CHECK_DEADLOCK FALSE
