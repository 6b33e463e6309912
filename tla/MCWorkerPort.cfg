SPECIFICATION MCSpec
CONSTANTS
    Attempt = {a1, a2}
    Writer = {a2}
    Nobody = Nobody
    MaxEpoch = 2
INVARIANTS
    TypeOK EndsKnown NoCircularWait ReadyMeansEnabled
PROPERTIES
    LedgerSpec CancellationHolds
CHECK_DEADLOCK FALSE
