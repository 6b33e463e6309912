SPECIFICATION Spec
CONSTANTS
    Process = {p1, p2}
    NoProcess = NoProcess
    NoLease = NoLease
    MaxClock = 2
    MaxTtl = 2
    MaxRevision = 4
INVARIANTS
    TypeOK Fenced
PROPERTIES
    NoLostUpdate TermsKept RegisterSpec
