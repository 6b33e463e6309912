SPECIFICATION Spec
CONSTANTS
    Session = {s1, s2}
    LastPhase = 1
    MaxCommit = 1
    MaxGates = 2
    Command = {c1, c2}
    Document = {"open", "met"}
    MaxCommands = 3
    MaxRevision = 2
    q1 = q1
    q2 = q2
    Requirement <- MCRequirement
    Commit = {1, 2, 3}
    Tree <- MCTree
    Authorised <- MCAuthorised
    Controller = {p1, p2}
    None = None
INVARIANTS
    TypeOK PhasesStand DoneMeansDone
SYMMETRY MCSymmetry
CHECK_DEADLOCK FALSE
