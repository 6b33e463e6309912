CONSTANTS
    s1 = s1
    s2 = s2
    t1 = t1
    t2 = t2
    q1 = q1
    q2 = q2
    Session = {s1, s2}
    Task = {t1, t2}
    Requirement = {q1, q2}
    Workspace = Workspace
    Nobody = Nobody
    MaxOps = 4
    Home <- MCHome
SPECIFICATION BindingsSpec
INVARIANT
    TasksApart
