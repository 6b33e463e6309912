SPECIFICATION Spec
CONSTANTS
    Thread = {h1, h2, h3}
    Session = {s1, s2}
    First = s1
    None = None
    Broken = Broken
    MaxCommands = 2
INVARIANTS
    TypeOK TurnUndisturbed NoneForgotten
PROPERTIES
    OutcomeStays
SYMMETRY Interchangeable
