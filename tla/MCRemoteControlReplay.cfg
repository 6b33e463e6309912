SPECIFICATION Spec
CONSTANTS
    Thread = {h1, h2}
    Session = {s1}
    First = s1
    None = None
    Broken = Broken
    MaxCommands = 1
PROPERTIES
    DeliveredOnce
