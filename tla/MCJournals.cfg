SPECIFICATION Spec
CONSTANTS
    None = None
    Payment = {p}
    Authorized = 1
    Manual = {m, n}
    Entry = {e1, e2, e3, e4}
    Session = {s, t}
    MaxAmount = 1
    MaxWrites = 1
    MovePosted = FALSE
SYMMETRY Symmetry
CHECK_DEADLOCK FALSE
INVARIANTS
    TypeOK
    NoFalseAlarm
PROPERTIES
    PostedStays
