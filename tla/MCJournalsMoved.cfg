SPECIFICATION Spec
CONSTANTS
    None = None
    Payment = {p}
    Authorized = 1
    Manual = {m}
    Entry = {e1, e2, e3, e4}
    Session = {s, t}
    MaxAmount = 1
    MaxWrites = 1
    MovePosted = TRUE
SYMMETRY Symmetry
CHECK_DEADLOCK FALSE
PROPERTIES
    PostedStays
