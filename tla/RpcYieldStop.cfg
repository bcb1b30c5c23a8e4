SPECIFICATION Spec
CONSTANTS
    Call = {c1, c2}
    None = None
    Slots = 2
    Lossy = {}
    MayRaise = FALSE
    Reuse = TRUE
INVARIANTS NeverOverdrawn
CHECK_DEADLOCK FALSE
