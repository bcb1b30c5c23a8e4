SPECIFICATION Spec
CONSTANTS
    Msg = {a, b}
    Nil = Nil
    None = None
    HasCb = TRUE
    CbWaits = TRUE
    TaskFails = TRUE
    QueueCap = 3
    PendingCap = 3
SYMMETRY Symmetry
INVARIANTS TypeOK UntimedWaitIsOpen
