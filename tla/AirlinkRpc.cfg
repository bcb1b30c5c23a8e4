SPECIFICATION AirlinkFairSpec
CONSTANTS
    Call = {c1, c2}
    Blocking = {b1}
    None = None
    Slots = 2
    Lossy = {"answer"}
    MayRaise = TRUE
    Reuse = FALSE
INVARIANTS AirlinkTypeOK NoUseAfterFree OnlyLostRefsLeak ContextOutlivesUse
PROPERTIES ResumedOnce CallReturns BlockingReturns
CHECK_DEADLOCK FALSE
