SPECIFICATION FairSpec
CONSTANTS
    Msg = {a, b}
    Nil = Nil
    None = None
    HasCb = TRUE
    CbWaits = FALSE
    TaskFails = FALSE
    QueueCap = 3
    PendingCap = 3
    MaxCalls = 3
INVARIANTS QueuedIsNotified TimerIsOfThisWait TimedWaitIsArmed
PROPERTIES WantedIsReturned TimedWaitMsgEnds WantedArrives
