SPECIFICATION Spec
CONSTANTS
    Task = {t1, t2}
    Fn = {f1}
    AssertFn = assert
    Main = main
    Topic = {m1}
    Arg = {a1}
    None = None
    TaskIdMax = 3
    MsgIdMax = 4
    Slots = 2
    BusCap = 1
    QueueCap = 1
    Port = "freertos"
    Repeats <- OnceTwiceAndLoop
    MayFail = TRUE
    MayWrap = TRUE
    MayResume = TRUE
    ErrPolicy = "none"
SYMMETRY Symmetry
INVARIANTS TimersAreOwned SubscribersAreWaiting
