SPECIFICATION FairSpec
CONSTANTS
    Task = {t1}
    Fn = {f1}
    AssertFn = assert
    Main = main
    Topic = {m1}
    Arg = {a1}
    None = None
    TaskIdMax = 3
    MsgIdMax = 5
    Slots = 9
    BusCap = 3
    QueueCap = 1
    Port = "pc"
    Repeats <- Once
    MayFail = FALSE
    MayWrap = FALSE
    MayResume = FALSE
    ErrPolicy = "none"
    MaxCalls = 2
PROPERTIES TimedWaitEnds PublishedWakes
