SPECIFICATION Spec
CONSTANTS
    Task = {t1, t2}
    Fn = {f1}
    AssertFn = assert
    Main = main
    Topic = {m1}
    Arg = {a1}
    None = None
    TaskIdMax = 4
    MsgIdMax = 6
    Slots = 9
    BusCap = 2
    QueueCap = 1
    Port = "pc"
    Repeats <- Once
    MayFail = FALSE
    MayWrap = FALSE
    MayResume = FALSE
    ErrPolicy = "rollback"
SYMMETRY Symmetry
INVARIANTS BlockedTaskIsArmed NoWaitResidue SnapshotIsWaiting UniqueTimers ParaIsOwned
PROPERTIES NoEarlyWake
