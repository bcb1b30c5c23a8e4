SPECIFICATION FairSpec
CONSTANTS
    Id = {1, 2}
    Block = {b1, b2}
    TableSize = 2
    SlotMax = 2
    Repeats <- MCRepeats
    MaxStarts = 2
    QueueMax = 2
    None = None
INVARIANTS
    TablesAgree
    RearmsLive
PROPERTY OneShotEnds
CHECK_DEADLOCK FALSE
