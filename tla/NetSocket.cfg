SPECIFICATION FairSpec
CONSTANTS
    Ctrl = {c1}
    MaxSock = 2
    MaxIps = 2
    MaxCalls = 2
    MaxLinks = 1
    None = None
INVARIANTS
    MessagesMeetTheirSocket
    SlotsComeBack
    DeathIsReported
PROPERTIES DisconEnds ConnectEnds
CHECK_DEADLOCK FALSE
