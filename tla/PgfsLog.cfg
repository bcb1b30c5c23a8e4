SPECIFICATION Spec
CONSTANTS
    File = {f, g, h}
    Blocks = 5
    PerBlock = 2
    OffsetRange = 2
    BatchCloses = 2
    MaxOps = 3
    MaxBatches = 1
    MaxFails = 1
    MaxCuts = 2
    Blank = Blank
    Torn = Torn
INVARIANTS
    TypeOK
    CheckpointedSurvives
    AckedSurvives
    BatchIsAtomic
PROPERTY DurableIsUntouched
SYMMETRY Symmetry
