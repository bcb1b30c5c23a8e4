SPECIFICATION Spec
CONSTANTS
    File = {f, g, h}
    Blocks = 5
    PerBlock = 2
    OffsetRange = 2
    BatchCloses = 2
    MaxOps = 3
    MaxBatches = 2
    MaxFails = 0
    MaxCuts = 1
    Blank = Blank
    Torn = Torn
INVARIANTS AckedSurvives
SYMMETRY Symmetry
