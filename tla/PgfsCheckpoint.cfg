SPECIFICATION Spec
CONSTANTS
    Value = {v1, v2}
    None = None
    MaxSeq = 5
    OneBlock = FALSE
INVARIANT Recoverable
PROPERTIES CommitIsAtomic
