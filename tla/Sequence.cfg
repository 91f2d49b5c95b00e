CONSTANTS
    SeqSpace = 8
    IngestMax = 2
    MaxDrawn = 10
SPECIFICATION Spec
CHECK_DEADLOCK FALSE
INVARIANTS
    TypeOK
    NeverOvercounts
    CountsExactly
