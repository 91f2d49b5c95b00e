CONSTANTS
    SeqSpace = 8
    IngestMax = 2
    MaxDrawn = 6
SPECIFICATION Spec
CHECK_DEADLOCK FALSE
INVARIANTS
    NoFalseLoss
