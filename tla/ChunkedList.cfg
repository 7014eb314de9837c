SPECIFICATION Spec
CONSTANTS
    v = v
    w = w
    Value = {v, w}
    Chunk = {c1, c2, c3}
    ChunkSize = 4
    MaxLive = 6
    Wants <- MCWants
    None = None
SYMMETRY MCSymmetry
INVARIANTS ScanExact IteratorsDiffer CountsExact RetreatUndoesAdvance
PROPERTIES Implements
