SPECIFICATION Spec
CONSTANTS
    v = v
    w = w
    Key = {1, 2, 3, 4, 5, 6, 7, 8}
    Value = {v, w}
    Clustering = 2
    Entries <- MCEntries
    Wants <- MCWants
    None = None
    MaxHeight = 5
INVARIANTS HeightsBalanced NodesFilled
PROPERTIES Implements
