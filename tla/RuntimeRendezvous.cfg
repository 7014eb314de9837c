SPECIFICATION FairSpec
CONSTANTS
    a = a
    b = b
    c = c
    r0 = r0
    r1 = r1
    r2 = r2
    Rank = {r0, r1, r2}
    Tuple = {a, b}
    Programs <- Lindart
    None = None
    Eager = FALSE
PROPERTY Finishes
CHECK_DEADLOCK FALSE
