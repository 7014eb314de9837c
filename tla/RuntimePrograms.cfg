SPECIFICATION FairSpec
CONSTANTS
    a = a
    b = b
    c = c
    r0 = r0
    r1 = r1
    r2 = r2
    Rank = {r0, r1, r2}
    Tuple = {a, b, c}
    Programs <- Handovers
    None = None
    Eager = TRUE
INVARIANTS TypeOK Balanced OwnersOweNothing
PROPERTIES Finishes
CHECK_DEADLOCK FALSE
