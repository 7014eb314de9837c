SPECIFICATION Spec
CONSTANTS
    a = a
    b = b
    c = c
    r0 = r0
    r1 = r1
    r2 = r2
    Rank = {r0, r1}
    Tuple = {a}
    Programs <- TwoTakers
    None = None
    Eager = TRUE
INVARIANT TakenOnce
CHECK_DEADLOCK FALSE
