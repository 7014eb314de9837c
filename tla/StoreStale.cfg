SPECIFICATION Spec
CONSTANTS
    t1 = t1
    t2 = t2
    t3 = t3
    Thread = {t1}
    Slot = {s1, s2}
    Key = {1, 2}
    Formal = Formal
    None = None
    Calls <- StaleCalls
    MaxCalls <- Thrice
    Spurious = TRUE
INVARIANT NoFault
CHECK_DEADLOCK FALSE
