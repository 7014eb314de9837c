SPECIFICATION Spec
CONSTANTS
    t1 = t1
    t2 = t2
    t3 = t3
    Thread = {t1, t2, t3}
    Slot = {s1, s2}
    Key = {1, 2}
    Formal = Formal
    None = None
    Calls <- TwoWaitCalls
    MaxCalls <- Once
    Spurious = FALSE
INVARIANT MarkNotLost
CHECK_DEADLOCK FALSE
