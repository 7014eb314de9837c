SPECIFICATION FairSpec
CONSTANTS
    t1 = t1
    t2 = t2
    t3 = t3
    Thread = {t1, t2}
    Slot = {s1, s2}
    Key = {1, 2}
    Formal = Formal
    None = None
    Calls <- HandoverCalls
    MaxCalls <- Once
    Spurious = FALSE
PROPERTY BlockedServed
CHECK_DEADLOCK FALSE
