SPECIFICATION FairSpec
CONSTANTS
    t1 = t1
    t2 = t2
    t3 = t3
    Thread = {t1, t2, t3}
    Slot = {s1, s2, s3}
    Key = {1, 2}
    Formal = Formal
    None = None
    Calls <- MixedCalls
    MaxCalls <- OneOfThemOnce
    Spurious = TRUE
INVARIANTS TypeOK IndexComplete MarkNotLost
PROPERTIES Implements MarkedServed
CHECK_DEADLOCK FALSE
