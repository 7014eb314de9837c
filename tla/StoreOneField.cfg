SPECIFICATION Spec
CONSTANTS
    t1 = t1
    t2 = t2
    t3 = t3
    Thread = {t1}
    Slot = {s1, s2, s3, s4}
    Key = {1, 2, 3}
    Formal = Formal
    None = None
    Calls <- OneFieldCalls
    MaxCalls <- Often
    Spurious = TRUE
SYMMETRY SlotSymmetry
INVARIANTS IndexExact NoFault
CHECK_DEADLOCK FALSE
