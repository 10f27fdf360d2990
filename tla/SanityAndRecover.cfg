SPECIFICATION Spec
CONSTANTS
    m1 = m1
    m2 = m2
    e1 = e1
    NoMgmt = NoMgmt
    Mgmt = {m1, m2}
    Entity = {e1}
    Faults = {"crash", "lapse", "force", "delete"}
    MaxFaults = 2
INVARIANTS TypeOK HandledByRunner
PROPERTY RemovesOnlyStale
SYMMETRY Symmetry
CHECK_DEADLOCK FALSE
