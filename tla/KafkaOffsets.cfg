SPECIFICATION Spec
CONSTANTS
    m1 = m1
    m2 = m2
    Mgmt = {m1, m2}
    NoMgmt = NoMgmt
    Length = 3
    Garbage <- MCGarbage
    MaxInProcess = 3
    Slot <- MCSlot
    Faults = {"rebalance", "error", "crash", "throw"}
    MaxFaults = 2
SYMMETRY MCSymmetry
INVARIANT CommittedIsHandled
CHECK_DEADLOCK FALSE
