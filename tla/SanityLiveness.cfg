SPECIFICATION FairSpec
CONSTANTS
    m1 = m1
    m2 = m2
    e1 = e1
    NoMgmt = NoMgmt
    Mgmt = {m1, m2}
    Entity = {e1}
    Faults = {"crash"}
    MaxFaults = 2
PROPERTY StaleEntityRemoved
CHECK_DEADLOCK FALSE
