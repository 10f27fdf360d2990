SPECIFICATION FairSpec
CONSTANTS
    m1 = m1
    Mgmt = {m1}
    NoMgmt = NoMgmt
    Length = 3
    Garbage = {}
    MaxInProcess = 1
    Slot <- MCSlot
    Faults = {"recycle", "forget", "error", "refuse"}
    MaxFaults = 2
INVARIANT LoadIsCapped
PROPERTIES
    EveryMessageHandled
    DoneIsCommitted
CHECK_DEADLOCK FALSE
