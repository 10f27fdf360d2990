SPECIFICATION FaultSpec
CONSTANTS
    m1 = m1
    m2 = m2
    r1 = r1
    r2 = r2
    r3 = r3
    r4 = r4
    NoMgmt = NoMgmt
    Mgmt = {m1, m2}
    Req = {r1, r2, r3}
    MgmtOf <- TwoEach
    ReleaseLimit = 2
    CanStall = TRUE
    MaxBoot = 2
    MaxErrors = 1
INVARIANTS SerialInManagement ExclusiveUnlessLapsed SectionHoldsLock
PROPERTY ImplementsLease
CHECK_DEADLOCK FALSE
