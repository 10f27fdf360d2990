SPECIFICATION FairSpec
CONSTANTS
    m1 = m1
    m2 = m2
    r1 = r1
    r2 = r2
    r3 = r3
    r4 = r4
    NoMgmt = NoMgmt
    Mgmt = {m1, m2}
    Req = {r1, r2, r3, r4}
    MgmtOf <- OneInM2
    ReleaseLimit = 2
    CanStall = FALSE
    MaxBoot = 2
    MaxErrors = 0
INVARIANTS TypeOK NoLostWakeup
PROPERTIES ServedUnlessOldBoot ImplementsTurns
CHECK_DEADLOCK FALSE
