SPECIFICATION FairSpec
CONSTANTS
    m1 = m1
    m2 = m2
    z9 = z9
    z10 = z10
    z11 = z11
    j1 = j1
    j2 = j2
    j3 = j3
    j4 = j4
    j5 = j5
    NoMgmt = NoMgmt
    Mgmt = {m1, m2}
    Zone = {z9, z10, z11}
    Job = {j1, j2, j3, j4, j5}
    MgmtOf <- TwoEach
    Kind <- MixedKinds
    Wants <- ThreeWants
    Built <- AsBuilt
    Sorted <- ByString
    Keys <- ByValue
    Known <- NewZone
INVARIANTS ZoneHasOneJob CirclesAreMixed
PROPERTIES EveryJobEnds UsesLocks
CHECK_DEADLOCK FALSE
