SPECIFICATION FairSpec
CONSTANTS
    m1 = m1
    m2 = m2
    p1 = p1
    p2 = p2
    s1 = s1
    s2 = s2
    s3 = s3
    r1 = r1
    r2 = r2
    r3 = r3
    Mgmt = {m1, m2}
    PRaid = {p1, p2}
    Segment = {s1, s2, s3}
    PRaidOf <- MCPRaidOf
    MaxTolerableFaults = 1
    Report = {r1, r2, r3}
    Content <- MCContent
    Events = {"crash", "error", "redelivery", "command"}
    MaxEvents = 1
INVARIANTS TypeOK NewestWins SegmentsAreOfLatest SettledWhenQuiet
PROPERTY EveryReportEnds
CHECK_DEADLOCK FALSE
