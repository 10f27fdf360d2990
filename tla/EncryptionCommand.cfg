SPECIFICATION FairSpec
CONSTANTS
    r1 = r1
    r2 = r2
    r3 = r3
    Request = {r1, r2, r3}
    CommandOf <- MCCommandOf
    Faults = {"crash", "error", "target", "send", "redelivery"}
    MaxFaults = 2
INVARIANTS TypeOK OneCommandAtATime VolumeTellsTruth
PROPERTY CommandSettles
CHECK_DEADLOCK FALSE
