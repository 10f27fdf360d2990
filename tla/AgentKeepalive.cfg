SPECIFICATION FairSpec
CONSTANTS
    m1 = m1
    m2 = m2
    NoMgmt = NoMgmt
    Mgmt = {m1, m2}
    Consumer = {m1}
    Faults = {"agent", "restart", "mgmt", "late", "redeliver"}
    MaxFaults = 2
    MaxSeq = 2
    MaxTopic = 1
    MaxToLog = 1
INVARIANT TypeOK
PROPERTIES LateKeepaliveIgnored SilentAgentGoesDown LiveAgentComesUp
CHECK_DEADLOCK FALSE
