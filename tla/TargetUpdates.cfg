SPECIFICATION FairSpec
CONSTANTS
    Target = {"a", "b"}
    Setter = {"setAB"}
    Deleter = {"deleteA"}
    Recovery = "recovery"
    NoJob = "noJob"
    TargetsOf <- Requests
    Events = {"crash", "send", "pending"}
    MaxEvents = 1
INVARIANTS TypeOK MessagesAreTrue NoUpdateIsLost
PROPERTY EveryTargetIsTold
CHECK_DEADLOCK FALSE
