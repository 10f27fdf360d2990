SPECIFICATION RecycleFairSpec
CONSTANTS
    t1 = t1
    t2 = t2
    Topic <- MCTopic
    FirstTopic <- MCFirstTopic
    MaxChanges = 3
    RecycleFaults = {"crash", "disconnect", "init", "command"}
    MaxRecycleFaults = 3
    MaxId = 12
INVARIANT ConsumerIsCurrent
PROPERTIES BootCompletes TopicsAreConsumed
CHECK_DEADLOCK FALSE
