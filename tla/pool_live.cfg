SPECIFICATION FairSpec
CONSTANTS
    t1 = t1
    t2 = t2
    u1 = u1
    u2 = u2
    NoTask = NoTask
    Task = {t1, t2}
    Url = {u1}
    UrlOf <- MCSharedUrlOf
    Payload <- MCEvent
    Subscription <- NoSubscription
    Commands <- LiveCommands
    InputCap = 1
    PoolCap = 1
    MaxAttempts = 1
    MaxResend = 1
PROPERTIES
    PoolSendCompletes
    OrphansEnd
    StopEndsAll
CHECK_DEADLOCK FALSE
