SPECIFICATION Spec
CONSTANTS
    t1 = t1
    t2 = t2
    u1 = u1
    u2 = u2
    NoTask = NoTask
    Task = {t1, t2}
    Url = {u1, u2}
    UrlOf <- MCUrlOf
    Payload <- OneSubscription
    Subscription <- OneSubscription
    Commands <- TwoRelayCommands
    InputCap = 1
    PoolCap = 2
    MaxAttempts = 1
    MaxResend = 1
INVARIANTS
    StatusAgrees
    RemovedIsClosed
PROPERTIES
    StatusesInOrder
CHECK_DEADLOCK FALSE
