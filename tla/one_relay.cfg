SPECIFICATION Spec
CONSTANTS
    t1 = t1
    t2 = t2
    u1 = u1
    u2 = u2
    NoTask = NoTask
    Task = {t1}
    Url = {u1}
    UrlOf <- MCOneUrlOf
    Payload <- MCEventAndSubscription
    Subscription <- OneSubscription
    Commands <- AllCommands
    InputCap = 2
    PoolCap = 2
    MaxAttempts = 7
    MaxResend = 1
INVARIANTS
    TypeOK
    InformationStatus
    RetriesBounded
    StatusAgrees
    RemovedIsClosed
PROPERTIES
    WaitCycleIsForever
CHECK_DEADLOCK FALSE
