SPECIFICATION Spec
CONSTANTS
    t1 = t1
    t2 = t2
    u1 = u1
    u2 = u2
    NoTask = NoTask
    Task = {t1}
    Url = {u1}
    UrlOf <- MCOneUrlOf
    Payload <- MCNoPayload
    Subscription <- NoSubscription
    Commands <- AllCommands
    InputCap = 1
    PoolCap = 1
    MaxAttempts = 2
    MaxResend = 1
PROPERTIES
    ReconnectTriesAgain
CHECK_DEADLOCK FALSE
