SPECIFICATION InformationFairSpec
CONSTANTS
    t1 = t1
    u1 = u1
    NoTask = NoTask
    Task = {t1}
    Url = {u1}
    UrlOf <- MCUrlOf
    Payload <- MCNoPayload
    Subscription <- MCNoPayload
    Commands <- InformationCommands
    InputCap = 2
    PoolCap = 1
    MaxAttempts = 3
    MaxResend = 1
    MAX_ERROR_MSGS_LIMIT = 3
    U8 = 5
    MaxRefused = 6
    MaxSuccess = 3
INVARIANTS
    InformationTypeOK
    KeepsLatestErrors
    OneFetchPerRelay
    StatsAgree
PROPERTIES
    DocumentIsKept
CHECK_DEADLOCK FALSE
