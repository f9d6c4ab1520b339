SPECIFICATION TrafficFairSpec
CONSTANTS
    t1 = t1
    u1 = u1
    u2 = u2
    NoTask = NoTask
    Task = {t1}
    Url = {u1, u2}
    UrlOf <- MCUrlOf
    Payload <- TwoFilters
    Subscription <- TwoFilters
    Commands <- AddAndSubscribe
    InputCap = 2
    PoolCap = 1
    MaxAttempts = 1
    MaxResend = 2
    MaxQueue = 2
INVARIANTS
    TrafficTypeOK
    RelayFollowsPool
PROPERTIES
    EachTaskIsTraffic
    SubscriptionArrives
CHECK_DEADLOCK FALSE
