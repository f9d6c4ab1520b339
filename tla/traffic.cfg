SPECIFICATION Spec
CONSTANTS
    Subscription <- MCSubscription
    ActionId = {"a", "b", "c"}
    Inputs <- MCInputs
    QueueLengths = {0, 1}
    MaxTimers = 2
    MaxStarts = 2
    MaxAnswers = 2
INVARIANTS
    TypeOK
    OneRequestPerStart
    ActionsProgress
    RequestsAreKnown
    TimerIsPending
PROPERTIES
    MapFollowsRequests
