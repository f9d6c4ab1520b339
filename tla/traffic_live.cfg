SPECIFICATION FairSpec
CONSTANTS
    Subscription <- MCUntimedSubscription
    ActionId = {"a"}
    Inputs <- MCUntimedInputs
    QueueLengths = {0, 1, 2}
    MaxTimers = 2
    MaxStarts = 2
    MaxAnswers = 1
PROPERTIES
    ActionRequestsEnd
    TimedRequestsEnd
