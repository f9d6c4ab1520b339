SPECIFICATION Spec
CONSTANTS
    Subscription <- MCOneAction
    ActionId = {"a"}
    Inputs <- MCStartOneAction
    QueueLengths = {0, 1}
    MaxTimers = 2
    MaxStarts = 2
    MaxAnswers = 2
PROPERTIES
    TimeoutEndsRequest
