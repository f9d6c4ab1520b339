SPECIFICATION Spec
CONSTANTS
    Subscription <- MCResubscribed
    ActionId = {"a"}
    Inputs <- MCResubscribe
    QueueLengths = {0, 1}
    MaxTimers = 2
    MaxStarts = 2
    MaxAnswers = 2
PROPERTIES
    EndsItsOwn
