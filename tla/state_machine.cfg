SPECIFICATION MachineSpec
CONSTANTS
    Subscription <- MCSubscription
    ActionId = {"SomeActionID123"}
    Inputs <- NoInputs
    QueueLengths = {0, 1}
    MaxTimers = 2
    MaxStarts = 2
    MaxAnswers = 1
    MaxChannels = 2
    MaxGroups = 2
    Enough = 2
    NoticeCap = 3
INVARIANTS
    MachineTypeOK
    CountsAreGroups
    OpenRequestsBounded
PROPERTIES
    GroupKeepsPromise
CHECK_DEADLOCK FALSE
