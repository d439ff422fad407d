SPECIFICATION FairSpec
CONSTANTS
    Quarter = 8
    Events = {e1}
    NoEvent = NoEvent
    Handlers = {h1, h2}
    Workers = {w1}
    MaxAttempts = 2
    BatchLimit = 1
    MaxFaults = 2
    SlowActors = TRUE
    RetentionEnabled = TRUE
PROPERTIES ImplementsContract PendingIsSettled

