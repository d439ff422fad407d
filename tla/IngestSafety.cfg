SPECIFICATION Spec
CONSTANTS
    Quarter = 8
    Events = {e1}
    NoEvent = NoEvent
    Handlers = {h1, h2}
    Workers = {w1, w2}
    MaxAttempts = 2
    BatchLimit = 1
    MaxFaults = 2
    SlowActors = TRUE
    RetentionEnabled = TRUE
SYMMETRY Interchangeable
INVARIANTS TypeOK CompletedIsPersisted AcknowledgedIsPersisted CompletionRetryIsPersisted ScheduledHasBudget
