SPECIFICATION Spec
CONSTANTS
    Quarter = 8
    Events = {e1}
    NoEvent = NoEvent
    Handlers = {h1, h2}
    Workers = {w1}
    MaxAttempts = 3
    BatchLimit = 1
    MaxFaults = 1
    SlowActors = TRUE
    RetentionEnabled = FALSE

PROPERTIES AcceptedThenDuplicate
