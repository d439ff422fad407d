SPECIFICATION Spec
CONSTANTS
    Quarter = 8
    Events = {e1}
    NoEvent = NoEvent
    Handlers = {h1}
    Workers = {w1}
    MaxAttempts = 2
    BatchLimit = 1
    MaxFaults = 4
    SlowActors = FALSE
    RetentionEnabled = FALSE

INVARIANTS AttemptsWithinBudget
