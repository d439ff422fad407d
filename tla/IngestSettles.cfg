SPECIFICATION FairSpec
CONSTANTS
    Quarter = 8
    Events = {e1, e2}
    NoEvent = NoEvent
    Handlers = {h1}
    Workers = {w1, w2}
    MaxAttempts = 2
    BatchLimit = 2
    MaxFaults = 1
    SlowActors = TRUE
    RetentionEnabled = FALSE
INVARIANTS AttemptHasOneHolder
PROPERTIES SettlesForGood
