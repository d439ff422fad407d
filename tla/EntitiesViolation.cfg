SPECIFICATION Spec
CONSTANTS
    Events = {e1, e2}
    Accounts = {a1}
    Conversations = {c1}
    Contents = {m1}
    NoContent = NoContent
    Sources = {s1}
    NoRow = NoRow
    NoEvent = NoEvent
    MaxTime = 1
    TieReplacesStatus = TRUE
    Sessions = {t1, t2}
    Schemas <- Migrated
    MaxRuns = 2
    MaxFaults = 1
PROPERTY AttemptsWithoutFaultCommit
CHECK_DEADLOCK FALSE
