SPECIFICATION Spec
CONSTANTS
    Events = {e1, e2}
    Accounts = {a1, a2}
    Conversations = {c1}
    Contents = {m1}
    NoContent = NoContent
    Sources = {s1}
    NoRow = NoRow
    NoEvent = NoEvent
    MaxTime = 3
    TieReplacesStatus = TRUE
    Sessions = {t1, t2}
    Schemas <- Both
    MaxRuns = 4
    MaxFaults = 1
INVARIANTS TypeOK ConversationSpansItsEvents StatusCameWithTheEnd ContentsFollowTheStart LatestIsNewest SomeTransactionGoesOn
PROPERTIES Serializable
SYMMETRY Interchangeable
CHECK_DEADLOCK FALSE
