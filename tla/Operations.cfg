SPECIFICATION OperationsSpec
CONSTANTS
    newRelease = newRelease
    oldRelease = oldRelease
    Runners <- MCRunners
    Files = 2
    Known <- MCKnown
    Purgers = {w1, w2}
    Rows = {1, 2, 3, 4, 5}
    TargetOf <- MCTargetOf
    Initially = {1, 2, 3, 4}
    Window = 1
    MaxRowsPerRun = 1
    MaxClock = 2
    Analysts = {a1, a2}
    Inputs <- MCInputs
    Absent = Absent
    Reads <- MCReads
    PageSize = 1
    MaxMinute = 1
SYMMETRY Interchangeable
CHECK_DEADLOCK FALSE
INVARIANTS MigrateTypeOK SchemaMatchesRecord FinishedMeansMigrated
    RetentionTypeOK PurgesAreAudited
    FindingsTypeOK SomeAnalysisGoesOn MissedFindingHasACause
PROPERTIES LatestStatusNeverGoesBack ImplementsFindingStore
