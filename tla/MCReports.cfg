CONSTANTS
    Procs = {a1, a2}
    Callers = {a1, a2}
    MediaIds = {a1, a2}
    Requests = {b1, b2, b3}
    ReportIds = {b1, b2, b3}
    i1 = i1
    i2 = i2
    Items = {i1, i2}
    Minutes = {1, 2}
    Null = Null
    Workloads <- Loads
    MaxPosition = 3
    Dates = {1, 2, 3}
    TypedNumbers = {1, 3}
    FirstNumber = 2
    Free = Free
SYMMETRY Symmetry
SPECIFICATION MCSpec
INVARIANT AuditTellsWhoSubmitted SubmittedReady PositionsDistinct
INVARIANT NumbersDistinct RowsHaveFiles NoOrphans
PROPERTY SubmittedOnce SubmittedIsFrozen RenumberFollowsDates
CHECK_DEADLOCK FALSE
