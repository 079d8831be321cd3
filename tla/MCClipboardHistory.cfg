\* The store: two copies of two contents, two settings of the limits, a queue
\* of one capture, a clock that moves, and one operation that fails.
SPECIFICATION Spec
CONSTANTS
    Content = {a, s}
    Secret = {s}
    Nothing = nothing
    Limits <- MCLimits
    Budget = 1
    DedupWindow = 1
    MaxTime = 1
    MaxNotes = 2
    MaxCopies = 2
    MaxRequests = 2
    MaxFaults = 1
INVARIANTS
    TypeOK
    DeletedStaysDeleted
    RowsNeverMislead
