\* The clipboard is busy, or the clip is cut away, while it is pasted.
SPECIFICATION Spec
CONSTANTS
    Content = {a, s}
    Secret = {s}
    Nothing = nothing
    Limits <- MCOneLimit
    Budget = 1
    DedupWindow = 1
    MaxTime = 1
    MaxNotes = 2
    MaxCopies = 2
    MaxRequests = 2
    MaxFaults = 1
PROPERTY PasteGivesTheItem
