\* The clipboard: what fails, what is screened and what is pasted, with the
\* clock at rest, so that a copy repeated at once is a duplicate.
SPECIFICATION FairSpec
CONSTANTS
    Content = {a, s}
    Secret = {s}
    Nothing = nothing
    Limits <- MCOneLimit
    Budget = 1
    DedupWindow = 1
    MaxTime = 0
    MaxNotes = 2
    MaxCopies = 3
    MaxRequests = 2
    MaxFaults = 1
INVARIANTS
    NoCopyMissed
    SecretsStayOut
PROPERTIES
    AnswerComes
