\* Two crashes, and the three failures that make the rebuild of the work copy
\* give up.  One clip is enough for losses: no step looks at a clip, so a
\* behaviour that loses one among others loses it when nothing else is copied.
SPECIFICATION FairSpec
CONSTANTS
    Clip = {c1}
    MaxCrashes = 2
    MaxFaults = 3
INVARIANTS
    TypeOK
    NothingLost
    ShownIsTrue
    SealedAtRest
    ReencryptedBeforeUse
PROPERTIES
    ToggleEnds
    
