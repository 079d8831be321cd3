\* A page of one row over two clips: every wheel, key and deletion scrolls.
\* One switch of the protection, over at most one clip, and one copy, purge or operation that fails.
SPECIFICATION Spec
CONSTANTS
    FirstClips <- MCTwo
    Pages = {1}
    Segments <- MCSegments
    PinCap = 1
    WheelLines = 3
    MaxSwitches = 1
    SwitchedClips = 1
    MaxTurns = 1
INVARIANTS
    TypeOK
    ScreenIsTrue
    PreviewIsHonest
    ActsOnTheChosen
PROPERTIES
    SelectionStays
