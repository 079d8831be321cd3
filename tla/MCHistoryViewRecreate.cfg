\* A switch starts behind the question about a recreation.
SPECIFICATION Spec
CONSTANTS
    FirstClips <- MCTwo
    Pages = {1}
    Segments <- MCSegments
    PinCap = 1
    WheelLines = 3
    MaxSwitches = 1
    SwitchedClips = 2
    MaxTurns = 1
INVARIANTS
    RecreateSparesTheProtected
