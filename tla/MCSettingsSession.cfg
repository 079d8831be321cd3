SPECIFICATION Spec
CONSTANTS
    h1 = h1
    h2 = h2
    h3 = h3
    p1 = p1
    Combos = {h1, h2}
    NoCombo = NoCombo
    Programs = {p1}
    Hashed = {p1}
    Cut = Cut
    Numbers = {0, 3}
    NoText = NoText
    MaxPins = 2
    Default <- MCDefault
    Stored <- MCStored
    MaxEdits = 2
    MaxTurns = 3
INVARIANTS
    TypeOK
    AppliedIsNotWritten
    ClosingReverts
    ShownIsTheTarget
PROPERTIES
    ReductionIsConfirmed
CHECK_DEADLOCK FALSE
