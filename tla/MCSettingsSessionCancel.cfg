SPECIFICATION Spec
CONSTANTS
    h1 = h1
    h2 = h2
    h3 = h3
    p1 = p1
    Combos = {h1, h2, h3}
    NoCombo = NoCombo
    Programs = {p1}
    Hashed = {p1}
    Cut = Cut
    Numbers = {}
    NoText = NoText
    MaxPins = 2
    Default <- MCDefault
    Stored <- MCStored
    MaxEdits = 1
    MaxTurns = 3
INVARIANTS
    CancelGoesBack
CHECK_DEADLOCK FALSE
