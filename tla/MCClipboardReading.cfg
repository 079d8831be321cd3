SPECIFICATION Spec
CONSTANTS
    Kinds <- MCKinds
    Start = 1
    CapTotal = 3
    MaxCopies = 2
    MaxEvents = 2
INVARIANTS
    TypeOK
    NeverInTheWay
    NothingMissed
    PrivateStaysUnread
PROPERTIES
    AllHandled
CHECK_DEADLOCK FALSE
