\* Two starts of the Explorer, two combinations, one event from outside and one
\* end of the program or uninstallation.
SPECIFICATION FairSpec
CONSTANTS
    Combo = {h1, h2}
    NoCombo = none
    MaxShell = 2
    MaxTaskbar = 1
    MaxEvents = 1
    MaxExits = 1
INVARIANTS
    TypeOK
    NeverBoth
    SlotsKnown
    VIsOnRecord
    TheirVStays
    WaitsForARestart
PROPERTIES
    AskedOncePerExplorer
    RestartEnds
