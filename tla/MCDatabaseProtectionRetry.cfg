\* The user switches the protection again after a switch that failed.
SPECIFICATION Spec
CONSTANTS
    Clip = {c1}
    MaxCrashes = 0
    MaxFaults = 1
INVARIANT InsistingLosesNothing
