SPECIFICATION Spec
CONSTANTS
    Directions = {"CE"}
    Strikes = {1}
    Expiries = {2, 4}
    LastDay = 2
    LastEntry = 2
    ScanEnd = 4
    MaxSignals = 1
    Faults = {}
INVARIANT OvernightIsCarried
CHECK_DEADLOCK FALSE
