SPECIFICATION Spec
CONSTANTS
    Options = {"a", "b"}
    NoTrade = "none"
    LastDay = 2
    MaxCrashes = 0
    Faults = {"raise"}
INVARIANT
    SoldOnce
CHECK_DEADLOCK FALSE
