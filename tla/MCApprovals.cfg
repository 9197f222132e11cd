SPECIFICATION FairSpec
CONSTANTS
    Requests = {1, 2}
    Actionable = {1}
    MaxPresses = 3
    MaxStops = 1
INVARIANT TypeOK
PROPERTIES
    LifecycleSpec
    NoRequestPendsForever
