SPECIFICATION TracksSpec
CONSTANTS
    Options = {"a", "b"}
    NoTrade = "none"
    LastDay = 2
    MaxCrashes = 1
    Faults = {"crash", "blind", "raise"}
    Strikes = {1, 2}
    Wings = {1, 2}
    CycleLength = 4
    HardHold = 2
    ExitDte = 0
    BreachWindow = 2
    FinalDay = 5
    MaxPlans = 3
    MaxFailures = 1
    Directions = {"CE"}
    GammaStrikes = {1, 2}
    Expiries = {2, 4}
    GammaDays = 3
    LastEntry = 6
    ScanEnd = 8
    MaxSignals = 3
    GammaFaults = {"blind", "raise", "hand"}
INVARIANTS
    TracksTypeOK
    SellsPair
    OutcomeIsOwn
    WholeOrFlat
    OwnPlan
    LogIsLedger
    OnePerDirection
    NoneOutlivesContract
PROPERTY
    EntryCloses
CHECK_DEADLOCK FALSE
