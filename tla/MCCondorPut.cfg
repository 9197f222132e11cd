SPECIFICATION CondorPutSpec
CONSTANTS
    MaxRolls = 1
    PutStrikes = {1, 2, 3}
    CallStrikes = {1, 2}
    LastDay = 2
    MaxWork = 3
    Puts = {p1, p2, p3}
    PutDays = 2
    MaxSells = 4
INVARIANTS
    TypeOK
    ShortsAreCovered
    NeverReversed
    OneLegPerRole
    CreditIsOwn
    LockOnce
    LiveLegsAreOpen
    CspTypeOK
    
    
    
SYMMETRY PutSymmetry
