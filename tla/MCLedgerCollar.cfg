SPECIFICATION LedgerCollarSpec
CONSTANTS
    shortLeg = shortLeg
    longLeg = longLeg
    monitor = monitor
    worker = worker
    Legs = {shortLeg, longLeg}
    Closers = {monitor, worker}
    OpenSide <- MCOpenSide
    Expiry <- MCExpiry
    LastDay = 4
    MaxLots = 2
    Calls = {c1, c2}
    Puts = {q1, q2}
    Signals = {lossStop, profitTarget}
    CollarDays = 2
    MaxOpens = 4
INVARIANTS
    TypeOK
    NoOverClose
    LiveLegSettleable
    HalfClosedIsKnown
    ExpiredLegsSettled
    CarriedLegClosable
    CollarTypeOK
    
    
PROPERTY ActedIsFlat
SYMMETRY CloserSymmetry
