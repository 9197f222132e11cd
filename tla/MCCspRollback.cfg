SPECIFICATION Spec
CONSTANTS
    Puts = {p1, p2}
    MaxSells = 4
    LastDay = 1
INVARIANT RollbackRestores
