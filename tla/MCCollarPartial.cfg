SPECIFICATION Spec
CONSTANTS
    Calls = {c1, c2}
    Puts = {p1, p2}
    Signals = {lossStop}
    LastDay = 1
    MaxOpens = 4
INVARIANT NeverPartial
