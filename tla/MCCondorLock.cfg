SPECIFICATION Spec
CONSTANTS
    MaxRolls = 1
    PutStrikes = {1, 2}
    CallStrikes = {1, 2}
    LastDay = 2
    MaxWork = 4
INVARIANT LockIsOwn
