SPECIFICATION Spec
CONSTANTS
    callWarn = callWarn
    putWarn = putWarn
    farWarn = farWarn
    near = near
    far = far
    Conditions = {callWarn, putWarn, farWarn}
    Groups = {near, far}
    GroupOf <- MCGroupOf
    MaxFaults = 1
INVARIANT ActiveWasDelivered
