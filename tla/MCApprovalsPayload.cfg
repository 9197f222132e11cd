SPECIFICATION Spec
CONSTANTS
    Requests = {1}
    Actionable = {}
    MaxPresses = 2
    MaxStops = 1
INVARIANT ApprovedIsExecuted
