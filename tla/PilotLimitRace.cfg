CONSTANTS
    p1 = p1
    p2 = p2
    p3 = p3
    d1 = d1
    d2 = d2
    v1 = v1
    f1 = f1
    f2 = f2
    Processes = {p1, p2}
    Attempts = {d1, d2}
    TokenLimit = 5
    CallLimit = 2
    Missing = Missing
    Kind <- MCKind
    UpperOf <- MCUpperOf
    Costs <- MCCosts
    PilotLimit = 1
    ValidationLimit = 2
    PilotSpent = 1
    MaxFaults = 0
SPECIFICATION Spec
SYMMETRY Symmetry
CHECK_DEADLOCK FALSE
INVARIANT PilotIsLimited
