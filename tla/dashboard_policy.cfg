SPECIFICATION Spec
CONSTANTS
    r1 = r1
    r2 = r2
    r3 = r3
    Requests = {r1, r2}
    Starters = {r1, r2}
    MaxRequests = 5
    MaxPolicies = 1
INVARIANT PolicyApplies
CHECK_DEADLOCK FALSE
