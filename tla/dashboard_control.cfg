SPECIFICATION FairSpec
CONSTANTS
    r1 = r1
    r2 = r2
    r3 = r3
    Requests = {r1, r2, r3}
    Starters = {r1}
    MaxRequests = 5
    MaxPolicies = 2
INVARIANTS FlagIsTrue NoOrphan PolicyApplies RosterCurrent
PROPERTIES CancelledOnce Settles
CHECK_DEADLOCK FALSE
