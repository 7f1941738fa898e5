SPECIFICATION Spec
CONSTANTS
    e1 = e1
    e2 = e2
    Epcs = {e1, e2}
    MinReads = 1
    DepartAfter = 2
    QueueSize = 2
    MaxReads = 4
INVARIANTS SubscribersAgree
PROPERTIES Farewell
CHECK_DEADLOCK FALSE
