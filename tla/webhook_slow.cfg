SPECIFICATION Spec
CONSTANTS
    e1 = e1
    e2 = e2
    Epcs = {e1, e2}
    MinReads = 1
    DepartAfter = 2
    IncludeTags = FALSE
    QueueSize = 2
    BatchMax = 1
    Backlog = 2
    MaxReads = 4
PROPERTY TrueDepartures
CHECK_DEADLOCK FALSE
