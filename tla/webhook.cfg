SPECIFICATION Spec
CONSTANTS
    e1 = e1
    e2 = e2
    Epcs = {e1, e2}
    MinReads = 1
    DepartAfter = 2
    IncludeTags = TRUE
    QueueSize = 2
    BatchMax = 2
    Backlog = 2
    MaxReads = 3
INVARIANTS TypeOK Accounted
PROPERTIES PromptDepartures SilentTagsDepart RunEnds
CHECK_DEADLOCK FALSE
