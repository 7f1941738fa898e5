SPECIFICATION Spec
CONSTANTS
    MaxOpen = TRUE
    BlindGaps = TRUE
    QueueSize = 2
    MaxTrips = 3
    MaxReads = 1
    MaxCalls = 1
    MaxConns = 2
PROPERTY OnePerTrip
CHECK_DEADLOCK FALSE
