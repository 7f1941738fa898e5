SPECIFICATION Spec
CONSTANTS
    MaxOpen = TRUE
    BlindGaps = FALSE
    QueueSize = 2
    MaxTrips = 3
    MaxReads = 1
    MaxCalls = 2
    MaxConns = 2
INVARIANT Contents
PROPERTIES OnePerTrip TripsGetWindows
CHECK_DEADLOCK FALSE
