SPECIFICATION Spec
CONSTANTS
    None = None
    Antennas = {1, 2}
    QuietAfter = 2
    BatchMax = 3
    MaxEvents = 2
    HubQueue = 3
    Situations <- MCSituations
INVARIANTS ReadsAccounted PageTrue
PROPERTIES QuietExactly Verdicts
CHECK_DEADLOCK FALSE
