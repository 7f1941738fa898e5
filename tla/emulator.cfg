SPECIFICATION FairSpec
CONSTANTS
    p1 = p1
    a1 = a1
    RoIds = {1, 2}
    Ports = {p1}
    Antennas = {a1}
    Setups <- MCSetups
INVARIANT ReportsExactly
PROPERTIES OwnTimeout CappedRunEnds CutAntennaFallsSilent
