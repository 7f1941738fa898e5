SPECIFICATION WireSpec
CONSTANTS
    Classes <- MCClasses
    AllSlots <- MCSlots
    Structures <- MCStructures
    MaxDepth = 5
    MaxEdits = 2
    MaxAltered = 18
    Pairs = TRUE
INVARIANTS RoundTrip Strict Lossless
CHECK_DEADLOCK FALSE
