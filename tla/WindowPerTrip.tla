---------------------------- MODULE WindowPerTrip ----------------------------
(***************************************************************************)
(* What Reader.windows() promises: "One InventoryWindow per trip of a      *)
(* sensor line".  Trips are numbered; while somebody listens, windows are  *)
(* handed out for one trip after the other and none is passed over.  What  *)
(* happened before the listening began may come out or not, but no trip    *)
(* comes out twice or after a later one.                                   *)
(***************************************************************************)
EXTENDS Naturals

CONSTANT MaxTrips   \* bound: trips

VARIABLES
    trips,      \* trips of the line so far
    listening,  \* is a call of windows() listening?
    base,       \* trips that nobody is owed a window for
    last        \* the trip whose window was handed out last

Init == trips = 0 /\ listening = FALSE /\ base = 0 /\ last = 0

\* The line trips.
Trip ==
    /\ trips < MaxTrips
    /\ trips' = trips + 1
    /\ base' = IF listening THEN base ELSE trips'
    /\ UNCHANGED <<listening, last>>

\* A call begins to listen.
Listen ==
    /\ ~listening
    /\ listening' = TRUE
    /\ UNCHANGED <<trips, base, last>>

\* It ends, and the windows that were still to come with it.
Leave ==
    /\ listening
    /\ listening' = FALSE
    /\ base' = trips
    /\ UNCHANGED <<trips, last>>

\* The trip is the next one that a window is owed for.
IsNext(trip) == trip = 1 + (IF last > base THEN last ELSE base)

\* A window is handed out; the last one may end the call.
Hand ==
    /\ \E trip \in (last + 1)..trips :
        /\ trip > base => IsNext(trip)
        /\ last' = trip
    /\ \/ UNCHANGED <<listening, base>>
       \/ listening' = FALSE /\ base' = trips
    /\ UNCHANGED trips

Next == Trip \/ Listen \/ Leave \/ Hand

Spec == Init /\ [][Next]_<<trips, listening, base, last>>
=============================================================================
