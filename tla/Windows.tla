------------------------------- MODULE Windows -------------------------------
(***************************************************************************)
(* Reader.windows(): a gated inventory and the feed of GPI edges, pumped   *)
(* by two tasks into one queue that assemble_windows() folds into windows, *)
(* one for each trip of a sensor line.                                     *)
(*                                                                         *)
(* A trip is known by its number, a read by its trip and its place in it.  *)
(* Edges reach the merged queue as they are dispatched: the task that      *)
(* pumps them never waits.  Reads come by another way, in order but any    *)
(* time later; `late` is all of that way, the reader's included.  Edges    *)
(* that nobody pumps stay in client.gpi_edges for the next call.           *)
(***************************************************************************)
EXTENDS DropOldest, Integers, SequencesExt

CONSTANTS
    MaxOpen,    \* is max_open set?
    BlindGaps,  \* does the line change while the connection is down?
    QueueSize,  \* maxsize of client.gpi_edges
    MaxTrips,   \* bound: trips
    MaxReads,   \* bound: reads of a trip
    MaxCalls,   \* bound: calls of windows()
    MaxConns    \* bound: connections

ASSUME WindowsAssumption ==
    /\ {MaxOpen, BlindGaps} \subseteq BOOLEAN
    /\ QueueSize \in Nat \ {0}
    /\ {MaxTrips, MaxReads, MaxCalls, MaxConns} \subseteq Nat

VARIABLES
    line,       \* is the line at its active level?
    trips,      \* the trips so far
    active,     \* is the gated ROSpec active on the reader?
    enabled,    \* does the reader report edges of the line?
    connected,  \* client.connected
    seen,       \* how many tags the reader read in each trip
    late,       \* reads on their way to the merged queue
    gpiEdges,   \* client.gpi_edges
    phase,      \* the call: off, setup, armed, ended
    queue,      \* the merged queue
    open,       \* open_at, as a trip; 0 for None
    settling,   \* is settle_deadline set?
    tags,       \* tags
    out,        \* the windows handed out, by all calls
    base,       \* history: trips that no window is owed for
    prompt,     \* does a read arrive within `settle` and before the next trip?
    calls, conns    \* counters

reader == <<line, trips, active, enabled, seen, prompt>>
assembler == <<open, settling, tags>>
counters == <<calls, conns>>
wvars == <<reader, connected, late, gpiEdges, phase, queue, assembler, out,
           base, counters>>

Trips == 1..MaxTrips
None == 0

WindowsInit ==
    /\ line = FALSE /\ trips = 0 /\ active = FALSE /\ enabled \in BOOLEAN
    /\ connected = TRUE /\ seen = [t \in Trips |-> 0]
    /\ late = <<>> /\ gpiEdges = <<>>
    /\ phase = "off" /\ queue = <<>>
    /\ open = None /\ settling = FALSE /\ tags = <<>> /\ out = <<>>
    /\ base = 0 /\ prompt \in BOOLEAN /\ calls = 0 /\ conns = 1

-----------------------------------------------------------------------------
(* The line and the reader.                                                *)

\* A GPIEvent is dispatched into client.gpi_edges, and pumped on if a call
\* is there to do it.
Report(kind) ==
    LET edge == [kind |-> kind, trip |-> trips'] IN
    IF ~(enabled /\ connected) THEN UNCHANGED <<queue, gpiEdges>>
    ELSE IF phase = "off"
    THEN gpiEdges' = Offer(gpiEdges, edge, QueueSize) /\ UNCHANGED queue
    ELSE queue' = Append(queue, edge) /\ UNCHANGED gpiEdges

\* The line goes to its active level: an armed ROSpec becomes active.
TripBegins ==
    /\ connected \/ BlindGaps
    /\ ~line /\ trips < MaxTrips
    /\ prompt => late = <<>>
    /\ line' = TRUE /\ trips' = trips + 1
    /\ active' = (phase = "armed")
    /\ Report("up")
    /\ base' = IF phase \in {"armed", "ended"} THEN base ELSE trips'
    /\ UNCHANGED <<enabled, prompt, connected, seen, late, phase, assembler,
                   out, counters>>

\* It is released, which stops the ROSpec.
TripEnds ==
    /\ connected \/ BlindGaps
    /\ line
    /\ line' = FALSE /\ active' = FALSE /\ UNCHANGED trips
    /\ Report("down")
    /\ UNCHANGED <<enabled, prompt, connected, seen, late, phase, assembler,
                   out, base, counters>>

\* The active ROSpec reads a tag.
ReadTag ==
    /\ active /\ seen[trips] < MaxReads
    /\ seen' = [seen EXCEPT ![trips] = @ + 1]
    /\ late' = Append(late, <<trips, seen'[trips]>>)
    /\ UNCHANGED <<line, trips, active, enabled, prompt, connected, gpiEdges,
                   phase, queue, assembler, out, base, counters>>

\* A report is dispatched, yielded by inventory() and pumped on.
PumpRead ==
    /\ late # <<>>
    /\ queue' = Append(queue, [kind |-> "tag", tag |-> Head(late)])
    /\ late' = Tail(late)
    /\ UNCHANGED <<reader, connected, gpiEdges, phase, assembler, out, base,
                   counters>>

\* LLRPClient.connect() once more: gpi_edges is the same queue.
Reconnect ==
    /\ ~connected /\ phase = "off" /\ conns < MaxConns
    /\ connected' = TRUE /\ conns' = conns + 1
    /\ UNCHANGED <<reader, late, gpiEdges, phase, queue, assembler, out,
                   base, calls>>

Line == TripBegins \/ TripEnds \/ ReadTag

-----------------------------------------------------------------------------
(* The call: the gated inventory begins, is armed, and ends.               *)

\* gpi_events() finds what client.gpi_edges has kept.
Backlog == queue' = gpiEdges /\ gpiEdges' = <<>>

\* windows() is called: both pumps start, and inventory() sends its requests.
Call ==
    /\ phase = "off" /\ connected /\ calls < MaxCalls
    /\ phase' = "setup" /\ calls' = calls + 1
    /\ Backlog
    /\ UNCHANGED <<reader, connected, late, assembler, out, base, conns>>

\* The reader has enabled the input and armed the ROSpec.
Arm ==
    /\ phase = "setup"
    /\ phase' = "armed" /\ enabled' = TRUE
    /\ UNCHANGED <<line, trips, active, seen, prompt, connected, late,
                   gpiEdges, queue, assembler, out, base, counters>>

\* inventory() is over: pump_into() has forwarded its exception, and then
\* the watcher ends the merged queue.  The reader has no ROSpec any more.
InventoryEnds(items) ==
    /\ phase' = "ended" /\ active' = FALSE /\ late' = <<>>
    /\ queue' = queue \o items
    /\ UNCHANGED <<line, trips, enabled, seen, prompt, gpiEdges, assembler,
                   out, base, calls>>

EndItem == [kind |-> "end"]
ErrorItem == [kind |-> "error"]

\* duration or max_tags
Finish ==
    /\ phase = "armed"
    /\ InventoryEnds(<<EndItem>>)
    /\ UNCHANGED <<connected, conns>>

\* A request of the set-up is refused.
Refused ==
    /\ phase = "setup"
    /\ InventoryEnds(<<ErrorItem, EndItem>>)
    /\ UNCHANGED <<connected, conns>>

\* The connection is lost, with what was on it.
Lose ==
    /\ connected
    /\ connected' = FALSE /\ UNCHANGED conns
    /\ IF phase \in {"setup", "armed"}
       THEN InventoryEnds(<<ErrorItem, EndItem>>)
       ELSE UNCHANGED <<reader, late, gpiEdges, phase, queue, assembler, out,
                        base, calls>>

\* The `finally` of windows(): pumps, watcher and both sources are gone.
Leave ==
    /\ phase' = "off" /\ queue' = <<>> /\ late' = <<>>
    /\ open' = None /\ settling' = FALSE /\ tags' = <<>>
    /\ active' = FALSE /\ base' = trips
    /\ UNCHANGED <<line, trips, enabled, seen, prompt, connected, gpiEdges,
                   counters>>

\* The consumer closes the generator.
Stop ==
    /\ phase # "off"
    /\ Leave
    /\ UNCHANGED out

Calling == Call \/ Arm \/ Finish \/ Refused \/ Lose \/ Stop

-----------------------------------------------------------------------------
(* assemble_windows()                                                      *)

\* _window(), and why it is handed out.
Window(why) == [trip |-> open, tags |-> tags, why |-> why]

\* Mutant of Close: an empty window is not handed out.
CloseNotEmpty(why) ==
    /\ out' = IF tags = <<>> THEN out ELSE Append(out, Window(why))
    /\ open' = None /\ settling' = FALSE /\ tags' = <<>>

\* A window is handed out and none is open.
Close(why) ==
    /\ out' = Append(out, Window(why))
    /\ open' = None /\ settling' = FALSE /\ tags' = <<>>

\* Mutant of Opened: an edge to the active level is ignored while settling.
OpenedIfIdle(edge) ==
    IF open = None
    THEN open' = edge.trip /\ UNCHANGED <<settling, tags, out>>
    ELSE UNCHANGED <<assembler, out>>

\* An edge to the active level: a new object; what was settling is handed out.
Opened(edge) ==
    IF open = None
    THEN open' = edge.trip /\ UNCHANGED <<settling, tags, out>>
    ELSE IF settling
    THEN /\ out' = Append(out, Window("next"))
         /\ open' = edge.trip /\ settling' = FALSE /\ tags' = <<>>
    ELSE UNCHANGED <<assembler, out>>

\* Mutant of Released: the window is handed out without a grace period.
ReleasedAtOnce(edge) ==
    IF open # None THEN Close("settled") ELSE UNCHANGED <<assembler, out>>

\* An edge to the inactive level: the grace period begins.
Released(edge) ==
    /\ settling' = (open # None)
    /\ UNCHANGED <<open, tags, out>>

\* A tag: collected while a window is open, noise otherwise.
Collected(item) ==
    /\ tags' = IF open # None THEN Append(tags, item.tag) ELSE tags
    /\ UNCHANGED <<open, settling, out>>

\* An item that leaves the call going.
Fold ==
    /\ queue # <<>>
    /\ LET item == Head(queue) IN
       \/ item.kind = "up" /\ Opened(item)
       \/ item.kind = "down" /\ Released(item)
       \/ item.kind = "tag" /\ Collected(item)
    /\ queue' = Tail(queue)
    /\ UNCHANGED <<reader, connected, late, gpiEdges, phase, base, counters>>

\* END_OF_STREAM or an exception: only the first hands out the open window.
FoldEnd ==
    /\ queue # <<>> /\ Head(queue).kind \in {"end", "error"}
    /\ out' = IF Head(queue).kind = "end" /\ open # None
              THEN Append(out, Window("ended")) ELSE out
    /\ Leave

\* The grace period is over; a timer fires only when the queue is empty.
GraceOver ==
    /\ phase # "off" /\ queue = <<>> /\ settling
    /\ prompt => late = <<>>
    /\ Close("settled")
    /\ UNCHANGED <<reader, connected, late, gpiEdges, phase, queue, base,
                   counters>>

\* max_open is over and the closing edge has not come.
ForceClose ==
    /\ MaxOpen /\ phase # "off" /\ queue = <<>> /\ open # None /\ ~settling
    /\ Close("forced")
    /\ UNCHANGED <<reader, connected, late, gpiEdges, phase, queue, base,
                   counters>>

Assemble == Fold \/ FoldEnd \/ GraceOver \/ ForceClose

-----------------------------------------------------------------------------
Next == Line \/ PumpRead \/ Reconnect \/ Calling \/ Assemble

\* asyncio runs the pumps, the assembler and its timers; nothing makes the
\* line trip, the reader read or the consumer call.
Fairness ==
    WF_wvars(PumpRead) /\ WF_wvars(Fold \/ FoldEnd)
    /\ WF_wvars(GraceOver) /\ WF_wvars(ForceClose)

Spec == WindowsInit /\ [][Next]_wvars /\ Fairness

-----------------------------------------------------------------------------
(* Properties                                                              *)

Why == {"settled", "next", "forced", "ended"}
Tag == Trips \X (1..MaxReads)

\* Types of assemble_windows' locals and the queues, and what is true of them
\* between two items: no grace period and no tag without an open window,
\* nothing at all when no call is there.
TypeOK ==
    /\ {line, active, enabled, connected, settling} \subseteq BOOLEAN
    /\ trips \in 0..MaxTrips /\ open \in 0..trips
    /\ \A t \in Trips : seen[t] \in 0..MaxReads
    /\ Range(late) \subseteq Tag /\ Range(tags) \subseteq Tag
    /\ Len(gpiEdges) <= QueueSize
    /\ open = None => ~settling /\ tags = <<>>
    /\ phase = "off" => open = None /\ queue = <<>>
    /\ \A w \in Range(out) : w.trip \in 1..trips /\ w.why \in Why

\* Reader.windows(): "One InventoryWindow per trip of a sensor line", in the
\* order of the trips and with none passed over since the call was armed,
\* whatever settles, is forced closed or is lost in between.
Promise == INSTANCE WindowPerTrip WITH
    listening <- phase \in {"armed", "ended"},
    last <- IF out = <<>> THEN 0 ELSE out[Len(out)].trip
OnePerTrip == Promise!Spec

Earlier(a, b) == a[1] < b[1] \/ (a[1] = b[1] /\ a[2] < b[2])

\* A read counts once, in the order of reading, and never for a trip that
\* had not begun when it was made.
TagsOnce ==
    /\ \A w \in Range(out) : \A tag \in Range(w.tags) : tag[1] <= w.trip
    /\ \A i, j \in DOMAIN out : \A k \in DOMAIN out[i].tags, l \in DOMAIN out[j].tags :
           i < j \/ (i = j /\ k < l) => Earlier(out[i].tags[k], out[j].tags[l])

\* When reads arrive within the grace period, a window that its trip has
\* closed has every read of the trip, those that came after the edge too.
Whole ==
    prompt => \A w \in Range(out) : w.why \in {"settled", "next"} =>
                  w.tags = [i \in 1..seen[w.trip] |-> <<w.trip, i>>]

\* What a window holds, between two items as well: each read once, in order,
\* and all of its trip.
Contents == TypeOK /\ TagsOnce /\ Whole

\* A trip that begins under an armed call gets its window, unless the call
\* ends: neither a stuck line nor a lost edge keeps it back (max_open is set).
TripsGetWindows ==
    \A t \in Trips :
        phase = "armed" /\ line /\ trips = t /\ base < t
            ~> phase = "off" \/ \E w \in Range(out) : w.trip = t
=============================================================================
