-------------------------------- MODULE Mqtt --------------------------------
(***************************************************************************)
(* MQTTBridge.run(): an inventory pumped by ticked_stream() into a queue,  *)
(* each read published to a broker, the arrivals and departures that a     *)
(* PresenceTracker makes of them after it, and a retained status around    *)
(* it all.  The offline status is also the Last Will of the connection.    *)
(*                                                                         *)
(* The client (aiomqtt) and the broker are external.  A publish sends its  *)
(* message at once and awaits that the broker has it, for which it does    *)
(* not wait at QoS 0; the await can swallow a cancellation, which is why   *)
(* resurface_swallowed_cancel() follows each.  The connection is in order, *)
(* and may be lost with what is on its way.  A broker that loses a client  *)
(* publishes its will, unless the client has said that it goes.            *)
(***************************************************************************)
EXTENDS Presence, Integers, FiniteSets, Sequences

CONSTANTS
    Epcs,           \* tags
    QueueSize,      \* maxsize of the queue of ticked_stream()
    MaxReads        \* bound: reads

ASSUME MqttAssumption ==
    IsFiniteSet(Epcs) /\ QueueSize \in Nat \ {0} /\ MaxReads \in Nat

VARIABLES
    qos,        \* the qos of reads
    events,     \* publish_events
    source,     \* does the inventory go on?
    queue,      \* the queue of ticked_stream()
    visits,     \* the visits of the tracker
    pc,         \* what run() awaits; done, or dead with its process
    read,       \* the tag whose read is being published
    edges,      \* edges still to be published
    cancelled,  \* has the task been cancelled?
    published,  \* reads published
    link,       \* the connection: up, lost or closed
    wire,       \* messages on their way to the broker
    will,       \* does the broker keep a will for the connection?
    status,     \* the retained status
    present,    \* tags whose last event was an arrival, for a subscriber
    got,        \* reads the broker has taken in
    started,    \* history: has run() begun its loop?
    reads       \* bound: reads so far

setup == <<qos, events>>
bridge == <<source, queue, visits, pc, read, edges, cancelled, published, started>>
broker == <<will, status, present, got>>
mvars == <<setup, bridge, link, wire, broker, reads>>

\* The messages, for what the properties tell apart.
Status(s) == [kind |-> s]
Goodbye == [kind |-> "disconnect"]
TagMessage(e) == [kind |-> "tag", epc |-> e]
Edge(kind, e) == [kind |-> kind, epc |-> e]

None == "none"

\* What run() knows, and the bridge and the broker before it.
MqttInit ==
    /\ qos \in {0, 1} /\ events \in BOOLEAN
    /\ source = TRUE /\ queue = <<>> /\ visits = NoVisits
    /\ pc = "connect" /\ read = None /\ edges = {} /\ cancelled = FALSE
    /\ published = 0 /\ started = FALSE
    /\ link = "closed" /\ wire = <<>>
    /\ will = FALSE /\ status = "offline" /\ present = {} /\ got = 0
    /\ reads = 0

-----------------------------------------------------------------------------
(* The inventory, the pump and the clock.  The generator begins with the   *)
(* loop over it.                                                           *)

Publishing == pc \in {"tag", "edge"}
InLoop == pc = "get" \/ Publishing

Read(e) ==
    /\ InLoop /\ source /\ reads < MaxReads /\ Len(queue) < QueueSize
    /\ queue' = Append(queue, e)
    /\ reads' = reads + 1
    /\ UNCHANGED <<setup, source, visits, pc, read, edges, cancelled,
                   published, started, link, wire, broker>>

SourceEnds ==
    /\ InLoop /\ source
    /\ source' = FALSE
    /\ UNCHANGED <<setup, queue, visits, pc, read, edges, cancelled,
                   published, started, link, wire, broker, reads>>

\* Time passes while the loop has nothing to do, and while it publishes.
Clock ==
    /\ Publishing \/ (pc = "get" /\ queue = <<>>)
    /\ visits' = Later(visits)
    /\ UNCHANGED <<setup, source, queue, pc, read, edges, cancelled,
                   published, started, link, wire, broker, reads>>

-----------------------------------------------------------------------------
(* run()                                                                   *)

\* A publish sends its message, and fails at once without a connection.
Send(m) == link = "up" /\ wire' = Append(wire, m)

\* The connection is made, with its will, and the status published.
Connect ==
    /\ pc = "connect"
    /\ link' = "up" /\ will' = TRUE
    /\ wire' = <<Status("online")>>
    /\ pc' = "online"
    /\ UNCHANGED <<setup, source, queue, visits, read, edges, cancelled,
                   published, started, status, present, got, reads>>

\* The client is left: it says that it goes if it still can.
Disconnect ==
    /\ pc' = "done"
    /\ Send(Goodbye) \/ (link # "up" /\ UNCHANGED wire)

\* The loop is left, in whatever way: the pump is cancelled and its inventory
\* torn down, and the offline status published.
Leave ==
    /\ source' = FALSE /\ queue' = <<>> /\ edges' = {} /\ read' = None
    /\ \/ Send(Status("offline")) /\ pc' = "goodbye"
       \/ link # "up" /\ Disconnect

\* The next of some edges is published, or the next item awaited.
Proceed(some) ==
    \/ /\ some = {} /\ pc' = "get" /\ edges' = {}
       /\ UNCHANGED <<source, queue, wire>>
    \/ /\ \E edge \in some :
             /\ Send(edge)
             /\ edges' = some \ {edge}
       /\ pc' = "edge"
       /\ UNCHANGED <<source, queue>>
    \/ some # {} /\ link # "up" /\ Leave

\* A read is published.
TakeTag ==
    /\ pc = "get" /\ queue # <<>>
    /\ \/ /\ Send(TagMessage(Head(queue)))
          /\ queue' = Tail(queue) /\ read' = Head(queue) /\ pc' = "tag"
          /\ UNCHANGED <<source, edges>>
       \/ link # "up" /\ Leave
    /\ UNCHANGED <<setup, visits, cancelled, published, started, link, broker,
                   reads>>

Departures(after) == {Edge("departed", e) : e \in Departs(after)}

\* A tick without a read.
QuietTick ==
    /\ pc = "get" /\ queue = <<>> /\ source /\ events
    /\ visits' = Check(visits)
    /\ Proceed(Departures(visits))
    /\ UNCHANGED <<setup, cancelled, published, started, link, broker, reads>>
    /\ read' = None

\* A tick without a read after the inventory has ended.
StreamEnds ==
    /\ pc = "get" /\ queue = <<>> /\ ~source
    /\ Leave
    /\ UNCHANGED <<setup, visits, cancelled, published, started, link, broker,
                   reads>>

Loop == Connect \/ TakeTag \/ QuietTick \/ StreamEnds

-----------------------------------------------------------------------------
(* The end of a publish                                                    *)

\* The status is out: the loop begins, unless the task was cancelled.
OnlineSaid ==
    /\ pc = "online" /\ link = "up" /\ wire = <<>>
    /\ \/ ~cancelled /\ pc' = "get" /\ started' = TRUE /\ UNCHANGED wire
       \/ cancelled /\ Disconnect /\ UNCHANGED started
    /\ UNCHANGED <<setup, source, queue, visits, read, edges, cancelled,
                   published, link, broker, reads>>

\* Mutant of TagSaid: a swallowed cancellation stays swallowed.
TagSaidRegardless ==
    /\ pc = "tag" /\ link = "up" /\ (qos = 0 \/ wire = <<>>)
    /\ published' = published + 1
    /\ read' = None
    /\ UNCHANGED visits /\ Proceed({})
    /\ UNCHANGED <<setup, cancelled, started, link, broker, reads>>

\* The read is out: it is counted, and then seen by the tracker.
TagSaid ==
    /\ pc = "tag" /\ link = "up" /\ (qos = 0 \/ wire = <<>>)
    /\ published' = published + 1
    /\ read' = None
    /\ IF cancelled THEN UNCHANGED visits /\ Leave
       ELSE IF ~events THEN UNCHANGED visits /\ Proceed({})
       ELSE LET after == Observe(visits, read)
                arrival == {Edge("arrived", e) : e \in {d \in {read} : Arrives(visits, d)}}
            IN  visits' = Check(after) /\ Proceed(arrival \cup Departures(after))
    /\ UNCHANGED <<setup, cancelled, started, link, broker, reads>>

\* Mutant of EdgeSaid: the edges that are left are forgotten.
EdgeSaidOnce ==
    /\ pc = "edge" /\ link = "up" /\ wire = <<>>
    /\ IF cancelled THEN Leave ELSE Proceed({}) /\ read' = None
    /\ UNCHANGED <<setup, visits, cancelled, published, started, link, broker,
                   reads>>

EdgeSaid ==
    /\ pc = "edge" /\ link = "up" /\ wire = <<>>
    /\ IF cancelled THEN Leave ELSE Proceed(edges) /\ read' = None
    /\ UNCHANGED <<setup, visits, cancelled, published, started, link, broker,
                   reads>>

\* MqttError: the connection is lost, or the broker takes too long.
PublishFails ==
    /\ \/ Publishing /\ Leave
       \/ pc = "online" /\ Disconnect /\ UNCHANGED <<source, queue, edges, read>>
    /\ UNCHANGED <<setup, visits, cancelled, published, started, link, broker,
                   reads>>

\* The offline status is out, or its 2 s are over, or it fails.
GoodbyeEnds ==
    /\ pc = "goodbye"
    /\ Disconnect
    /\ UNCHANGED <<setup, source, queue, visits, read, edges, cancelled,
                   published, started, link, broker, reads>>

Publish == OnlineSaid \/ TagSaid \/ EdgeSaid \/ PublishFails \/ GoodbyeEnds

\* The task is cancelled; an await of the client may swallow it.
Cancel ==
    /\ ~cancelled /\ cancelled' = TRUE
    /\ \/ pc \in {"online", "tag", "edge", "goodbye"}
          /\ UNCHANGED <<source, queue, pc, edges, read, wire>>
       \/ pc \in {"connect", "online", "goodbye"} /\ Disconnect
          /\ UNCHANGED <<source, queue, edges, read>>
       \/ InLoop /\ Leave
    /\ UNCHANGED <<setup, visits, published, started, link, broker, reads>>

-----------------------------------------------------------------------------
(* The broker and the connection                                           *)

\* The broker takes in the next message.
Takes ==
    /\ wire # <<>>
    /\ wire' = Tail(wire)
    /\ LET m == Head(wire)
       IN  /\ status' = IF m.kind \in {"online", "offline"} THEN m.kind ELSE status
           /\ present' = CASE m.kind = "arrived" -> present \cup {m.epc}
                           [] m.kind = "departed" -> present \ {m.epc}
                           [] OTHER -> present
           /\ got' = IF m.kind = "tag" THEN got + 1 ELSE got
           /\ will' = (will /\ m # Goodbye)
           /\ link' = IF m = Goodbye THEN "closed" ELSE link
    /\ UNCHANGED <<setup, bridge, reads>>

\* The connection is lost, with what is on its way.
Lose ==
    /\ link = "up"
    /\ link' = "lost" /\ wire' = <<>>
    /\ UNCHANGED <<setup, bridge, broker, reads>>

\* The broker notices.
WillSaid ==
    /\ link = "lost" /\ will
    /\ status' = "offline" /\ will' = FALSE
    /\ UNCHANGED <<setup, bridge, link, wire, present, got, reads>>

\* The process dies; its connection follows it (Lose).
Crash ==
    /\ pc \notin {"connect", "done", "dead"}
    /\ pc' = "dead"
    /\ UNCHANGED <<setup, source, queue, visits, read, edges, cancelled,
                   published, started, link, wire, broker, reads>>

Network == Takes \/ WillSaid

-----------------------------------------------------------------------------
Next == \/ \E e \in Epcs : Read(e)
        \/ SourceEnds \/ Clock \/ Loop \/ Publish \/ Cancel \/ Crash
        \/ Network \/ Lose

\* The event loop runs, a publish ends by the client's timeout, the broker
\* works, and a dead process loses its connection.
Fairness == /\ WF_mvars(Connect) /\ WF_mvars(TakeTag) /\ WF_mvars(StreamEnds)
            /\ WF_mvars(Publish) /\ WF_mvars(Network)
            /\ WF_mvars(pc = "dead" /\ Lose)

Spec == MqttInit /\ [][Next]_mvars /\ Fairness

-----------------------------------------------------------------------------
(* Properties                                                              *)

\* Types, and the queue within its bound.
TypeOK ==
    /\ {source, cancelled, will, started, events} \subseteq BOOLEAN
    /\ pc \in {"connect", "online", "get", "tag", "edge", "goodbye", "done", "dead"}
    /\ link \in {"up", "lost", "closed"} /\ status \in {"online", "offline"}
    /\ Len(queue) <= QueueSize /\ Range(queue) \subseteq Epcs
    /\ DOMAIN visits \subseteq Epcs /\ present \subseteq Epcs
    /\ read \in Epcs \cup {None} /\ (pc = "tag" => read \in Epcs)

\* What a subscriber sees is what the bridge knows.  A tag's events are in
\* turn an arrival and a departure; and whenever the loop waits for a read,
\* with nothing on its way to the broker, the status is online, the tags
\* that have arrived are those present, and every read was published.
SubscribersAgree ==
    /\ TypeOK
    /\ wire # <<>> =>
          /\ Head(wire).kind = "arrived" => Head(wire).epc \notin present
          /\ Head(wire).kind = "departed" => Head(wire).epc \in present
    /\ pc = "get" /\ link = "up" /\ wire = <<>> =>
          /\ status = "online"
          /\ events => present = Present(visits)
          /\ published = got

\* "Subscribers can always trust this topic for liveness": the end of the
\* inventory, a cancellation, wherever it hits, and the death of the process
\* end with an offline status for good.  (One that hits before the loop has
\* begun need not: run() then takes its leave politely and says nothing.)
Farewell ==
    /\ ~source \/ cancelled ~> pc \in {"done", "dead"}
    /\ pc \in {"done", "dead"} /\ started ~> [](status = "offline")
    /\ pc = "dead" ~> [](status = "offline")
=============================================================================
