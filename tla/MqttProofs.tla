----------------------------- MODULE MqttProofs -----------------------------
(***************************************************************************)
(* Mqtt proved for any set of tags, any size of the queue, any number of   *)
(* reads and any times of the tracker: what a subscriber sees is what the  *)
(* bridge knows.                                                           *)
(***************************************************************************)
EXTENDS Mqtt, SequenceTheorems, TLAPS

(***************************************************************************)
(* The inductive invariant.                                                *)
(***************************************************************************)

EdgeMessage == [kind : {"arrived", "departed"}, epc : Epcs]
Message == [kind : {"online", "offline", "disconnect"}]
           \cup [kind : {"tag", "arrived", "departed"}, epc : Epcs]

Types ==
    /\ TypeOK
    /\ qos \in {0, 1}
    /\ queue \in Seq(Epcs)
    /\ \A e \in DOMAIN visits : visits[e] \in [reads : Nat, silence : Nat]
    /\ edges \subseteq EdgeMessage
    /\ wire \in Seq(Message)
    /\ published \in Nat /\ got \in Nat

IsEdge(m) == m.kind \in {"arrived", "departed"}

\* An edge tells a subscriber something new.
New(m) == /\ m.kind = "arrived" => m.epc \notin present
          /\ m.kind = "departed" => m.epc \in present

\* One edge at most is on its way, and it is new.
WireInv ==
    \A i \in 1..Len(wire) :
        /\ New(wire[i])
        /\ \A j \in 1..Len(wire) : IsEdge(wire[i]) /\ IsEdge(wire[j]) => i = j

\* Before the loop nothing was said but that the bridge is online.
BeginInv ==
    /\ pc = "connect" => link = "closed" /\ wire = <<>>
    /\ pc = "online" => \/ wire = <<Status("online")>>
                        \/ wire = <<>> /\ (link = "up" => status = "online")
    /\ pc \in {"connect", "online"} =>
          present = {} /\ Present(visits) = {} /\ published = 0 /\ got = 0 /\ edges = {}

\* A set of edges leads from what a subscriber sees to what a tracker knows.
Leads(pending, seen, table) ==
    \A e \in Epcs :
        /\ Edge("arrived", e) \in pending => e \notin seen
        /\ Edge("departed", e) \in pending => e \in seen
        /\ e \in Present(table) <=> \/ Edge("arrived", e) \in pending
                                    \/ e \in seen /\ Edge("departed", e) \notin pending

\* Is an edge on its way?  It comes last.
EdgeOut == wire # <<>> /\ IsEdge(wire[Len(wire)])
Pending == edges \cup IF EdgeOut THEN {wire[Len(wire)]} ELSE {}

\* In the loop, all that is on its way are reads, with an edge behind them
\* while it is awaited; the reads are those published that the broker does
\* not have, and the edges that are left lead to the tracker.
LoopInv ==
    link = "up" /\ InLoop =>
        /\ status = "online"
        /\ \A i \in 1..Len(wire) :
              wire[i].kind = "tag" \/ (pc = "edge" /\ i = Len(wire) /\ IsEdge(wire[i]))
        /\ published + (IF pc = "tag" THEN 1 ELSE 0)
              = got + Len(wire) - (IF EdgeOut THEN 1 ELSE 0)
        /\ pc # "edge" => edges = {}
        /\ pc = "edge" => events
        /\ EdgeOut => wire[Len(wire)] \notin edges
        /\ events => Leads(Pending, present, visits)

Inv == Types /\ WireInv /\ BeginInv /\ LoopInv

-----------------------------------------------------------------------------
(* The tracker.                                                            *)

Table(v) == DOMAIN v \subseteq Epcs /\ \A e \in DOMAIN v : v[e] \in [reads : Nat, silence : Nat]

\* The bounds of the tracker.
LEMMA Times == MinReads \in Nat \ {0} /\ DepartAfter \in Nat \ {0}
BY PresenceAssumption

\* A read of a tag announces that tag or none.
LEMMA ObserveTable ==
    ASSUME NEW v, Table(v), NEW e \in Epcs
    PROVE  /\ Table(Observe(v, e))
           /\ e \notin Over(Observe(v, e))
           /\ \A d \in Epcs : d \in Present(Observe(v, e)) <=>
                                 d \in Present(v) \/ (d = e /\ Arrives(v, e))
           /\ Arrives(v, e) => e \notin Present(v)
<1> DEFINE new == [reads |-> Seen(v, e), silence |-> 0]
<1>1. Observe(v, e) = [d \in DOMAIN v \cup {e} |-> IF d = e THEN new ELSE v[d]]
    BY DEF Observe, Replaced
<1>2. Seen(v, e) \in Nat
    BY Times DEF Table, UpTo, Seen
<1>3. new \in [reads : Nat, silence : Nat] /\ new.silence = 0
    BY <1>2
<1>4. e \in DOMAIN v /\ v[e].reads = MinReads => new.reads = MinReads
    BY Times DEF UpTo, Seen
<1> HIDE DEF new
<1>5. DOMAIN Observe(v, e) = DOMAIN v \cup {e}
    BY <1>1
<1>6. /\ Observe(v, e)[e] = new
      /\ \A d \in DOMAIN v \ {e} : Observe(v, e)[d] = v[d]
    BY <1>1
<1>7. Table(Observe(v, e))
    BY <1>3, <1>5, <1>6 DEF Table
<1>8. e \notin Over(Observe(v, e))
    BY <1>3, <1>6, Times DEF Over
<1>9. \A d \in Epcs : d \in Present(Observe(v, e)) <=>
                          d \in Present(v) \/ (d = e /\ Arrives(v, e))
    BY <1>4, <1>5, <1>6 DEF Present, Announced, Arrives
<1> QED
    BY <1>7, <1>8, <1>9 DEF Arrives, Present

\* A check takes those away that depart.
LEMMA CheckTable ==
    ASSUME NEW v, Table(v)
    PROVE  /\ Table(Check(v))
           /\ Present(Check(v)) = Present(v) \ Departs(v)
           /\ Departs(v) \subseteq Present(v) /\ Departs(v) \subseteq Epcs
<1>1. Check(v) = [e \in DOMAIN v \ Over(v) |-> v[e]]
    BY DEF Check, Restrict
<1>2. DOMAIN Check(v) = DOMAIN v \ Over(v) /\ \A e \in DOMAIN Check(v) : Check(v)[e] = v[e]
    BY <1>1
<1> QED
    BY <1>2 DEF Table, Present, Announced, Departs, Over

\* The clock announces nobody and takes nobody away.
LEMMA LaterTable ==
    ASSUME NEW v, Table(v)
    PROVE  Table(Later(v)) /\ Present(Later(v)) = Present(v)
<1>1. DOMAIN Later(v) = DOMAIN v
    BY DEF Later
<1>2. ASSUME NEW e \in DOMAIN v
      PROVE  Later(v)[e] \in [reads : Nat, silence : Nat] /\ Later(v)[e].reads = v[e].reads
    <2>1. v[e] \in [reads : Nat, silence : Nat]
        BY DEF Table
    <2>2. UpTo(v[e].silence + 1, DepartAfter) \in Nat
        BY <2>1, Times DEF UpTo
    <2>3. Later(v)[e] = [v[e] EXCEPT !.silence = UpTo(v[e].silence + 1, DepartAfter)]
        BY DEF Later
    <2> QED
        BY <2>1, <2>2, <2>3
<1> QED
    BY <1>1, <1>2 DEF Table, Present, Announced

\* Before the first read nobody is there.
LEMMA NoTable == Table(NoVisits) /\ Present(NoVisits) = {}
<1>1. DOMAIN NoVisits = {}
    BY DEF NoVisits
<1> QED
    BY <1>1 DEF Table, Present

-----------------------------------------------------------------------------
(* Edges.                                                                  *)

\* An edge is its kind and its tag.
LEMMA EdgeIs ==
    /\ \A k, e : Edge(k, e).kind = k /\ Edge(k, e).epc = e
    /\ \A m \in EdgeMessage : m = Edge(m.kind, m.epc)
    /\ \A e \in Epcs : Edge("arrived", e) \in EdgeMessage /\ Edge("departed", e) \in EdgeMessage
BY DEF Edge, EdgeMessage

\* Nothing is left to tell to a subscriber who sees what the tracker knows.
LEMMA NothingToTell ==
    ASSUME NEW seen \in SUBSET Epcs, NEW v, Table(v)
    PROVE  Leads({}, seen, v) <=> seen = Present(v)
<1>1. Present(v) \subseteq Epcs
    BY DEF Present, Table
<1> QED
    BY <1>1 DEF Leads

\* What a check finds is what there is to tell after it.
LEMMA CheckLeads ==
    ASSUME NEW seen, NEW v, Table(v), Leads({}, seen, v)
    PROVE  Leads(Departures(v), seen, Check(v)) /\ Departures(v) \subseteq EdgeMessage
<1>1. \A e \in Epcs : Edge("departed", e) \in Departures(v) <=> e \in Departs(v)
    BY EdgeIs, CheckTable DEF Departures
<1>2. \A e \in Epcs : Edge("arrived", e) \notin Departures(v)
    BY EdgeIs DEF Departures
<1>3. Departures(v) \subseteq EdgeMessage
    BY EdgeIs, CheckTable DEF Departures
<1> QED
    BY <1>1, <1>2, <1>3, CheckTable DEF Leads

\* So is what a read and the check after it find.
LEMMA ReadLeads ==
    ASSUME NEW seen, NEW v, Table(v), NEW e \in Epcs, Leads({}, seen, v)
    PROVE  LET after == Observe(v, e)
               arrival == {Edge("arrived", a) : a \in {d \in {e} : Arrives(v, d)}}
           IN  /\ Leads(arrival \cup Departures(after), seen, Check(after))
               /\ arrival \cup Departures(after) \subseteq EdgeMessage
<1> DEFINE after == Observe(v, e)
           arrival == {Edge("arrived", a) : a \in {d \in {e} : Arrives(v, d)}}
           some == arrival \cup Departures(after)
<1>1. /\ Table(after) /\ e \notin Departs(after)
      /\ \A d \in Epcs : d \in Present(after) <=> d \in Present(v) \/ (d = e /\ Arrives(v, e))
      /\ Arrives(v, e) => e \notin Present(v)
    BY ObserveTable DEF Departs
<1> HIDE DEF after
<1>2. Departs(after) \subseteq Epcs /\ Departs(after) \subseteq Present(after)
      /\ Present(Check(after)) = Present(after) \ Departs(after)
    BY <1>1, CheckTable
<1>3. \A d \in Epcs : Edge("arrived", d) \in some <=> d = e /\ Arrives(v, e)
    BY EdgeIs DEF Departures
<1>4. \A d \in Epcs : Edge("departed", d) \in some <=> d \in Departs(after)
    BY EdgeIs DEF Departures
<1>5. some \subseteq EdgeMessage
    BY EdgeIs, <1>2 DEF Departures
<1>6. \A d \in Epcs : d \in Present(v) <=> d \in seen
    BY DEF Leads
<1> HIDE DEF some
<1>7. Leads(some, seen, Check(after))
    BY <1>1, <1>2, <1>3, <1>4, <1>6 DEF Leads
<1> QED
    BY <1>5, <1>7 DEF after, some

\* A subscriber who is told an edge that is pending has the others before it.
LEMMA EdgeTold ==
    ASSUME NEW pending, NEW seen, NEW v, Leads(pending, seen, v),
           NEW m \in EdgeMessage, m \in pending
    PROVE  LET then == IF m.kind = "arrived" THEN seen \cup {m.epc} ELSE seen \ {m.epc}
           IN  Leads(pending \ {m}, then, v)
<1> DEFINE then == IF m.kind = "arrived" THEN seen \cup {m.epc} ELSE seen \ {m.epc}
<1>1. m = Edge(m.kind, m.epc) /\ m.kind \in {"arrived", "departed"} /\ m.epc \in Epcs
    BY EdgeIs DEF EdgeMessage
<1>2. \A k, e : Edge(k, e) = m <=> k = m.kind /\ e = m.epc
    BY <1>1, EdgeIs
<1>3. \A k, e : Edge(k, e) \in pending \ {m} <=>
                    Edge(k, e) \in pending /\ ~(k = m.kind /\ e = m.epc)
    BY <1>2
<1>4. ASSUME NEW e \in Epcs
      PROVE  /\ Edge("arrived", e) \in pending \ {m} => e \notin then
             /\ Edge("departed", e) \in pending \ {m} => e \in then
             /\ e \in Present(v) <=> \/ Edge("arrived", e) \in pending \ {m}
                                     \/ e \in then /\ Edge("departed", e) \notin pending \ {m}
    <2>1. CASE e # m.epc
        BY <2>1, <1>3 DEF Leads
    <2>2. CASE e = m.epc /\ m.kind = "arrived"
        <3>1. Edge("arrived", e) \in pending
            BY <1>1, <2>2
        <3> QED
            BY <1>3, <2>2, <3>1 DEF Leads
    <2>3. CASE e = m.epc /\ m.kind = "departed"
        <3>1. Edge("departed", e) \in pending
            BY <1>1, <2>3
        <3> QED
            BY <1>3, <2>3, <3>1 DEF Leads
    <2> QED
        BY <1>1, <2>1, <2>2, <2>3
<1> QED
    BY <1>4 DEF Leads

-----------------------------------------------------------------------------
(* Types.                                                                  *)

\* What is sent are messages.
LEMMA Messages ==
    /\ Status("online") \in Message /\ Status("offline") \in Message
    /\ Goodbye \in Message
    /\ \A e \in Epcs : TagMessage(e) \in Message
    /\ EdgeMessage \subseteq Message
    /\ Status("online").kind = "online" /\ Status("offline").kind = "offline"
    /\ Goodbye.kind = "disconnect" /\ \A e : TagMessage(e).kind = "tag"
BY DEF Status, Goodbye, TagMessage, Message, EdgeMessage

\* What TypeOK says of the variables that Leave and Proceed change.
LEMMA LeaveTypes ==
    ASSUME Types, Leave
    PROVE  /\ source' = FALSE /\ queue' = <<>> /\ edges' = {} /\ read' = None
           /\ pc' \in {"goodbye", "done"} /\ wire' \in Seq(Message)
BY Messages DEF Types, Leave, Disconnect, Send

\* The same of Proceed.
LEMMA ProceedTypes ==
    ASSUME Types, NEW some, some \subseteq EdgeMessage, Proceed(some)
    PROVE  /\ source' \in BOOLEAN /\ queue' \in Seq(Epcs) /\ Len(queue') <= QueueSize
           /\ edges' \subseteq EdgeMessage
           /\ pc' \in {"get", "edge", "goodbye", "done"} /\ wire' \in Seq(Message)
<1>1. CASE Leave
    BY <1>1, LeaveTypes, MqttAssumption
<1>2. CASE ~Leave
    BY <1>2, Messages DEF Types, TypeOK, Proceed, Send
<1> QED
    BY <1>1, <1>2

\* A queue of tags holds tags.
LEMMA QueueRange == ASSUME NEW q \in Seq(Epcs) PROVE Range(q) \subseteq Epcs
BY DEF Range

\* The part of TypeOK and Types that run() changes.
BridgeTypes ==
    /\ source \in BOOLEAN /\ cancelled \in BOOLEAN /\ started \in BOOLEAN
    /\ pc \in {"connect", "online", "get", "tag", "edge", "goodbye", "done", "dead"}
    /\ queue \in Seq(Epcs) /\ Len(queue) <= QueueSize
    /\ Table(visits)
    /\ read \in Epcs \cup {None} /\ (pc = "tag" => read \in Epcs)
    /\ edges \subseteq EdgeMessage
    /\ wire \in Seq(Message)
    /\ published \in Nat

BrokerTypes ==
    /\ will \in BOOLEAN /\ link \in {"up", "lost", "closed"}
    /\ status \in {"online", "offline"} /\ present \subseteq Epcs /\ got \in Nat
    /\ events \in BOOLEAN /\ qos \in {0, 1}

\* Types, in two parts.
LEMMA TypesParts == Types <=> BridgeTypes /\ BrokerTypes
BY QueueRange DEF Types, TypeOK, BridgeTypes, BrokerTypes, Table

\* The types of the bridge after a read is out,
LEMMA TagSaidTypes ==
    ASSUME Types, TagSaid
    PROVE  BridgeTypes'
<1> USE DEF BridgeTypes
<1>1. BridgeTypes /\ BrokerTypes /\ read \in Epcs
    BY TypesParts DEF TagSaid
<1>2. /\ published' = published + 1 /\ read' = None
      /\ cancelled' = cancelled /\ started' = started
    BY DEF TagSaid
<1>3. CASE cancelled
    <2>1. visits' = visits /\ Leave
        BY <1>3 DEF TagSaid
    <2> QED
        BY <1>1, <1>2, <2>1, LeaveTypes, MqttAssumption
<1>4. CASE ~cancelled /\ ~events
    <2>1. visits' = visits /\ Proceed({})
        BY <1>4 DEF TagSaid
    <2> QED
        BY <1>1, <1>2, <2>1, ProceedTypes
<1>5. CASE ~cancelled /\ events
    <2> DEFINE after == Observe(visits, read)
               arrival == {Edge("arrived", e) : e \in {d \in {read} : Arrives(visits, d)}}
    <2>1. visits' = Check(after) /\ Proceed(arrival \cup Departures(after))
        BY <1>5 DEF TagSaid
    <2>2. Table(after) /\ Table(Check(after))
        BY <1>1, ObserveTable, CheckTable
    <2>3. Departs(after) \subseteq Epcs
        BY <2>2, CheckTable
    <2>4. arrival \cup Departures(after) \subseteq EdgeMessage
        BY <1>1, <2>3, EdgeIs DEF Departures
    <2> HIDE DEF after, arrival
    <2> QED
        BY <1>1, <1>2, <2>1, <2>2, <2>4, ProceedTypes
<1> QED
    BY <1>3, <1>4, <1>5

\* after any step of run(),
LEMMA LoopTypes ==
    ASSUME Types, Loop \/ Publish \/ Cancel
    PROVE  BridgeTypes'
<1> USE DEF BridgeTypes
<1>1. BridgeTypes /\ BrokerTypes
    BY TypesParts
<1>2. CASE Connect
    BY <1>1, <1>2, Messages DEF Connect
<1>3. CASE TakeTag
    <2>1. CASE Leave
        BY <1>1, <1>3, <2>1, LeaveTypes, MqttAssumption DEF TakeTag
    <2>2. CASE ~Leave
        <3>1. Head(queue) \in Epcs /\ Tail(queue) \in Seq(Epcs)
              /\ Len(Tail(queue)) <= QueueSize
            BY <1>1, <1>3, MqttAssumption DEF TakeTag
        <3>2. /\ wire' = Append(wire, TagMessage(Head(queue)))
              /\ queue' = Tail(queue) /\ read' = Head(queue) /\ pc' = "tag"
              /\ UNCHANGED <<source, edges, visits, cancelled, published, started>>
            BY <1>3, <2>2 DEF TakeTag, Send
        <3>3. TagMessage(Head(queue)) \in Message
            BY <3>1, Messages
        <3> QED
            BY <1>1, <3>1, <3>2, <3>3
    <2> QED
        BY <2>1, <2>2
<1>4. CASE QuietTick
    <2>1. Departures(visits) \subseteq EdgeMessage /\ Table(Check(visits))
        BY <1>1, CheckTable, EdgeIs DEF Departures
    <2>2. Proceed(Departures(visits)) /\ visits' = Check(visits) /\ read' = None
          /\ UNCHANGED <<cancelled, started, published>>
        BY <1>4 DEF QuietTick
    <2> QED
        BY <1>1, <2>1, <2>2, ProceedTypes
<1>5. CASE StreamEnds
    BY <1>1, <1>5, LeaveTypes, MqttAssumption DEF StreamEnds
<1>6. CASE OnlineSaid
    <2>1. /\ pc' \in {"get", "done"} /\ started' \in BOOLEAN
          /\ wire' = wire \/ wire' = Append(wire, Goodbye)
          /\ UNCHANGED <<source, queue, visits, read, edges, cancelled, published>>
        BY <1>1, <1>6 DEF OnlineSaid, Disconnect, Send
    <2>2. wire' \in Seq(Message)
        BY <1>1, <2>1, Messages
    <2>3. pc' # "tag" /\ pc' \in {"connect", "online", "get", "tag", "edge", "goodbye", "done", "dead"}
        BY <2>1
    <2> QED
        BY <1>1, <2>1, <2>2, <2>3
<1>7. CASE TagSaid
    BY <1>7, TagSaidTypes
<1>8. CASE EdgeSaid
    <2>1. CASE cancelled
        BY <1>1, <1>8, <2>1, LeaveTypes, MqttAssumption DEF EdgeSaid
    <2>2. CASE ~cancelled
        BY <1>1, <1>8, <2>2, ProceedTypes DEF EdgeSaid
    <2> QED
        BY <2>1, <2>2
<1>9. CASE PublishFails
    <2>1. CASE Leave
        BY <1>1, <1>9, <2>1, LeaveTypes, MqttAssumption DEF PublishFails
    <2>2. CASE ~Leave
        BY <1>1, <1>9, <2>2, Messages DEF PublishFails, Disconnect, Send
    <2> QED
        BY <2>1, <2>2
<1>10. CASE GoodbyeEnds
    BY <1>1, <1>10, Messages DEF GoodbyeEnds, Disconnect, Send
<1>11. CASE Cancel
    <2>1. CASE Leave
        BY <1>1, <1>11, <2>1, LeaveTypes, MqttAssumption DEF Cancel
    <2>2. CASE ~Leave
        BY <1>1, <1>11, <2>2, Messages DEF Cancel, Disconnect, Send
    <2> QED
        BY <2>1, <2>2
<1> QED
    BY <1>2, <1>3, <1>4, <1>5, <1>6, <1>7, <1>8, <1>9, <1>10, <1>11 DEF Loop, Publish

\* and all types after any step.
LEMMA TypesNext ==
    ASSUME Types, [Next]_mvars
    PROVE  Types'
<1>1. BridgeTypes /\ BrokerTypes
    BY TypesParts
<1>2. CASE Loop \/ Publish \/ Cancel
    <2>1. BridgeTypes'
        BY <1>2, LoopTypes
    <2>2. UNCHANGED <<setup, status, present, got>> /\ will' \in {will, TRUE} /\ link' \in {link, "up"}
        <3>1. CASE Loop
            BY <3>1 DEF Loop, Connect, TakeTag, QuietTick, StreamEnds, broker
        <3>2. CASE Publish
            BY <3>2 DEF Publish, OnlineSaid, TagSaid, EdgeSaid, PublishFails, GoodbyeEnds, broker
        <3>3. CASE Cancel
            BY <3>3 DEF Cancel, broker
        <3> QED
            BY <1>2, <3>1, <3>2, <3>3
    <2>3. BrokerTypes'
        BY <1>1, <2>2 DEF BrokerTypes, setup
    <2> QED
        BY <2>1, <2>3, TypesParts, PTL
<1>3. CASE \E e \in Epcs : Read(e)
    <2>1. PICK e \in Epcs : Read(e)
        BY <1>3
    <2>2. queue' = Append(queue, e) /\ Len(queue) < QueueSize
          /\ UNCHANGED <<source, visits, pc, read, edges, cancelled, published, started, wire>>
        BY <2>1 DEF Read
    <2>3. queue' \in Seq(Epcs) /\ Len(queue') <= QueueSize
        BY <1>1, <2>2, MqttAssumption DEF BridgeTypes
    <2>4. BridgeTypes'
        BY <1>1, <2>2, <2>3 DEF BridgeTypes
    <2>5. BrokerTypes'
        BY <1>1, <2>1 DEF BrokerTypes, Read, setup, broker
    <2> QED
        BY <2>4, <2>5, TypesParts, PTL
<1>4. CASE SourceEnds \/ Clock
    <2>1. /\ source' \in BOOLEAN /\ Table(visits')
          /\ UNCHANGED <<queue, pc, read, edges, cancelled, published, started, wire>>
        BY <1>1, <1>4, LaterTable DEF BridgeTypes, SourceEnds, Clock
    <2>2. BridgeTypes'
        BY <1>1, <2>1 DEF BridgeTypes
    <2>3. BrokerTypes'
        BY <1>1, <1>4 DEF BrokerTypes, SourceEnds, Clock, setup, broker
    <2> QED
        BY <2>2, <2>3, TypesParts, PTL
<1>5. CASE Takes
    <2>1. Head(wire) \in Message /\ Tail(wire) \in Seq(Message)
        BY <1>1, <1>5 DEF BridgeTypes, Takes
    <2>2. Head(wire).kind \in {"arrived", "departed"} => Head(wire).epc \in Epcs
        BY <2>1 DEF Message
    <2>3. BridgeTypes'
        BY <1>1, <1>5, <2>1 DEF BridgeTypes, Takes, bridge
    <2>4. BrokerTypes'
        BY <1>1, <1>5, <2>1, <2>2 DEF BrokerTypes, Takes, setup
    <2> QED
        BY <2>3, <2>4, TypesParts, PTL
<1>6. CASE Lose \/ WillSaid \/ Crash \/ UNCHANGED mvars
    <2>1. /\ pc' = pc \/ pc' = "dead"
          /\ wire' = wire \/ wire' = <<>>
          /\ UNCHANGED <<source, queue, visits, read, edges, cancelled, published, started>>
        BY <1>6 DEF Lose, WillSaid, Crash, mvars, bridge
    <2>2. wire' \in Seq(Message)
        <3>1. wire \in Seq(Message) /\ <<>> \in Seq(Message)
            BY <1>1 DEF BridgeTypes
        <3> QED
            BY <2>1, <3>1
    <2>3. /\ pc' \in {"connect", "online", "get", "tag", "edge", "goodbye", "done", "dead"}
          /\ pc' = "tag" => read \in Epcs
        BY <1>1, <2>1 DEF BridgeTypes
    <2>4. BridgeTypes'
        BY <1>1, <2>1, <2>2, <2>3 DEF BridgeTypes
    <2>5. /\ link' \in {link, "lost"} /\ status' \in {status, "offline"} /\ will' \in {will, FALSE}
          /\ UNCHANGED <<setup, present, got>>
        BY <1>6 DEF Lose, WillSaid, Crash, mvars, broker
    <2>6. BrokerTypes'
        BY <1>1, <2>5 DEF BrokerTypes, setup
    <2> QED
        BY <2>4, <2>6, TypesParts, PTL
<1> QED
    BY <1>2, <1>3, <1>4, <1>5, <1>6 DEF Next, Network

-----------------------------------------------------------------------------
(* The wire.                                                               *)

\* What is appended to the wire is last on it.
LEMMA Appended ==
    ASSUME wire \in Seq(Message), NEW m \in Message, wire' = Append(wire, m)
    PROVE  /\ Len(wire') = Len(wire) + 1 /\ wire' # <<>> /\ wire'[Len(wire')] = m
           /\ \A i \in 1..Len(wire) : wire'[i] = wire[i]
           /\ \A i \in 1..Len(wire') : i = Len(wire') \/ i \in 1..Len(wire)
OBVIOUS

\* What is taken from it moves the others up.
LEMMA Taken ==
    ASSUME wire \in Seq(Message), wire # <<>>, wire' = Tail(wire)
    PROVE  /\ Head(wire) = wire[1] /\ Len(wire) \in Nat \ {0} /\ Len(wire') = Len(wire) - 1
           /\ \A i \in 1..Len(wire') : i + 1 \in 1..Len(wire) /\ wire'[i] = wire[i + 1]
OBVIOUS

\* Reads and statuses are no edges.
LEMMA NoEdge ==
    /\ ~IsEdge(Status("online")) /\ ~IsEdge(Status("offline")) /\ ~IsEdge(Goodbye)
    /\ \A e : ~IsEdge(TagMessage(e))
BY Messages DEF IsEdge, Status, Goodbye, TagMessage

\* A message that is no edge may always follow; an edge must be new, and alone.
LEMMA WireAppend ==
    ASSUME wire \in Seq(Message), WireInv, present' = present,
           NEW m \in Message, wire' = Append(wire, m),
           IsEdge(m) => New(m) /\ \A i \in 1..Len(wire) : ~IsEdge(wire[i])
    PROVE  WireInv'
<1>1. ASSUME NEW i \in 1..Len(wire')
      PROVE  New(wire[i])'
    <2>1. CASE i \in 1..Len(wire)
        BY <2>1, Appended DEF WireInv, New
    <2>2. CASE i = Len(wire')
        BY <2>2, Appended DEF New, IsEdge
    <2> QED
        BY <2>1, <2>2, Appended
<1>2. ASSUME NEW i \in 1..Len(wire'), NEW j \in 1..Len(wire'),
             IsEdge(wire'[i]), IsEdge(wire'[j])
      PROVE  i = j
    <2>1. CASE i \in 1..Len(wire) /\ j \in 1..Len(wire)
        BY <1>2, <2>1, Appended DEF WireInv
    <2>2. CASE i = Len(wire') /\ j = Len(wire')
        BY <2>2
    <2>3. CASE \/ i = Len(wire') /\ j \in 1..Len(wire)
               \/ j = Len(wire') /\ i \in 1..Len(wire)
        BY <1>2, <2>3, Appended
    <2> QED
        BY <2>1, <2>2, <2>3, Appended
<1> QED
    BY <1>1, <1>2 DEF WireInv

\* What changes neither the wire nor the subscriber keeps the wire right.
LEMMA WireSame ==
    ASSUME WireInv, wire' = wire, present' = present
    PROVE  WireInv'
BY DEF WireInv, New

\* A bridge that leaves, or has left, keeps what the loop is about.
LEMMA Left ==
    ASSUME wire \in Seq(Message), WireInv, present' = present,
           wire' = wire \/ wire' = Append(wire, Goodbye) \/ wire' = Append(wire, Status("offline")),
           pc' \in {"goodbye", "done", "dead"}
    PROVE  WireInv' /\ BeginInv' /\ LoopInv'
<1>1. WireInv'
    <2>1. CASE wire' = wire
        BY <2>1, WireSame
    <2>2. CASE wire' = Append(wire, Goodbye)
        BY <2>2, WireAppend, Messages, NoEdge
    <2>3. CASE wire' = Append(wire, Status("offline"))
        BY <2>3, WireAppend, Messages, NoEdge
    <2> QED
        BY <2>1, <2>2, <2>3
<1>2. BeginInv' /\ LoopInv'
    BY DEF BeginInv, LoopInv, InLoop, Publishing
<1> QED
    BY <1>1, <1>2

\* Leave is such a step.
LEMMA LeaveLeft ==
    ASSUME Leave
    PROVE  /\ pc' \in {"goodbye", "done"}
           /\ wire' = wire \/ wire' = Append(wire, Goodbye) \/ wire' = Append(wire, Status("offline"))
BY DEF Leave, Disconnect, Send

-----------------------------------------------------------------------------
(* The loop.                                                               *)

\* What holds when nothing but reads is on its way.
Reading(some, number, v) ==
    /\ link = "up" /\ status = "online"
    /\ \A i \in 1..Len(wire) : wire[i].kind = "tag"
    /\ number = got + Len(wire)
    /\ events => Leads(some, present, v)
    /\ some # {} => events

\* So it is when run() awaits a read, or a publish that has ended.
LEMMA LoopReads ==
    ASSUME Types, LoopInv, link = "up", InLoop, pc = "edge" => wire = <<>>
    PROVE  /\ Reading(edges, published + (IF pc = "tag" THEN 1 ELSE 0), visits)
           /\ pc # "edge" => edges = {}
<1>1. wire \in Seq(Message) /\ published \in Nat /\ got \in Nat
    BY DEF Types
<1>2. \A i \in 1..Len(wire) : wire[i].kind = "tag"
    BY <1>1 DEF LoopInv
<1>3. ~EdgeOut
    BY <1>1, <1>2 DEF EdgeOut, IsEdge
<1>4. Pending = edges
    BY <1>3 DEF Pending
<1>5. published + (IF pc = "tag" THEN 1 ELSE 0) = got + Len(wire)
    BY <1>1, <1>3 DEF LoopInv
<1> QED
    BY <1>2, <1>4, <1>5 DEF LoopInv, Reading

\* With nothing awaited no edge is left to be told.
LEMMA GetReads ==
    ASSUME Types, LoopInv, link = "up", pc = "get"
    PROVE  Reading({}, published, visits) /\ edges = {}
<1>1. Reading(edges, published + (IF pc = "tag" THEN 1 ELSE 0), visits) /\ edges = {}
    BY LoopReads DEF InLoop
<1>2. published + (IF pc = "tag" THEN 1 ELSE 0) = published
    BY DEF Types
<1> QED
    BY <1>1, <1>2

\* The next of what is to be told is told.
LEMMA ProceedLoop ==
    ASSUME Types, WireInv, NEW some, some \subseteq EdgeMessage, Proceed(some),
           Reading(some, published', visits'),
           UNCHANGED <<link, status, present, got, events>>
    PROVE  WireInv' /\ BeginInv' /\ LoopInv'
<1>1. wire \in Seq(Message) /\ got \in Nat /\ link = "up"
    BY DEF Types, Reading
<1>2. \A i \in 1..Len(wire) : wire[i].kind = "tag" /\ ~IsEdge(wire[i])
    BY DEF Reading, IsEdge
<1>3. CASE some = {} /\ pc' = "get" /\ edges' = {} /\ wire' = wire
    <2>1. WireInv'
        BY <1>3, WireSame
    <2>2. EdgeOut' = FALSE /\ Pending' = {}
        BY <1>1, <1>2, <1>3 DEF EdgeOut, Pending
    <2>3. BeginInv'
        BY <1>3 DEF BeginInv
    <2>4. LoopInv'
        BY <1>1, <1>2, <1>3, <2>2 DEF LoopInv, Reading
    <2> QED
        BY <2>1, <2>3, <2>4
<1>4. CASE \E edge \in some : Send(edge) /\ edges' = some \ {edge} /\ pc' = "edge"
    <2>1. PICK edge \in some : Send(edge) /\ edges' = some \ {edge} /\ pc' = "edge"
        BY <1>4
    <2>2. edge \in EdgeMessage /\ edge \in Message /\ IsEdge(edge) /\ wire' = Append(wire, edge)
        BY <2>1, Messages DEF EdgeMessage, IsEdge, Send
    <2>3. events /\ Leads(some, present, visits')
        BY <2>1 DEF Reading
    <2>4. New(edge)
        <3>1. edge = Edge(edge.kind, edge.epc) /\ edge.epc \in Epcs
            BY <2>2, EdgeIs DEF EdgeMessage
        <3> QED
            BY <2>1, <2>3, <3>1 DEF Leads, New
    <2>5. WireInv'
        BY <1>1, <1>2, <2>2, <2>4, WireAppend
    <2>6. /\ Len(wire') = Len(wire) + 1 /\ wire' # <<>> /\ wire'[Len(wire')] = edge
          /\ \A i \in 1..Len(wire) : wire'[i] = wire[i]
          /\ \A i \in 1..Len(wire') : i = Len(wire') \/ i \in 1..Len(wire)
        BY <1>1, <2>2, Appended
    <2>7. EdgeOut' = TRUE /\ Pending' = some
        BY <2>1, <2>2, <2>6 DEF EdgeOut, Pending
    <2>8. published' = got' + Len(wire') - 1
        BY <1>1, <2>6 DEF Reading
    <2>9. \A i \in 1..Len(wire') : wire'[i].kind = "tag" \/ (i = Len(wire') /\ IsEdge(wire'[i]))
        BY <1>2, <2>2, <2>6
    <2>10. BeginInv'
        BY <2>1 DEF BeginInv
    <2>11. LoopInv'
        BY <2>1, <2>3, <2>6, <2>7, <2>8, <2>9 DEF LoopInv, Reading
    <2> QED
        BY <2>5, <2>10, <2>11
<1> QED
    BY <1>1, <1>3, <1>4 DEF Proceed

-----------------------------------------------------------------------------
(* The steps.                                                              *)

\* The rest of the invariant, which follows the types.
Told == WireInv /\ BeginInv /\ LoopInv

\* The loop takes the next item,
LEMMA LoopTold ==
    ASSUME Inv, Loop
    PROVE  Told'
<1> USE DEF Told
<1>1. Types /\ WireInv /\ BeginInv /\ LoopInv /\ wire \in Seq(Message)
    BY DEF Inv, Types
<1>2. CASE Connect
    <2>1. /\ wire' = <<Status("online")>> /\ pc' = "online" /\ pc = "connect"
          /\ UNCHANGED <<present, visits, published, got, edges>>
        BY <1>2 DEF Connect
    <2>2. Len(wire') = 1 /\ wire'[1] = Status("online") /\ Status("online").kind = "online"
        BY <2>1, Messages
    <2>3. WireInv'
        BY <2>2 DEF WireInv, New, IsEdge
    <2>4. BeginInv' /\ LoopInv'
        BY <1>1, <2>1 DEF BeginInv, LoopInv, InLoop, Publishing
    <2> QED
        BY <2>3, <2>4
<1>3. CASE TakeTag
    <2>1. present' = present
        BY <1>3 DEF TakeTag, broker
    <2>2. CASE Leave
        BY <1>1, <2>1, <2>2, LeaveLeft, Left
    <2>3. CASE ~Leave
        <3> DEFINE m == TagMessage(Head(queue))
        <3>1. /\ link = "up" /\ wire' = Append(wire, m) /\ pc = "get" /\ pc' = "tag"
              /\ UNCHANGED <<edges, visits, published, link, status, got, events>>
            BY <1>3, <2>3 DEF TakeTag, Send, setup, broker
        <3>2. m \in Message /\ m.kind = "tag" /\ ~IsEdge(m)
            <4>1. Head(queue) \in Epcs
                BY <1>1, <1>3 DEF TakeTag, Types
            <4> QED
                BY <4>1, Messages, NoEdge
        <3> HIDE DEF m
        <3>3. Reading({}, published, visits) /\ edges = {}
            BY <1>1, <3>1, GetReads
        <3>4. /\ Len(wire') = Len(wire) + 1 /\ wire'[Len(wire')] = m
              /\ \A i \in 1..Len(wire') : wire'[i].kind = "tag"
            BY <1>1, <3>1, <3>2, <3>3, Appended DEF Reading
        <3>5. EdgeOut' = FALSE /\ Pending' = {}
            BY <3>1, <3>2, <3>3, <3>4 DEF EdgeOut, Pending
        <3>6. published' + 1 = got' + Len(wire')
            BY <1>1, <3>1, <3>3, <3>4 DEF Reading, Types
        <3>7. got' + Len(wire') - 0 = got' + Len(wire')
            BY <1>1, <3>1, <3>4 DEF Types
        <3>8. WireInv'
            BY <1>1, <2>1, <3>1, <3>2, WireAppend
        <3>9. BeginInv'
            BY <3>1 DEF BeginInv
        <3>10. LoopInv'
            BY <2>1, <3>1, <3>3, <3>4, <3>5, <3>6, <3>7 DEF LoopInv, Reading
        <3> QED
            BY <3>8, <3>9, <3>10
    <2> QED
        BY <2>2, <2>3
<1>4. CASE QuietTick
    <2>1. /\ pc = "get" /\ events /\ visits' = Check(visits) /\ Proceed(Departures(visits))
          /\ UNCHANGED <<published, link, status, present, got, events>>
        BY <1>4 DEF QuietTick, setup, broker
    <2>2. CASE link # "up"
        <3>1. \/ Leave
              \/ wire' = wire /\ pc' = "get"
            BY <2>1, <2>2 DEF Proceed, Send
        <3>2. CASE Leave
            BY <1>1, <2>1, <3>2, LeaveLeft, Left
        <3>3. CASE wire' = wire /\ pc' = "get"
            BY <1>1, <2>1, <2>2, <3>3, WireSame DEF BeginInv, LoopInv
        <3> QED
            BY <3>1, <3>2, <3>3
    <2>3. CASE link = "up"
        <3>1. Reading({}, published, visits)
            BY <1>1, <2>1, <2>3, GetReads
        <3>2. Table(visits)
            BY <1>1, TypesParts DEF BridgeTypes
        <3>3. Leads(Departures(visits), present, Check(visits)) /\ Departures(visits) \subseteq EdgeMessage
            BY <2>1, <3>1, <3>2, CheckLeads DEF Reading
        <3>4. Reading(Departures(visits), published', visits')
            BY <2>1, <3>1, <3>3 DEF Reading
        <3> QED
            BY <1>1, <2>1, <3>3, <3>4, ProceedLoop
    <2> QED
        BY <2>2, <2>3
<1>5. CASE StreamEnds
    BY <1>1, <1>5, LeaveLeft, Left DEF StreamEnds, broker
<1> QED
    BY <1>2, <1>3, <1>4, <1>5 DEF Loop

\* a read is out,
LEMMA TagSaidTold ==
    ASSUME Inv, TagSaid
    PROVE  Told'
<1> USE DEF Told
<1>1. /\ Types /\ WireInv /\ BeginInv /\ LoopInv /\ wire \in Seq(Message)
      /\ published \in Nat /\ read \in Epcs /\ Table(visits)
    BY TypesParts DEF Inv, BridgeTypes, TagSaid
<1>2. /\ pc = "tag" /\ link = "up" /\ published' = published + 1
      /\ UNCHANGED <<link, status, present, got, events>>
    BY DEF TagSaid, setup, broker
<1>3. Reading({}, published', visits)
    <2>1. Reading(edges, published + (IF pc = "tag" THEN 1 ELSE 0), visits) /\ edges = {}
        BY <1>1, <1>2, LoopReads DEF InLoop, Publishing
    <2>2. published + (IF pc = "tag" THEN 1 ELSE 0) = published'
        BY <1>1, <1>2
    <2> QED
        BY <2>1, <2>2
<1>4. CASE cancelled
    BY <1>1, <1>2, <1>4, LeaveLeft, Left DEF TagSaid
<1>5. CASE ~cancelled /\ ~events
    <2>1. visits' = visits /\ Proceed({})
        BY <1>5 DEF TagSaid
    <2> QED
        BY <1>1, <1>2, <1>3, <2>1, ProceedLoop
<1>6. CASE ~cancelled /\ events
    <2> DEFINE after == Observe(visits, read)
               arrival == {Edge("arrived", e) : e \in {d \in {read} : Arrives(visits, d)}}
               some == arrival \cup Departures(after)
    <2>1. visits' = Check(after) /\ Proceed(some)
        BY <1>6 DEF TagSaid
    <2>2. Leads(some, present, Check(after)) /\ some \subseteq EdgeMessage
        BY <1>1, <1>3, <1>6, ReadLeads DEF Reading
    <2> HIDE DEF some, after
    <2>3. Reading(some, published', visits')
        BY <1>3, <1>6, <2>1, <2>2 DEF Reading
    <2> QED
        BY <1>1, <1>2, <2>1, <2>2, <2>3, ProceedLoop
<1> QED
    BY <1>4, <1>5, <1>6

\* a publish ends, the task is cancelled, the process dies.
LEMMA PublishTold ==
    ASSUME Inv, Publish \/ Cancel \/ Crash
    PROVE  Told'
<1> USE DEF Told
<1>1. Types /\ WireInv /\ BeginInv /\ LoopInv /\ wire \in Seq(Message)
    BY DEF Inv, Types
<1>2. CASE OnlineSaid
    <2>1. /\ pc = "online" /\ link = "up" /\ wire = <<>> /\ link' = link /\ visits' = visits
          /\ UNCHANGED <<status, present, got, edges, published>>
        BY <1>2 DEF OnlineSaid, broker
    <2>2. CASE pc' = "get" /\ wire' = wire
        <3>1. /\ status = "online" /\ present = {} /\ Present(visits) = {}
              /\ published = 0 /\ got = 0 /\ edges = {}
            BY <1>1, <2>1 DEF BeginInv
        <3>2. Leads({}, present, visits)
            BY <3>1 DEF Leads
        <3>3. EdgeOut' = FALSE /\ Pending' = {}
            BY <2>1, <2>2, <3>1 DEF EdgeOut, Pending
        <3>4. WireInv' /\ BeginInv'
            BY <1>1, <2>1, <2>2, WireSame DEF BeginInv
        <3>5. LoopInv'
            BY <2>1, <2>2, <3>1, <3>2, <3>3 DEF LoopInv
        <3> QED
            BY <3>4, <3>5
    <2>3. CASE ~(pc' = "get" /\ wire' = wire)
        <3>1. pc' = "done" /\ (wire' = wire \/ wire' = Append(wire, Goodbye))
            BY <1>2, <2>3 DEF OnlineSaid, Disconnect, Send
        <3> QED
            BY <1>1, <2>1, <3>1, Left
    <2> QED
        BY <2>2, <2>3
<1>3. CASE TagSaid
    BY <1>3, TagSaidTold
<1>4. CASE EdgeSaid
    <2>1. /\ pc = "edge" /\ link = "up" /\ wire = <<>>
          /\ UNCHANGED <<visits, published, link, status, present, got, events>>
        BY <1>4 DEF EdgeSaid, setup, broker
    <2>2. CASE cancelled
        BY <1>1, <1>4, <2>1, <2>2, LeaveLeft, Left DEF EdgeSaid
    <2>3. CASE ~cancelled
        <3>1. Proceed(edges) /\ edges \subseteq EdgeMessage /\ published \in Nat
            BY <1>1, <1>4, <2>3 DEF EdgeSaid, Types
        <3>2. Reading(edges, published + (IF pc = "tag" THEN 1 ELSE 0), visits)
            BY <1>1, <2>1, LoopReads DEF InLoop, Publishing
        <3>3. published + (IF pc = "tag" THEN 1 ELSE 0) = published'
            BY <2>1, <3>1
        <3>4. Reading(edges, published', visits')
            BY <2>1, <3>2, <3>3
        <3> QED
            BY <1>1, <2>1, <3>1, <3>4, ProceedLoop
    <2> QED
        BY <2>2, <2>3
<1>5. CASE PublishFails
    <2>1. present' = present
        BY <1>5 DEF PublishFails, broker
    <2>2. /\ pc' \in {"goodbye", "done"}
          /\ wire' = wire \/ wire' = Append(wire, Goodbye) \/ wire' = Append(wire, Status("offline"))
        BY <1>5, LeaveLeft DEF PublishFails, Disconnect, Send
    <2> QED
        BY <1>1, <2>1, <2>2, Left
<1>6. CASE GoodbyeEnds
    <2>1. /\ present' = present /\ pc' = "done"
          /\ wire' = wire \/ wire' = Append(wire, Goodbye)
        BY <1>6 DEF GoodbyeEnds, Disconnect, Send, broker
    <2> QED
        BY <1>1, <2>1, Left
<1>7. CASE Cancel
    <2>1. UNCHANGED <<link, status, present, got, events, visits, published>>
        BY <1>7 DEF Cancel, setup, broker
    <2>2. CASE pc' \in {"goodbye", "done"}
        <3>1. wire' = wire \/ wire' = Append(wire, Goodbye) \/ wire' = Append(wire, Status("offline"))
            BY <1>7, <2>2, LeaveLeft DEF Cancel, Disconnect, Send
        <3> QED
            BY <1>1, <2>1, <2>2, <3>1, Left
    <2>3. CASE pc' \notin {"goodbye", "done"}
        <3>1. pc' = pc /\ edges' = edges /\ wire' = wire
            BY <1>7, <2>3, LeaveLeft DEF Cancel, Disconnect
        <3> QED
            BY <1>1, <2>1, <3>1
               DEF WireInv, New, BeginInv, LoopInv, InLoop, Publishing, EdgeOut, Pending
    <2> QED
        BY <2>2, <2>3
<1>8. CASE Crash
    BY <1>1, <1>8, Left DEF Crash, broker
<1> QED
    BY <1>2, <1>3, <1>4, <1>5, <1>6, <1>7, <1>8 DEF Publish

\* The broker takes in a read, a status or a goodbye.
LEMMA TakesOther ==
    ASSUME Inv, Takes, ~IsEdge(Head(wire))
    PROVE  Told'
<1> USE DEF Told
<1>1. Types /\ WireInv /\ BeginInv /\ LoopInv /\ wire \in Seq(Message) /\ got \in Nat /\ published \in Nat
    BY DEF Inv, Types
<1>2. /\ Head(wire) = wire[1] /\ Len(wire) \in Nat \ {0} /\ Len(wire') = Len(wire) - 1
      /\ \A i \in 1..Len(wire') : i + 1 \in 1..Len(wire) /\ wire'[i] = wire[i + 1]
      /\ wire' \in Seq(Message)
    BY <1>1, Taken DEF Takes
<1>3. /\ present' = present
      /\ UNCHANGED <<setup, bridge>>
    BY DEF Takes, IsEdge
<1>4. WireInv'
    <2>1. ASSUME NEW i \in 1..Len(wire')
          PROVE  New(wire[i])'
        <3>1. New(wire[i + 1]) /\ wire'[i] = wire[i + 1]
            BY <1>1, <1>2 DEF WireInv
        <3> QED
            BY <1>3, <3>1 DEF New
    <2>2. ASSUME NEW i \in 1..Len(wire'), NEW j \in 1..Len(wire'),
                 IsEdge(wire'[i]), IsEdge(wire'[j])
          PROVE  i = j
        <3>1. /\ i + 1 \in 1..Len(wire) /\ IsEdge(wire[i + 1])
              /\ j + 1 \in 1..Len(wire) /\ IsEdge(wire[j + 1])
            BY <1>2, <2>2
        <3>2. i + 1 = j + 1
            BY <1>1, <3>1 DEF WireInv
        <3> QED
            BY <3>2
    <2> QED
        BY <2>1, <2>2 DEF WireInv
<1>5. BeginInv'
    <2>1. pc # "connect"
        BY <1>1, <1>2 DEF BeginInv
    <2>2. CASE pc = "online"
        <3>1. wire = <<Status("online")>>
            BY <1>1, <1>2, <2>2 DEF BeginInv
        <3>2. Head(wire) = Status("online") /\ wire' = <<>>
            BY <1>2, <3>1
        <3>3. status' = "online" /\ got' = got
            BY <3>2, Messages DEF Takes
        <3> QED
            BY <1>1, <1>3, <2>2, <3>2, <3>3 DEF BeginInv, bridge
    <2>3. CASE pc # "online"
        BY <1>3, <2>1, <2>3 DEF BeginInv, bridge
    <2> QED
        BY <2>2, <2>3
<1>6. ASSUME link' = "up", InLoop'
      PROVE  LoopInv'
    <2>1. link = "up" /\ InLoop /\ pc' = pc /\ edges' = edges /\ visits' = visits
          /\ published' = published /\ events' = events
        BY <1>3, <1>6 DEF Takes, InLoop, Publishing, bridge, setup
    <2>2. Head(wire).kind = "tag"
        BY <1>1, <1>2, <2>1 DEF LoopInv
    <2>3. status' = status /\ got' = got + 1
        BY <2>2 DEF Takes
    <2>4. \A i \in 1..Len(wire') :
             wire'[i].kind = "tag" \/ (pc = "edge" /\ i = Len(wire') /\ IsEdge(wire'[i]))
        BY <1>1, <1>2, <2>1 DEF LoopInv
    <2>5. EdgeOut' = EdgeOut /\ (EdgeOut => wire'[Len(wire')] = wire[Len(wire)])
        <3>1. CASE wire' = <<>>
            <4>1. Len(wire) = 1
                BY <1>2, <3>1
            <4> QED
                BY <1>2, <3>1, <4>1 DEF EdgeOut
        <3>2. CASE wire' # <<>>
            <4>1. Len(wire') \in 1..Len(wire') /\ Len(wire') + 1 = Len(wire)
                BY <1>2, <3>2
            <4>2. wire'[Len(wire')] = wire[Len(wire)] /\ wire # <<>>
                BY <1>2, <4>1
            <4> QED
                BY <3>2, <4>2 DEF EdgeOut
        <3> QED
            BY <3>1, <3>2
    <2>6. Pending' = Pending
        BY <2>1, <2>5 DEF Pending
    <2>7. published' + (IF pc' = "tag" THEN 1 ELSE 0)
              = got' + Len(wire') - (IF EdgeOut' THEN 1 ELSE 0)
        <3>1. published + (IF pc = "tag" THEN 1 ELSE 0)
                  = got + Len(wire) - (IF EdgeOut THEN 1 ELSE 0)
            BY <1>1, <2>1 DEF LoopInv
        <3>2. PICK k \in {0, 1} : k = (IF EdgeOut THEN 1 ELSE 0) /\ k = (IF EdgeOut' THEN 1 ELSE 0)
            BY <2>5
        <3>3. got + Len(wire) - k = got' + Len(wire') - k
            BY <1>1, <1>2, <2>3
        <3> QED
            BY <2>1, <3>1, <3>2, <3>3
    <2>8. /\ status' = "online" /\ (pc' # "edge" => edges' = {}) /\ (pc' = "edge" => events')
          /\ EdgeOut' => wire'[Len(wire')] \notin edges'
          /\ events' => Leads(Pending', present', visits')
        BY <1>1, <1>3, <2>1, <2>3, <2>5, <2>6 DEF LoopInv
    <2> QED
        BY <2>1, <2>4, <2>7, <2>8 DEF LoopInv
<1> QED
    BY <1>4, <1>5, <1>6 DEF LoopInv

\* The broker takes in an edge.
LEMMA TakesEdge ==
    ASSUME Inv, Takes, IsEdge(Head(wire))
    PROVE  Told'
<1> USE DEF Told
<1> DEFINE m == Head(wire)
<1>1. Types /\ WireInv /\ BeginInv /\ LoopInv /\ wire \in Seq(Message) /\ got \in Nat /\ published \in Nat
    BY DEF Inv, Types
<1>2. /\ m = wire[1] /\ Len(wire) \in Nat \ {0} /\ Len(wire') = Len(wire) - 1
      /\ \A i \in 1..Len(wire') : i + 1 \in 1..Len(wire) /\ wire'[i] = wire[i + 1]
    BY <1>1, Taken DEF Takes
<1>3. m \in EdgeMessage /\ m # Goodbye
    <2>1. m \in Message
        BY <1>1, <1>2
    <2> QED
        BY <2>1, NoEdge DEF Message, EdgeMessage, IsEdge
<1>4. /\ status' = status /\ got' = got /\ link' = link
      /\ present' = IF m.kind = "arrived" THEN present \cup {m.epc} ELSE present \ {m.epc}
      /\ UNCHANGED <<setup, bridge>>
    BY <1>3 DEF Takes, IsEdge
<1>5. WireInv'
    <2>1. ASSUME NEW i \in 1..Len(wire')
          PROVE  ~IsEdge(wire'[i])
        BY <1>1, <1>2, <2>1 DEF WireInv
    <2> QED
        BY <2>1 DEF WireInv, New, IsEdge
<1>6. BeginInv'
    <2>1. pc # "connect" /\ pc # "online"
        BY <1>1, <1>2, NoEdge DEF BeginInv
    <2> QED
        BY <1>4, <2>1 DEF BeginInv, bridge
<1>7. ASSUME link' = "up", InLoop'
      PROVE  LoopInv'
    <2>1. link = "up" /\ InLoop /\ pc' = pc /\ edges' = edges /\ visits' = visits
          /\ published' = published /\ events' = events
        BY <1>4, <1>7 DEF InLoop, Publishing, bridge, setup
    <2>2. pc = "edge" /\ Len(wire) = 1
        BY <1>1, <1>2, <2>1 DEF LoopInv, IsEdge
    <2>3. Len(wire') = 0 /\ wire' = <<>> /\ wire # <<>> /\ wire[Len(wire)] = m
        <3>1. wire' \in Seq(Message) /\ wire # <<>>
            BY <1>1 DEF Takes
        <3> QED
            BY <1>2, <2>2, <3>1
    <2>4. EdgeOut = TRUE /\ EdgeOut' = FALSE
        BY <2>3 DEF EdgeOut
    <2>5. m \notin edges /\ Pending = edges \cup {m} /\ Pending' = edges
        BY <1>1, <2>1, <2>3, <2>4 DEF LoopInv, Pending
    <2>6. Pending' = Pending \ {m} /\ m \in Pending
        BY <2>5
    <2>7. events => Leads(Pending', present', visits')
        <3>1. SUFFICES ASSUME events
                       PROVE  Leads(Pending', present', visits')
            OBVIOUS
        <3>2. Leads(Pending, present, visits)
            BY <1>1, <2>1, <3>1 DEF LoopInv
        <3> HIDE DEF m
        <3>3. Leads(Pending \ {m}, IF m.kind = "arrived" THEN present \cup {m.epc} ELSE present \ {m.epc}, visits)
            BY <1>3, <2>6, <3>2, EdgeTold
        <3> QED
            BY <1>4, <2>1, <2>6, <3>3
    <2>8. published' = got'
        <3>1. published + (IF pc = "tag" THEN 1 ELSE 0) = got + Len(wire) - (IF EdgeOut THEN 1 ELSE 0)
            BY <1>1, <2>1 DEF LoopInv
        <3> QED
            BY <1>1, <1>4, <2>1, <2>2, <2>4, <3>1
    <2> QED
        BY <1>1, <1>4, <2>1, <2>2, <2>3, <2>4, <2>7, <2>8 DEF LoopInv
<1> QED
    BY <1>5, <1>6, <1>7 DEF LoopInv

\* The inventory, the clock, and the loss of the connection.
LEMMA OthersTold ==
    ASSUME Inv, \/ \E e \in Epcs : Read(e)
                \/ SourceEnds \/ Clock \/ Lose \/ WillSaid \/ UNCHANGED mvars
    PROVE  Told'
<1> USE DEF Told
<1>1. Types /\ WireInv /\ BeginInv /\ LoopInv
    BY DEF Inv
<1>2. CASE \/ \E e \in Epcs : Read(e)
           \/ SourceEnds \/ Clock \/ UNCHANGED mvars
    <2>1. Present(visits') = Present(visits)
        <3>1. Table(visits)
            BY <1>1, TypesParts DEF BridgeTypes
        <3> QED
            BY <1>2, <3>1, LaterTable DEF Read, SourceEnds, Clock, mvars, bridge
    <2>2. /\ UNCHANGED <<events, pc, edges, published, link, wire, status, present, got>>
        BY <1>2 DEF Read, SourceEnds, Clock, mvars, setup, bridge, broker
    <2>3. WireInv'
        BY <1>1, <2>2, WireSame
    <2>4. BeginInv'
        BY <1>1, <2>1, <2>2 DEF BeginInv
    <2>5. EdgeOut' = EdgeOut /\ Pending' = Pending
        BY <2>2 DEF EdgeOut, Pending
    <2>6. Leads(Pending, present, visits) => Leads(Pending, present, visits')
        BY <2>1 DEF Leads
    <2>7. LoopInv'
        BY <1>1, <2>2, <2>5, <2>6 DEF LoopInv, InLoop, Publishing
    <2> QED
        BY <2>3, <2>4, <2>7
<1>3. CASE Lose
    <2>1. link = "up" /\ link' = "lost" /\ wire' = <<>> /\ Len(wire') = 0
          /\ UNCHANGED <<bridge, present, got>>
        BY <1>3 DEF Lose, broker
    <2> QED
        BY <1>1, <2>1 DEF WireInv, BeginInv, LoopInv, bridge
<1>4. CASE WillSaid
    <2>1. link = "lost" /\ link' = "lost" /\ UNCHANGED <<bridge, wire, present, got>>
        BY <1>4 DEF WillSaid
    <2>2. WireInv'
        BY <1>1, <2>1, WireSame
    <2> QED
        BY <1>1, <2>1, <2>2 DEF BeginInv, LoopInv, bridge
<1> QED
    BY <1>2, <1>3, <1>4

\* The invariant is inductive.
LEMMA InvNext == Inv /\ [Next]_mvars => Inv'
<1> SUFFICES ASSUME Inv, [Next]_mvars
             PROVE  Inv'
    OBVIOUS
<1>1. Types'
    BY TypesNext DEF Inv
<1>2. Told'
    BY LoopTold, PublishTold, TakesOther, TakesEdge, OthersTold DEF Next, Network
<1> QED
    BY <1>1, <1>2 DEF Inv, Told

\* It holds at first.
LEMMA InvInit == MqttInit => Inv
<1> SUFFICES ASSUME MqttInit
             PROVE  Inv
    OBVIOUS
<1>1. Table(visits) /\ Present(visits) = {}
    BY NoTable DEF MqttInit
<1>2. BridgeTypes
    <2>1. queue = <<>> /\ queue \in Seq(Epcs) /\ Len(queue) <= QueueSize
        BY MqttAssumption DEF MqttInit
    <2>2. wire \in Seq(Message)
        BY DEF MqttInit
    <2> QED
        BY <1>1, <2>1, <2>2 DEF MqttInit, BridgeTypes
<1>3. BrokerTypes /\ Types
    BY <1>2, TypesParts DEF MqttInit, BrokerTypes
<1>4. WireInv
    <2>1. Len(wire) = 0
        BY DEF MqttInit
    <2> QED
        BY <2>1 DEF WireInv
<1>5. BeginInv /\ LoopInv
    BY <1>1 DEF MqttInit, BeginInv, LoopInv, InLoop, Publishing
<1> QED
    BY <1>3, <1>4, <1>5 DEF Inv

\* The invariant implies the property.
LEMMA InvAgree == Inv => SubscribersAgree
<1> SUFFICES ASSUME Inv
             PROVE  SubscribersAgree
    OBVIOUS
<1>1. TypeOK
    BY DEF Inv, Types
<1>2. wire # <<>> => New(Head(wire))
    <2>1. wire \in Seq(Message)
        BY DEF Inv, Types
    <2>2. wire # <<>> => Head(wire) = wire[1] /\ 1 \in 1..Len(wire)
        BY <2>1
    <2> QED
        BY <2>2 DEF Inv, WireInv
<1>3. ASSUME pc = "get", link = "up", wire = <<>>
      PROVE  status = "online" /\ (events => present = Present(visits)) /\ published = got
    <2>1. Reading({}, published, visits)
        BY <1>3, GetReads DEF Inv
    <2>2. Table(visits) /\ present \in SUBSET Epcs /\ got \in Nat
        BY TypesParts DEF Inv, BridgeTypes, BrokerTypes
    <2>3. published = got + 0
        BY <1>3, <2>1 DEF Reading
    <2> QED
        BY <2>1, <2>2, <2>3, NothingToTell DEF Reading
<1> QED
    BY <1>1, <1>2, <1>3 DEF SubscribersAgree, New

\* What a subscriber sees is what the bridge knows: events come in turn, and
\* a loop that waits, with nothing on its way, has published each read and
\* announced exactly the tags that are present.
THEOREM SubscribersSeeTheTruth == Spec => []SubscribersAgree
<1>1. Spec => []Inv
    BY InvInit, InvNext, PTL DEF Spec
<1> QED
    BY <1>1, InvAgree, PTL
=============================================================================
