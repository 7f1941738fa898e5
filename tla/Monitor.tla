------------------------------ MODULE Monitor ------------------------------
(***************************************************************************)
(* What the dashboard tells about one reader: the three tasks of a         *)
(* ManagedReader (dashboard/registry.py) that turn tags, reader events and *)
(* the passing of time into events of the hub, with the HealthMonitor      *)
(* (health.py) and the policy (policy.py) they consult, and one subscriber *)
(* of the hub, a WebSocket of dashboard/app.py.                            *)
(*                                                                         *)
(* Requests come one at a time here; Dashboard overlaps them.  Time is     *)
(* counted in turns of _run_health, ages up to one more than QuietAfter.   *)
(***************************************************************************)
EXTENDS Policy, FiniteSetsExt

CONSTANTS
    Antennas,       \* antenna ports, numbers
    QuietAfter,     \* HealthMonitor.quiet_after, in turns of _run_health
    BatchMax,       \* _TAG_BATCH_MAX
    MaxEvents,      \* bound: notifications of the reader under way
    HubQueue,       \* maxsize of a subscriber's queue
    Situations      \* what there is to expect: a set of records with the fields
                    \*   tags        the tags there are
                    \*   policies    the policies somebody sets
                    \*   counted     bound: reads a policy evaluates
                    \*   faults      do antennas and the inventory fail?
                    \*   subscriber  is there one?

ASSUME MonitorAssumption ==
    /\ Antennas \subseteq Nat /\ IsFiniteSet(Antennas)
    /\ QuietAfter \in Nat /\ BatchMax \in Nat \ {0}
    /\ MaxEvents \in Nat /\ HubQueue \in Nat \ {0}
    /\ \A s \in Situations : /\ s.counted \in Nat /\ {s.faults, s.subscriber} \subseteq BOOLEAN
                             /\ \A t \in s.tags : t.antenna \in Antennas
                             /\ \A p \in s.policies \ {None} : IsCatalog(p.catalog)

Never == QuietAfter + 2     \* the age of what has not happened

VARIABLES
    life,           \* of the reader: listed, removing, gone
    connected,      \* client.connected
    plugged,        \* antennas that are connected, in truth
    silence,        \* turns since an antenna last read a tag, in truth
    events,         \* client.events
    policy,         \* ManagedReader.policy, or None
    counters,       \* its counters
    stream,         \* _run_inventory: off, on, or in the teardown of a stream that
                    \* was stopped, is to be restarted, or failed
    batch,          \* its batch: how many rows
    due,            \* _TAG_FLUSH_S has passed since last_flush
    up,             \* AntennaHealth.connected
    lastSeen,       \* turns since AntennaHealth.last_seen
    quiet,          \* _quiet_alerted
    sub,            \* a subscriber: where websocket() is, its queue, whether an event
                    \* was lost, and whether its page shows the reader
    asked,          \* reads evaluated since the policy was set
    unshown,        \* rows noted but not published
    quieted,        \* antennas the last step raised a quiet alert for
    incidents,      \* antennas with a quiet alert since they last read, in truth
    situation       \* one of Situations, from the start

line == <<connected, plugged, events>>
rules == <<policy, counters, asked>>
task == <<stream, batch, due, unshown>>
health == <<up, lastSeen, quiet>>
truth == <<silence, quieted, incidents>>
mvars == <<life, line, rules, task, health, truth, sub, situation>>

\* Nobody has opened the page: shown is whether it shows the reader, or would,
\* had its state been taken when the connection was accepted.
NoSubscriber == [at |-> "away", queue |-> <<>>, lost |-> FALSE, shown |-> FALSE]

MonitorInit ==
    /\ life = "listed" /\ connected = TRUE
    /\ plugged = Antennas /\ events = <<>>
    /\ silence = [a \in Antennas |-> Never]
    /\ policy = None /\ counters = NoCounters /\ asked = 0
    /\ stream = "off" /\ batch = 0 /\ due = FALSE /\ unshown = 0
    /\ up = Antennas /\ quiet = {}
    /\ lastSeen = [a \in Antennas |-> Never]
    /\ sub = NoSubscriber
    /\ quieted = {} /\ incidents = {}
    /\ situation \in Situations

-----------------------------------------------------------------------------
\* The hub

Event(type) == [type |-> type]
Rows(n) == IF n = 0 THEN <<>> ELSE <<Event("tags")>>
Roster == [type |-> "readers", reader |-> life = "listed"]

\* Broadcast.publish() of some events in turn: a full queue does not take them.
Publish(new) ==
    LET all == sub.queue \o new
    IN  sub' = IF sub.at # "subscribed" THEN sub
               ELSE [sub EXCEPT !.queue = SubSeq(all, 1, Min({Len(all), HubQueue})),
                                !.lost = @ \/ Len(all) > HubQueue]

\* websocket() accepts the connection, ...
AcceptSocket ==
    /\ situation.subscriber /\ sub.at = "away"
    /\ sub' = [NoSubscriber EXCEPT !.at = "accepted", !.shown = life = "listed"]
    /\ UNCHANGED <<life, line, rules, task, health, truth>>

\* Mutant of Subscribe: the state was taken before the connection was accepted.
SubscribeOldState ==
    /\ sub.at = "accepted"
    /\ sub' = [sub EXCEPT !.at = "subscribed"]
    /\ UNCHANGED <<life, line, rules, task, health, truth>>

\* ... subscribes, and sends the state as it is then.
Subscribe ==
    /\ sub.at = "accepted"
    /\ sub' = [sub EXCEPT !.at = "subscribed", !.shown = life = "listed"]
    /\ UNCHANGED <<life, line, rules, task, health, truth>>

\* One event is sent, and handleEvent() of the page shows it.
Show ==
    /\ sub.queue # <<>>
    /\ LET event == Head(sub.queue) IN
       sub' = [sub EXCEPT !.queue = Tail(@),
                          !.shown = IF event.type = "readers" THEN event.reader ELSE @]
    /\ UNCHANGED <<life, line, rules, task, health, truth>>

\* The page is closed.
Unsubscribe ==
    /\ sub.at # "away"
    /\ sub' = NoSubscriber
    /\ UNCHANGED <<life, line, rules, task, health, truth>>

-----------------------------------------------------------------------------
\* _run_inventory()

\* flush(): the batch is published; what it publishes is Rows(batch).
Flush == batch' = 0 /\ due' = FALSE /\ unshown' = unshown - batch

\* 0.2 seconds since last_flush
FlushDue ==
    /\ stream = "on" /\ ~due
    /\ due' = TRUE
    /\ UNCHANGED <<life, line, rules, stream, batch, unshown, health, truth, sub>>

\* HealthMonitor.observe()
Observe(a) ==
    /\ lastSeen' = [lastSeen EXCEPT ![a] = 0]
    /\ quiet' = quiet \ {a}
    /\ UNCHANGED up

\* What is said of a read: perhaps that its port recovered, perhaps a batch.
Recovered(a) == IF a \in quiet THEN <<Event("alert")>> ELSE <<>>

\* A tag that the stream yields.
Note(a) ==
    /\ Observe(a)
    /\ IF batch + 1 >= BatchMax \/ due
       THEN /\ batch' = 0 /\ due' = FALSE /\ unshown' = unshown - batch
            /\ Publish(Recovered(a) \o Rows(batch + 1))
       ELSE /\ batch' = batch + 1 /\ unshown' = unshown + 1 /\ UNCHANGED due
            /\ Publish(Recovered(a))
    /\ UNCHANGED stream

\* The reader reports a tag, and inventory() asks the policy about it.
Read(tag) ==
    /\ stream = "on" /\ connected /\ tag.antenna \in plugged
    /\ silence' = [silence EXCEPT ![tag.antenna] = 0]
    /\ incidents' = incidents \ {tag.antenna}
    /\ quieted' = {}
    /\ IF policy = None
       THEN Note(tag.antenna) /\ UNCHANGED rules
       ELSE LET decision == Evaluate(policy, counters, tag) IN
            /\ asked < situation.counted
            /\ asked' = asked + 1
            /\ counters' = decision.counters
            /\ IF decision.keep THEN Note(tag.antenna) ELSE UNCHANGED <<task, health, sub>>
            /\ UNCHANGED policy
    /\ UNCHANGED <<life, line>>

\* The teardown is over, the task flushes, and stop_inventory() of app.py
\* publishes the roster, ...
StreamStopped ==
    /\ stream = "stopping"
    /\ stream' = "off"
    /\ Flush
    /\ Publish(Rows(batch) \o IF life = "listed" THEN <<Roster>> ELSE <<>>)
    /\ UNCHANGED <<life, line, rules, health, truth>>

\* ... or start_inventory() does, after it waited for it and began another.
StreamRestarts ==
    /\ stream = "restarting"
    /\ stream' = "on"
    /\ Flush
    /\ Publish(Rows(batch) \o <<Roster>>)
    /\ UNCHANGED <<life, line, rules, health, truth>>

\* A refused request, or a connection that is lost.
StreamFails ==
    /\ stream = "on" /\ (situation.faults \/ ~connected)
    /\ stream' = "failing"
    /\ UNCHANGED <<life, line, rules, batch, due, unshown, health, truth, sub>>

StreamFailed ==
    /\ stream = "failing"
    /\ stream' = "off"
    /\ Flush
    /\ Publish(<<Event("alert")>> \o Rows(batch))
    /\ UNCHANGED <<life, line, rules, health, truth>>

-----------------------------------------------------------------------------
\* _run_events() and _run_health()

\* HealthMonitor.handle_event()
Digest(event) ==
    up' = CASE event.type = "connected" -> up \cup {event.antenna}
            [] event.type = "disconnected" -> up \ {event.antenna}
            [] OTHER -> up

\* events() ends when the connection is closed and the queue is empty.
HandleEvent ==
    /\ life # "gone" /\ events # <<>>
    /\ Digest(Head(events))
    /\ events' = Tail(events)
    /\ Publish(<<Event("alert")>>)
    /\ UNCHANGED <<life, connected, plugged, rules, task, lastSeen, quiet, truth>>

Older(age) == [a \in Antennas |-> IF age[a] > QuietAfter THEN age[a] ELSE age[a] + 1]

\* Read before, but not for longer than QuietAfter.
Silent(age, a) == age[a] = QuietAfter + 1
Recent(age) == \E a \in Antennas : age[a] <= QuietAfter

\* Mutant of Falls: whether another port reads is not asked.
FallsAlone(age) == {a \in up \ quiet : Silent(age, a)}

\* The ports check() finds quiet.
Falls(age) == {a \in up \ quiet : Silent(age, a) /\ Recent(age)}

\* One turn of _run_health: sleep, check(), and what is published.
HealthTick ==
    /\ life # "gone"
    /\ LET age == Older(lastSeen)
           new == Falls(age)
       IN  /\ lastSeen' = age
           /\ quiet' = quiet \cup new
           /\ quieted' = new
           /\ incidents' = incidents \cup new
           /\ Publish([i \in 1..Cardinality(new) |-> Event("alert")]
                      \o <<Event("health"), Event("stats")>>
                      \o IF policy = None THEN <<>> ELSE <<Event("policy")>>)
    /\ silence' = Older(silence)
    /\ UNCHANGED <<life, line, rules, task, up>>

-----------------------------------------------------------------------------
\* Requests, which come one at a time

Ready == life = "listed" /\ stream \in {"off", "on"}

Start ==
    /\ Ready /\ connected
    /\ IF stream = "off" THEN /\ stream' = "on" /\ due' = FALSE
                              /\ Publish(<<Roster>>)
       ELSE /\ stream' = "restarting" /\ UNCHANGED <<due, sub>>
    /\ UNCHANGED <<life, line, rules, batch, unshown, health, truth>>

Stop ==
    /\ life = "listed" /\ stream \in {"on", "failing"}
    /\ stream' = "stopping"
    /\ UNCHANGED <<life, line, rules, batch, due, unshown, health, truth, sub>>

\* set_policy(): a policy with counters of its own, and a restart.
SetPolicy(p) ==
    /\ Ready
    /\ policy' = p /\ counters' = NoCounters /\ asked' = 0
    /\ IF stream = "off" THEN Publish(<<Roster>>) /\ UNCHANGED stream
                         ELSE stream' = "restarting" /\ UNCHANGED sub
    /\ UNCHANGED <<life, line, batch, due, unshown, health, truth>>

\* remove(): the reader leaves the table and its inventory is stopped, ...
RemoveReader ==
    /\ life = "listed" /\ stream \in {"off", "on", "failing"}
    /\ life' = "removing"
    /\ stream' = IF stream = "off" THEN "off" ELSE "stopping"
    /\ UNCHANGED <<line, rules, batch, due, unshown, health, truth, sub>>

\* ... then the other tasks, and after the goodbye the roster is published.
Removed ==
    /\ life = "removing" /\ stream = "off"
    /\ life' = "gone"
    /\ connected' = FALSE
    /\ Publish(<<Roster>>)
    /\ UNCHANGED <<plugged, events, rules, task, health, truth>>

-----------------------------------------------------------------------------
\* The reader

\* An antenna is pulled out or plugged in, and the reader says so.
AntennaChanges(a) ==
    /\ situation.faults /\ connected
    /\ plugged' = IF a \in plugged THEN plugged \ {a} ELSE plugged \cup {a}
    /\ Len(events) < MaxEvents
    /\ events' = Append(events, [type |-> IF a \in plugged THEN "disconnected" ELSE "connected",
                                 antenna |-> a])
    /\ UNCHANGED <<life, connected, rules, task, health, truth, sub>>

\* It has something to say that is not about an antenna.
ReaderException ==
    /\ situation.faults /\ connected
    /\ Len(events) < MaxEvents
    /\ events' = Append(events, [type |-> "exception"])
    /\ UNCHANGED <<life, connected, plugged, rules, task, health, truth, sub>>

Lose ==
    /\ situation.faults /\ connected
    /\ connected' = FALSE
    /\ UNCHANGED <<life, plugged, events, rules, task, health, truth, sub>>

-----------------------------------------------------------------------------
Inventory == FlushDue \/ StreamStopped \/ StreamRestarts \/ StreamFails \/ StreamFailed
             \/ \E tag \in situation.tags : Read(tag)

Control == Start \/ Stop \/ RemoveReader \/ Removed \/ \E p \in situation.policies : SetPolicy(p)

Peers == AcceptSocket \/ Subscribe \/ Show \/ Unsubscribe
         \/ ReaderException \/ Lose \/ \E a \in Antennas : AntennaChanges(a)

Next == /\ Inventory \/ HandleEvent \/ HealthTick \/ Control \/ Peers
        /\ UNCHANGED situation

Spec == MonitorInit /\ [][Next]_mvars

-----------------------------------------------------------------------------
(***************************************************************************)
(* Properties                                                              *)
(***************************************************************************)

\* "This port used to produce reads, its neighbors still do, and it has
\* produced nothing for N seconds": with the first turn of which this is true
\* comes the quiet alert, once per incident, and with no other.  A port that is
\* known to be down is not quiet.  (A policy that ignores tags of a port keeps
\* them from the monitor as well: then this fails.)
QuietExactly ==
    [][HealthTick /\ situation.policies = {} /\ events = <<>> =>
           quieted' = {a \in plugged \ incidents : Silent(silence', a) /\ Recent(silence')}]_mvars

\* However a stream ends, its last rows are published, once.
RowsShown == unshown = batch /\ (stream = "off" => batch = 0)

\* "Nothing is dropped silently: every ignore is counted by antenna, category,
\* and reason": of the reads since a policy was set each is counted, as kept or
\* in each of the three tallies.
CountersComplete ==
    LET total == BagCardinality(By(counters, "total")) IN
    policy # None =>
        /\ counters.kept + total = asked
        /\ \A what \in {"antenna", "category", "reason"} :
              BagCardinality(By(counters, what)) = total

\* No read disappears between the reader and the page.
ReadsAccounted == RowsShown /\ CountersComplete

\* The policy that was set last decides about every read, by the category that
\* the most specific rule of its catalog gives the tag.
Verdicts ==
    [][\A tag \in situation.tags : policy # None /\ Read(tag) =>
           \E category \in CategoriesOf(policy.catalog, tag) :
               counters'.kept = counters.kept + IF Permits(policy, tag, category) THEN 1 ELSE 0]_mvars

\* A page shows the reader exactly while the registry has it, whenever it was
\* opened, unless an event was lost to it or is still on its way.
PageTrue ==
    sub.at = "subscribed" /\ sub.queue = <<>> /\ ~sub.lost /\ life # "removing" =>
        (sub.shown <=> life = "listed")
=============================================================================
