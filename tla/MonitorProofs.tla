--------------------------- MODULE MonitorProofs ---------------------------
(***************************************************************************)
(* Monitor proved for any antennas, any QuietAfter, any batch and any size *)
(* of a subscriber's queue: a page shows what the registry has, a quiet    *)
(* alert comes exactly when its rule says, and every row is published.     *)
(***************************************************************************)
EXTENDS Monitor, FiniteSetTheorems, SequenceTheorems, WellFoundedInduction, TLAPS

(***************************************************************************)
(* The watch over antennas.  When no policy keeps reads from it the        *)
(* monitor's clocks and alerts are the true ones, and what it takes for    *)
(* connected is what is plugged in, but for what the reader's events say   *)
(* that it has not been told yet.                                          *)
(***************************************************************************)

Notice == [type : {"connected", "disconnected"}, antenna : Antennas]
          \cup [type : {"exception"}]

\* Event i is about antenna a.
About(i, a) == events[i].type # "exception" /\ events[i].antenna = a

WatchTypes ==
    /\ situation \in Situations
    /\ up \subseteq Antennas /\ plugged \subseteq Antennas
    /\ events \in Seq(Notice)
    /\ lastSeen \in [Antennas -> Nat] /\ silence \in [Antennas -> Nat]

SameClock ==
    situation.policies = {} => policy = None /\ lastSeen = silence /\ quiet = incidents

\* The last event about an antenna is true of it; without one the monitor is.
Told ==
    \A a \in Antennas :
        /\ (\A i \in 1..Len(events) : ~About(i, a)) => (a \in up <=> a \in plugged)
        /\ \A i \in 1..Len(events) :
              About(i, a) /\ (\A j \in 1..Len(events) : j > i => ~About(j, a))
                  => (events[i].type = "connected" <=> a \in plugged)

WatchInv == WatchTypes /\ SameClock /\ Told

\* What the watch is about.
watched == <<plugged, events, up, lastSeen, quiet, silence, incidents, situation>>

LEMMA WatchInit == MonitorInit => WatchInv
<1> SUFFICES ASSUME MonitorInit PROVE WatchInv
  OBVIOUS
<1>1. WatchTypes
  BY MonitorAssumption DEF MonitorInit, WatchTypes, Never
<1>2. SameClock
  BY DEF MonitorInit, SameClock
<1>3. events = <<>> /\ up = plugged
  BY DEF MonitorInit
<1>4. Told
  BY <1>3 DEF Told
<1> QED  BY <1>1, <1>2, <1>4 DEF WatchInv

\* A step that does not touch the watch, nor sets a policy unless some may be.
LEMMA Unwatched ==
    ASSUME WatchInv, UNCHANGED watched, UNCHANGED policy \/ situation.policies # {}
    PROVE  WatchInv'
<1>1. WatchTypes'
  BY DEF WatchInv, WatchTypes, watched
<1>2. SameClock'
  BY DEF WatchInv, SameClock, watched
<1>3. Told'
  BY DEF WatchInv, Told, About, watched
<1> QED  BY <1>1, <1>2, <1>3 DEF WatchInv

\* A read starts the clock of its antenna anew, the true one and the other.
LEMMA WatchRead ==
    ASSUME WatchInv, UNCHANGED situation, NEW tag \in situation.tags, Read(tag)
    PROVE  WatchInv'
<1> DEFINE a == tag.antenna
<1>1. a \in Antennas
  BY MonitorAssumption DEF WatchInv, WatchTypes
<1>2. /\ silence' = [silence EXCEPT ![a] = 0] /\ incidents' = incidents \ {a}
      /\ UNCHANGED <<plugged, events, policy>>
  BY DEF Read, line, rules
<1>3. \/ UNCHANGED <<up, lastSeen, quiet>> /\ policy # None
      \/ lastSeen' = [lastSeen EXCEPT ![a] = 0] /\ quiet' = quiet \ {a} /\ up' = up
  BY DEF Read, Note, Observe, health
<1>4. WatchTypes'
  BY <1>1, <1>2, <1>3 DEF WatchInv, WatchTypes
<1>5. SameClock'
  BY <1>2, <1>3 DEF WatchInv, SameClock
<1>6. Told'
  BY <1>2, <1>3 DEF WatchInv, Told, About
<1> QED  BY <1>4, <1>5, <1>6 DEF WatchInv

\* One turn of _run_health makes both clocks older.
LEMMA WatchTick == WatchInv /\ UNCHANGED situation /\ HealthTick => WatchInv'
<1> SUFFICES ASSUME WatchInv, UNCHANGED situation, HealthTick PROVE WatchInv'
  OBVIOUS
<1>1. /\ lastSeen' = Older(lastSeen) /\ silence' = Older(silence)
      /\ quiet' = quiet \cup Falls(Older(lastSeen))
      /\ incidents' = incidents \cup Falls(Older(lastSeen))
      /\ UNCHANGED <<plugged, events, up, policy>>
  BY DEF HealthTick, line, rules
<1>2. Older(lastSeen) \in [Antennas -> Nat] /\ Older(silence) \in [Antennas -> Nat]
  BY MonitorAssumption DEF WatchInv, WatchTypes, Older
<1>3. WatchTypes'
  BY <1>1, <1>2 DEF WatchInv, WatchTypes
<1>4. SameClock'
  BY <1>1 DEF WatchInv, SameClock
<1>5. Told'
  BY <1>1 DEF WatchInv, Told, About
<1> QED  BY <1>3, <1>4, <1>5 DEF WatchInv

\* The reader has something new to say.
LEMMA WatchNotice ==
    ASSUME WatchInv, NEW notice \in Notice, events' = Append(events, notice),
           UNCHANGED <<up, lastSeen, quiet, silence, incidents, situation, policy>>,
           \/ notice.type = "exception" /\ UNCHANGED plugged
           \/ /\ notice.type = "connected" /\ plugged' = plugged \cup {notice.antenna}
           \/ /\ notice.type = "disconnected" /\ plugged' = plugged \ {notice.antenna}
    PROVE  WatchInv'
<1>1. events \in Seq(Notice) /\ Len(events) \in Nat /\ Len(events') = Len(events) + 1
      /\ events' \in Seq(Notice)
      /\ (\A i \in 1..Len(events) : events'[i] = events[i])
      /\ events'[Len(events) + 1] = notice
  BY DEF WatchInv, WatchTypes
<1>2. notice.type # "exception" => notice.antenna \in Antennas
  BY DEF Notice
<1>3. WatchTypes'
  BY <1>1, <1>2 DEF WatchInv, WatchTypes
<1>4. SameClock'
  BY DEF WatchInv, SameClock
<1>5. ASSUME NEW a \in Antennas, \A i \in 1..Len(events') : ~About(i, a)'
      PROVE  a \in up' <=> a \in plugged'
  <2>1. ~About(Len(events), a)' /\ \A i \in 1..Len(events) : ~About(i, a)'
    BY <1>1, <1>5
  <2>2. \A i \in 1..Len(events) : ~About(i, a)
    BY <1>1, <2>1 DEF About
  <2>3. notice.type = "exception" \/ notice.antenna # a
    BY <1>1, <2>1 DEF About
  <2> QED  BY <2>2, <2>3 DEF WatchInv, Told
<1>6. ASSUME NEW a \in Antennas, NEW i \in 1..Len(events'), About(i, a)',
             \A j \in 1..Len(events') : j > i => ~About(j, a)'
      PROVE  events'[i].type = "connected" <=> a \in plugged'
  <2>1. CASE i = Len(events) + 1
    <3>1. events'[i] = notice /\ notice.type # "exception" /\ notice.antenna = a
      BY <1>1, <1>6, <2>1 DEF About
    <3> QED  BY <3>1
  <2>2. CASE i # Len(events) + 1
    <3>1. i \in 1..Len(events) /\ events'[i] = events[i]
      BY <1>1, <1>6, <2>2
    <3>2. About(i, a) /\ \A j \in 1..Len(events) : j > i => ~About(j, a)
      BY <1>1, <1>6, <3>1 DEF About
    <3>3. events[i].type = "connected" <=> a \in plugged
      BY <3>1, <3>2 DEF WatchInv, Told
    <3>4. ~About(Len(events), a)'
      BY <1>1, <1>6, <3>1
    <3>5. notice.type = "exception" \/ notice.antenna # a
      BY <1>1, <3>4 DEF About
    <3> QED  BY <3>1, <3>3, <3>5
  <2> QED  BY <2>1, <2>2
<1>7. Told'
  BY <1>5, <1>6 DEF Told
<1> QED  BY <1>3, <1>4, <1>7 DEF WatchInv

\* The monitor is told of the oldest event.
LEMMA WatchEvent == WatchInv /\ UNCHANGED situation /\ HandleEvent => WatchInv'
<1> SUFFICES ASSUME WatchInv, UNCHANGED situation, HandleEvent PROVE WatchInv'
  OBVIOUS
<1>1. /\ events # <<>> /\ events' = Tail(events) /\ Digest(Head(events))
      /\ UNCHANGED <<plugged, lastSeen, quiet, silence, incidents, policy>>
  BY DEF HandleEvent, rules, truth
<1>2. events \in Seq(Notice) /\ Len(events) \in Nat \ {0} /\ Len(events') = Len(events) - 1
      /\ events' \in Seq(Notice) /\ Head(events) = events[1] /\ events[1] \in Notice
      /\ (\A i \in 1..Len(events') : events'[i] = events[i + 1])
  BY <1>1 DEF WatchInv, WatchTypes
<1>3. \/ events[1].type = "exception" /\ up' = up
      \/ events[1].type = "connected" /\ up' = up \cup {events[1].antenna}
      \/ events[1].type = "disconnected" /\ up' = up \ {events[1].antenna}
  BY <1>1, <1>2 DEF Digest, Notice
<1>4. events[1].type # "exception" => events[1].antenna \in Antennas
  BY <1>2 DEF Notice
<1>5. WatchTypes'
  BY <1>1, <1>2, <1>3, <1>4 DEF WatchInv, WatchTypes
<1>6. SameClock'
  BY <1>1 DEF WatchInv, SameClock
<1>7. \A a \in Antennas : \A i \in 1..Len(events') : About(i, a)' <=> About(i + 1, a)
  BY <1>2 DEF About
<1>8. ASSUME NEW a \in Antennas, \A i \in 1..Len(events') : ~About(i, a)'
      PROVE  a \in up' <=> a \in plugged'
  <2>1. \A j \in 1..Len(events) : j > 1 => ~About(j, a)
    <3>1. SUFFICES ASSUME NEW j \in 1..Len(events), j > 1 PROVE ~About(j, a)
      OBVIOUS
    <3>2. j - 1 \in 1..Len(events') /\ (j - 1) + 1 = j
      BY <1>2, <3>1
    <3> QED  BY <1>7, <1>8, <3>2
  <2>2. CASE About(1, a)
    <3>1. events[1].type = "connected" <=> a \in plugged
      BY <1>2, <2>1, <2>2 DEF WatchInv, Told
    <3>2. a \in up' <=> events[1].type = "connected"
      BY <1>3, <2>2 DEF About
    <3> QED  BY <1>1, <3>1, <3>2
  <2>3. CASE ~About(1, a)
    <3>1. \A j \in 1..Len(events) : ~About(j, a)
      BY <1>2, <2>1, <2>3
    <3>2. a \in up <=> a \in plugged
      BY <3>1 DEF WatchInv, Told
    <3>3. a \in up' <=> a \in up
      BY <1>3, <2>3 DEF About
    <3> QED  BY <1>1, <3>2, <3>3
  <2> QED  BY <2>2, <2>3
<1>9. ASSUME NEW a \in Antennas, NEW i \in 1..Len(events'), About(i, a)',
             \A j \in 1..Len(events') : j > i => ~About(j, a)'
      PROVE  events'[i].type = "connected" <=> a \in plugged'
  <2>1. i + 1 \in 1..Len(events) /\ events'[i] = events[i + 1] /\ About(i + 1, a)
    BY <1>2, <1>7, <1>9
  <2>2. \A j \in 1..Len(events) : j > i + 1 => ~About(j, a)
    <3>1. SUFFICES ASSUME NEW j \in 1..Len(events), j > i + 1 PROVE ~About(j, a)
      OBVIOUS
    <3>2. j - 1 \in 1..Len(events') /\ (j - 1) + 1 = j /\ j - 1 > i
      BY <1>2, <1>9, <3>1
    <3> QED  BY <1>7, <1>9, <3>2
  <2>3. events[i + 1].type = "connected" <=> a \in plugged
    BY <2>1, <2>2 DEF WatchInv, Told
  <2> QED  BY <1>1, <2>1, <2>3
<1>10. Told'
  BY <1>8, <1>9 DEF Told
<1> QED  BY <1>5, <1>6, <1>10 DEF WatchInv

\* Every step keeps the watch.
LEMMA WatchNext == WatchInv /\ Next => WatchInv'
<1> SUFFICES ASSUME WatchInv, Next PROVE WatchInv'
  OBVIOUS
<1>0. UNCHANGED situation
  BY DEF Next
<1> USE DEF line, rules, health, truth, watched
<1>1. CASE FlushDue \/ StreamStopped \/ StreamRestarts \/ StreamFails \/ StreamFailed
  <2>1. UNCHANGED watched /\ UNCHANGED policy
    BY <1>0, <1>1 DEF FlushDue, StreamStopped, StreamRestarts, StreamFails, StreamFailed
  <2> QED  BY <2>1, Unwatched
<1>2. ASSUME NEW tag \in situation.tags, Read(tag) PROVE WatchInv'
  BY <1>0, <1>2, WatchRead
<1>3. CASE HandleEvent
  BY <1>0, <1>3, WatchEvent
<1>4. CASE HealthTick
  BY <1>0, <1>4, WatchTick
<1>5. CASE Start \/ Stop \/ RemoveReader \/ Removed
  <2>1. UNCHANGED watched /\ UNCHANGED policy
    BY <1>0, <1>5 DEF Start, Stop, RemoveReader, Removed
  <2> QED  BY <2>1, Unwatched
<1>6. ASSUME NEW p \in situation.policies, SetPolicy(p) PROVE WatchInv'
  <2>1. UNCHANGED watched /\ situation.policies # {}
    BY <1>0, <1>6 DEF SetPolicy
  <2> QED  BY <2>1, Unwatched
<1>7. CASE AcceptSocket \/ Subscribe \/ Show \/ Unsubscribe \/ Lose
  <2>1. UNCHANGED watched /\ UNCHANGED policy
    BY <1>0, <1>7 DEF AcceptSocket, Subscribe, Show, Unsubscribe, Lose
  <2> QED  BY <2>1, Unwatched
<1>8. CASE ReaderException
  <2>1. [type |-> "exception"] \in Notice
    BY DEF Notice
  <2>2. /\ events' = Append(events, [type |-> "exception"])
        /\ UNCHANGED <<plugged, up, lastSeen, quiet, silence, incidents, situation, policy>>
    BY <1>0, <1>8 DEF ReaderException
  <2> QED  BY <2>1, <2>2, WatchNotice
<1>9. ASSUME NEW a \in Antennas, AntennaChanges(a) PROVE WatchInv'
  <2> DEFINE notice == [type |-> IF a \in plugged THEN "disconnected" ELSE "connected",
                        antenna |-> a]
  <2>1. notice \in Notice
    BY DEF Notice
  <2>2. /\ events' = Append(events, notice)
        /\ UNCHANGED <<up, lastSeen, quiet, silence, incidents, situation, policy>>
        /\ plugged' = IF a \in plugged THEN plugged \ {a} ELSE plugged \cup {a}
    BY <1>0, <1>9 DEF AntennaChanges
  <2>3. notice.antenna = a
        /\ notice.type = IF a \in plugged THEN "disconnected" ELSE "connected"
    OBVIOUS
  <2> HIDE DEF notice
  <2>4. \/ notice.type = "connected" /\ plugged' = plugged \cup {notice.antenna}
        \/ notice.type = "disconnected" /\ plugged' = plugged \ {notice.antenna}
    BY <2>2, <2>3
  <2> QED  BY <2>1, <2>2, <2>4, WatchNotice
<1> QED
  BY <1>1, <1>2, <1>3, <1>4, <1>5, <1>6, <1>7, <1>8, <1>9
  DEF Next, Inventory, Control, Peers

(***************************************************************************)
(* The page.  As long as the registry has the reader, every roster says    *)
(* so; the last event of all is the roster that says that it is gone.      *)
(***************************************************************************)

HubEvent == [type : {"tags", "alert", "health", "stats", "policy"}]
            \cup [type : {"readers"}, reader : BOOLEAN]
Subscriber == [at : {"away", "accepted", "subscribed"}, queue : Seq(HubEvent),
               lost : BOOLEAN, shown : BOOLEAN]

SaysListed(event) == event.type = "readers" => event.reader
SaysGone(event) == event.type = "readers" /\ ~event.reader

\* What a subscriber s that has lost nothing can expect of its queue while the
\* reader is in state l.
Expects(s, l) ==
    s.at = "subscribed" /\ ~s.lost =>
        /\ l = "listed" => s.shown /\ \A i \in 1..Len(s.queue) : SaysListed(s.queue[i])
        /\ l = "gone" => IF s.queue = <<>> THEN ~s.shown
                         ELSE SaysGone(s.queue[Len(s.queue)])

PageInv ==
    /\ life \in {"listed", "removing", "gone"}
    /\ sub \in Subscriber
    /\ sub.at # "subscribed" => sub.queue = <<>> /\ ~sub.lost
    /\ life = "removing" => stream \in {"off", "stopping"}
    /\ life = "gone" => stream = "off"
    /\ Expects(sub, life)

\* Nobody has opened the page.
LEMMA PageInit == MonitorInit => PageInv
<1> SUFFICES ASSUME MonitorInit PROVE PageInv
  OBVIOUS
<1>1. sub \in Subscriber /\ sub.at = "away" /\ sub.queue = <<>> /\ ~sub.lost
  BY DEF MonitorInit, NoSubscriber, Subscriber
<1> QED  BY <1>1 DEF MonitorInit, PageInv, Expects

\* Broadcast.publish() to a subscriber: the events are appended to its queue,
\* or it has lost one.
LEMMA Published ==
    ASSUME sub \in Subscriber, NEW new \in Seq(HubEvent), Publish(new)
    PROVE  /\ sub' \in Subscriber /\ sub'.at = sub.at
           /\ sub.at # "subscribed" => sub' = sub
           /\ sub.at = "subscribed" /\ ~sub'.lost =>
                 ~sub.lost /\ sub'.shown = sub.shown /\ sub'.queue = sub.queue \o new
<1>1. CASE sub.at # "subscribed"
  BY <1>1 DEF Publish
<1>2. CASE sub.at = "subscribed"
  <2> DEFINE all == sub.queue \o new
             room == Min({Len(all), HubQueue})
  <2>1. all \in Seq(HubEvent) /\ Len(all) \in Nat /\ HubQueue \in Nat
    BY MonitorAssumption DEF Subscriber
  <2>2. \E n \in {Len(all), HubQueue} : \A m \in {Len(all), HubQueue} : n <= m
    BY <2>1
  <2>3. room \in Nat /\ room <= Len(all) /\ room <= HubQueue
        /\ (room = Len(all) \/ room = HubQueue)
    BY <2>1, <2>2 DEF Min
  <2>4. SubSeq(all, 1, room) \in Seq(HubEvent)
    <3>1. \A i \in 1..room : all[i] \in HubEvent
      <4> HIDE DEF all, room
      <4> QED  BY <2>1, <2>3
    <3> HIDE DEF all, room
    <3> QED  BY <2>3, <3>1, SubSeqProperties
  <2>5. sub' = [sub EXCEPT !.queue = SubSeq(all, 1, room),
                           !.lost = sub.lost \/ Len(all) > HubQueue]
    BY <1>2 DEF Publish
  <2>6. sub' \in Subscriber /\ sub'.at = sub.at /\ sub'.shown = sub.shown
        /\ sub'.queue = SubSeq(all, 1, room)
        /\ sub'.lost = (sub.lost \/ Len(all) > HubQueue)
    <3> HIDE DEF all, room
    <3> QED  BY <2>4, <2>5 DEF Subscriber
  <2>7. ~(Len(all) > HubQueue) => SubSeq(all, 1, room) = all
    <3>1. SUFFICES ASSUME ~(Len(all) > HubQueue) PROVE SubSeq(all, 1, room) = all
      OBVIOUS
    <3>2. room = Len(all)
      <4> HIDE DEF all, room
      <4> QED  BY <2>1, <2>3, <3>1
    <3> HIDE DEF all, room
    <3> QED  BY <2>1, <3>2, SubSeqFull
  <2> HIDE DEF room
  <2> QED  BY <1>2, <2>6, <2>7
<1> QED  BY <1>1, <1>2

\* What is published while the registry has the reader, or has begun to remove
\* it, is in order if no roster denies the reader.
LEMMA PublishedTrue ==
    ASSUME PageInv, life # "gone", NEW new \in Seq(HubEvent), Publish(new), life' = life,
           life = "listed" => \A i \in 1..Len(new) : SaysListed(new[i]),
           life = "removing" => stream' \in {"off", "stopping"}
    PROVE  PageInv'
<1>1. /\ sub' \in Subscriber /\ sub'.at = sub.at
      /\ sub.at # "subscribed" => sub' = sub
      /\ sub.at = "subscribed" /\ ~sub'.lost =>
            ~sub.lost /\ sub'.shown = sub.shown /\ sub'.queue = sub.queue \o new
  BY Published DEF PageInv
<1>2. Expects(sub', life)
  <2>1. SUFFICES ASSUME sub.at = "subscribed", ~sub'.lost, life = "listed"
                 PROVE  /\ sub'.shown
                        /\ \A i \in 1..Len(sub'.queue) : SaysListed(sub'.queue[i])
    BY <1>1 DEF Expects, PageInv
  <2>2. /\ sub.shown /\ sub.queue \in Seq(HubEvent)
        /\ \A i \in 1..Len(sub.queue) : SaysListed(sub.queue[i])
    BY <1>1, <2>1 DEF PageInv, Expects, Subscriber
  <2>3. \A i \in 1..Len(sub.queue \o new) : SaysListed((sub.queue \o new)[i])
    <3>1. SUFFICES ASSUME NEW i \in 1..Len(sub.queue \o new)
                   PROVE  SaysListed((sub.queue \o new)[i])
      OBVIOUS
    <3>2. CASE i <= Len(sub.queue)
      BY <2>2, <3>1, <3>2
    <3>3. CASE i > Len(sub.queue)
      <4>1. i - Len(sub.queue) \in 1..Len(new)
            /\ (sub.queue \o new)[i] = new[i - Len(sub.queue)]
        BY <2>2, <3>1, <3>3
      <4> QED  BY <2>1, <4>1
    <3> QED  BY <2>2, <3>1, <3>2, <3>3
  <2> QED  BY <1>1, <2>1, <2>2, <2>3
<1>3. Expects(sub', life')
  BY <1>2
<1> QED  BY <1>1, <1>3 DEF PageInv

\* Two sequences of events that do not deny the reader, one after the other.
Truthful(new) ==
    new \in Seq(HubEvent) /\ (life = "listed" => \A i \in 1..Len(new) : SaysListed(new[i]))

LEMMA TruthfulConcat ==
    ASSUME NEW s, NEW t, Truthful(s), Truthful(t)
    PROVE  Truthful(s \o t)
<1>1. s \in Seq(HubEvent) /\ t \in Seq(HubEvent) /\ s \o t \in Seq(HubEvent)
  BY DEF Truthful
<1>2. ASSUME life = "listed", NEW i \in 1..Len(s \o t)
      PROVE  SaysListed((s \o t)[i])
  <2>1. CASE i <= Len(s)
    BY <1>1, <1>2, <2>1 DEF Truthful
  <2>2. CASE i > Len(s)
    <3>1. i - Len(s) \in 1..Len(t) /\ (s \o t)[i] = t[i - Len(s)]
      BY <1>1, <1>2, <2>2
    <3> QED  BY <1>2, <3>1 DEF Truthful
  <2> QED  BY <1>1, <1>2, <2>1, <2>2
<1> QED  BY <1>1, <1>2 DEF Truthful

\* The sequences that are published.
LEMMA TruthfulPieces ==
    /\ Truthful(<<>>)
    /\ \A n : Truthful(Rows(n))
    /\ \A a : Truthful(Recovered(a))
    /\ Truthful(<<Event("alert")>>) /\ Truthful(<<Event("policy")>>)
    /\ Truthful(<<Event("health"), Event("stats")>>)
    /\ life = "listed" => Truthful(<<Roster>>)
<1>1. Event("alert") \in HubEvent /\ SaysListed(Event("alert"))
  BY DEF Event, HubEvent, SaysListed
<1>2. Event("tags") \in HubEvent /\ SaysListed(Event("tags"))
  BY DEF Event, HubEvent, SaysListed
<1>3. Event("policy") \in HubEvent /\ SaysListed(Event("policy"))
  BY DEF Event, HubEvent, SaysListed
<1>4. Event("health") \in HubEvent /\ SaysListed(Event("health"))
  BY DEF Event, HubEvent, SaysListed
<1>5. Event("stats") \in HubEvent /\ SaysListed(Event("stats"))
  BY DEF Event, HubEvent, SaysListed
<1>6. life = "listed" => Roster \in HubEvent /\ SaysListed(Roster)
  <2>1. ASSUME life = "listed" PROVE Roster = [type |-> "readers", reader |-> TRUE]
    BY <2>1, Zenon DEF Roster
  <2>2. ASSUME NEW r, r = [type |-> "readers", reader |-> TRUE]
        PROVE  r \in HubEvent /\ SaysListed(r)
    BY <2>2 DEF HubEvent, SaysListed
  <2> QED  BY <2>1, <2>2, Zenon
<1>7. Truthful(<<>>)
  BY DEF Truthful
<1>8. Truthful(<<Event("alert")>>) /\ Truthful(<<Event("policy")>>) /\ Truthful(<<Event("tags")>>)
  BY <1>1, <1>2, <1>3 DEF Truthful
<1>9. Truthful(<<Event("health"), Event("stats")>>)
  BY <1>4, <1>5 DEF Truthful
<1>10. life = "listed" => Truthful(<<Roster>>)
  BY <1>6 DEF Truthful
<1> QED  BY <1>7, <1>8, <1>9, <1>10 DEF Rows, Recovered

\* A step that says nothing.
LEMMA NothingPublished ==
    ASSUME PageInv, UNCHANGED <<life, sub>>,
           life = "removing" => stream' \in {"off", "stopping"},
           life = "gone" => stream' = "off"
    PROVE  PageInv'
BY DEF PageInv, Expects

\* One that publishes in order.
LEMMA TruthPublished ==
    ASSUME PageInv, life # "gone", NEW new, Truthful(new), Publish(new), life' = life,
           life = "removing" => stream' \in {"off", "stopping"}
    PROVE  PageInv'
<1>1. new \in Seq(HubEvent)
      /\ (life = "listed" => \A i \in 1..Len(new) : SaysListed(new[i]))
  BY DEF Truthful
<1> QED  BY <1>1, PublishedTrue

\* The task of the inventory.
LEMMA PageInventory == PageInv /\ Inventory => PageInv'
<1> SUFFICES ASSUME PageInv, Inventory PROVE PageInv'
  OBVIOUS
<1> USE DEF task
<1>0. life \in {"listed", "removing", "gone"} /\ (life = "removing" => stream \in {"off", "stopping"})
      /\ (life = "gone" => stream = "off")
  BY DEF PageInv
<1>1. CASE FlushDue
  <2>1. life = "listed" /\ UNCHANGED <<life, sub, stream>>
    BY <1>0, <1>1 DEF FlushDue
  <2> QED  BY <2>1, NothingPublished
<1>2. CASE StreamStopped
  <2>1. life # "gone" /\ life' = life /\ stream' = "off"
    BY <1>0, <1>2 DEF StreamStopped
  <2>2. Truthful(IF life = "listed" THEN <<Roster>> ELSE <<>>)
    BY TruthfulPieces
  <2>3. Truthful(Rows(batch) \o IF life = "listed" THEN <<Roster>> ELSE <<>>)
    BY <2>2, TruthfulPieces, TruthfulConcat
  <2>4. Publish(Rows(batch) \o IF life = "listed" THEN <<Roster>> ELSE <<>>)
    BY <1>2 DEF StreamStopped
  <2> QED  BY <2>1, <2>3, <2>4, TruthPublished
<1>3. CASE StreamRestarts
  <2>1. life = "listed" /\ life' = life /\ Publish(Rows(batch) \o <<Roster>>)
    BY <1>0, <1>3 DEF StreamRestarts
  <2>2. Truthful(Rows(batch) \o <<Roster>>)
    BY <2>1, TruthfulPieces, TruthfulConcat
  <2> QED  BY <2>1, <2>2, TruthPublished
<1>4. CASE StreamFails
  <2>1. life = "listed" /\ UNCHANGED <<life, sub>>
    BY <1>0, <1>4 DEF StreamFails
  <2> QED  BY <2>1, NothingPublished
<1>5. CASE StreamFailed
  <2>1. life = "listed" /\ life' = life /\ Publish(<<Event("alert")>> \o Rows(batch))
    BY <1>0, <1>5 DEF StreamFailed
  <2>2. Truthful(<<Event("alert")>> \o Rows(batch))
    BY TruthfulPieces, TruthfulConcat
  <2> QED  BY <2>1, <2>2, TruthPublished
<1>6. ASSUME NEW tag \in situation.tags, Read(tag) PROVE PageInv'
  <2>1. life = "listed" /\ life' = life
    BY <1>0, <1>6 DEF Read
  <2>2. CASE Note(tag.antenna)
    <3>1. \/ Publish(Recovered(tag.antenna) \o Rows(batch + 1))
          \/ Publish(Recovered(tag.antenna))
      BY <2>2 DEF Note
    <3>2. Truthful(Recovered(tag.antenna) \o Rows(batch + 1)) /\ Truthful(Recovered(tag.antenna))
      BY TruthfulPieces, TruthfulConcat
    <3> QED  BY <2>1, <3>1, <3>2, TruthPublished
  <2>3. CASE UNCHANGED <<task, health, sub>>
    BY <2>1, <2>3, NothingPublished
  <2> QED  BY <1>6, <2>2, <2>3 DEF Read
<1> QED  BY <1>1, <1>2, <1>3, <1>4, <1>5, <1>6 DEF Inventory

\* The tasks of events and health.
LEMMA PageWatch == PageInv /\ WatchInv /\ (HandleEvent \/ HealthTick) => PageInv'
<1> SUFFICES ASSUME PageInv, WatchInv, HandleEvent \/ HealthTick PROVE PageInv'
  OBVIOUS
<1>1. CASE HandleEvent
  <2>1. life # "gone" /\ life' = life /\ stream' = stream /\ Publish(<<Event("alert")>>)
    BY <1>1 DEF HandleEvent, task
  <2>2. life = "removing" => stream' \in {"off", "stopping"}
    BY <2>1 DEF PageInv
  <2> QED  BY <2>1, <2>2, TruthfulPieces, TruthPublished
<1>2. CASE HealthTick
  <2> DEFINE new == Falls(Older(lastSeen))
             alerts == [i \in 1..Cardinality(new) |-> Event("alert")]
             said == alerts \o <<Event("health"), Event("stats")>>
                     \o IF policy = None THEN <<>> ELSE <<Event("policy")>>
  <2>1. life # "gone" /\ life' = life /\ stream' = stream /\ Publish(said)
    BY <1>2 DEF HealthTick, task
  <2>2. life = "removing" => stream' \in {"off", "stopping"}
    BY <2>1 DEF PageInv
  <2>3. Cardinality(new) \in Nat
    <3>1. new \subseteq Antennas
      BY DEF Falls, WatchInv, WatchTypes
    <3>2. IsFiniteSet(Antennas)
      BY MonitorAssumption
    <3>3. IsFiniteSet(new)
      BY <3>1, <3>2, FS_Subset
    <3> QED  BY <3>3, FS_CardinalityType
  <2>4. Truthful(alerts)
    BY <2>3 DEF Truthful, Event, HubEvent, SaysListed
  <2>5. Truthful(said)
    <3> HIDE DEF alerts
    <3>1. Truthful(alerts \o <<Event("health"), Event("stats")>>)
      BY <2>4, TruthfulPieces, TruthfulConcat
    <3>2. Truthful(IF policy = None THEN <<>> ELSE <<Event("policy")>>)
      BY TruthfulPieces
    <3> QED  BY <3>1, <3>2, TruthfulConcat
  <2> HIDE DEF said
  <2> QED  BY <2>1, <2>2, <2>5, TruthPublished
<1> QED  BY <1>1, <1>2

\* Requests.  The roster that ends it all is the last thing published.
LEMMA PageControl == PageInv /\ Control => PageInv'
<1> SUFFICES ASSUME PageInv, Control PROVE PageInv'
  OBVIOUS
<1> USE DEF task
<1>0. life \in {"listed", "removing", "gone"}
  BY DEF PageInv
<1>1. CASE Start
  <2>1. life = "listed" /\ life' = life /\ (sub' = sub \/ Publish(<<Roster>>))
    BY <1>1 DEF Start, Ready
  <2> QED  BY <2>1, TruthfulPieces, TruthPublished, NothingPublished
<1>2. CASE Stop
  <2>1. life = "listed" /\ UNCHANGED <<life, sub>>
    BY <1>2 DEF Stop
  <2> QED  BY <2>1, NothingPublished
<1>3. ASSUME NEW p \in situation.policies, SetPolicy(p) PROVE PageInv'
  <2>1. life = "listed" /\ life' = life /\ (sub' = sub \/ Publish(<<Roster>>))
    BY <1>3 DEF SetPolicy, Ready
  <2> QED  BY <2>1, TruthfulPieces, TruthPublished, NothingPublished
<1>4. CASE RemoveReader
  <2>1. life' = "removing" /\ sub' = sub /\ stream' \in {"off", "stopping"}
    BY <1>4 DEF RemoveReader
  <2> QED  BY <2>1 DEF PageInv, Expects
<1>5. CASE Removed
  <2>1. life = "removing" /\ life' = "gone" /\ stream' = "off" /\ Publish(<<Roster>>)
    BY <1>5 DEF Removed
  <2>2. Roster = [type |-> "readers", reader |-> FALSE]
    BY <2>1, Zenon DEF Roster
  <2>3. ASSUME NEW r, r = [type |-> "readers", reader |-> FALSE]
        PROVE  r \in HubEvent /\ SaysGone(r)
    BY <2>3 DEF HubEvent, SaysGone
  <2>4. Roster \in HubEvent /\ SaysGone(Roster)
    BY <2>2, <2>3, Zenon
  <2>5. <<Roster>> \in Seq(HubEvent)
    BY <2>4
  <2>6. /\ sub' \in Subscriber /\ sub'.at = sub.at
        /\ sub.at # "subscribed" => sub' = sub
        /\ sub.at = "subscribed" /\ ~sub'.lost => sub'.queue = sub.queue \o <<Roster>>
    BY <2>1, <2>5, Published DEF PageInv
  <2>7. Expects(sub', life')
    <3>1. SUFFICES ASSUME sub'.at = "subscribed", ~sub'.lost
                   PROVE  sub'.queue # <<>> /\ SaysGone(sub'.queue[Len(sub'.queue)])
      BY <2>1 DEF Expects
    <3>2. sub.queue \in Seq(HubEvent)
      BY DEF PageInv, Subscriber
    <3>3. sub.queue \o <<Roster>> # <<>>
          /\ (sub.queue \o <<Roster>>)[Len(sub.queue \o <<Roster>>)] = Roster
      <4> HIDE DEF Roster
      <4> QED  BY <2>4, <2>5, <3>2
    <3> QED  BY <2>4, <2>6, <3>1, <3>3
  <2>8. sub'.at # "subscribed" => sub'.queue = <<>> /\ ~sub'.lost
    BY <2>6 DEF PageInv
  <2> QED  BY <2>1, <2>6, <2>7, <2>8 DEF PageInv
<1> QED  BY <1>1, <1>2, <1>3, <1>4, <1>5 DEF Control

\* The subscriber, and the reader.
LEMMA PagePeers == PageInv /\ Peers => PageInv'
<1> SUFFICES ASSUME PageInv, Peers PROVE PageInv'
  OBVIOUS
<1> USE DEF task
<1>1. CASE AcceptSocket \/ Unsubscribe
  <2>1. sub' \in Subscriber /\ sub'.at # "subscribed" /\ sub'.queue = <<>> /\ ~sub'.lost
    <3>1. PICK b \in {TRUE, FALSE} : b <=> life = "listed"
      OBVIOUS
    <3>2. \/ sub' = [at |-> "accepted", queue |-> <<>>, lost |-> FALSE, shown |-> b]
          \/ sub' = [at |-> "away", queue |-> <<>>, lost |-> FALSE, shown |-> FALSE]
      <4>1. CASE AcceptSocket
        <5>1. sub' = [NoSubscriber EXCEPT !.at = "accepted", !.shown = (life = "listed")]
          BY <4>1 DEF AcceptSocket
        <5>2. (life = "listed") = b
          BY <3>1
        <5>3. sub' = [NoSubscriber EXCEPT !.at = "accepted", !.shown = b]
          BY <5>1, <5>2, Zenon
        <5> QED  BY <5>3 DEF NoSubscriber
      <4>2. CASE Unsubscribe
        BY <4>2 DEF Unsubscribe, NoSubscriber
      <4> QED  BY <1>1, <4>1, <4>2
    <3>3. <<>> \in Seq(HubEvent)
      OBVIOUS
    <3>4. ASSUME NEW at \in {"accepted", "away"}, NEW c \in BOOLEAN, NEW q, q = <<>>,
                 sub' = [at |-> at, queue |-> q, lost |-> FALSE, shown |-> c]
          PROVE  sub' \in Subscriber /\ sub'.at # "subscribed" /\ sub'.queue = <<>> /\ ~sub'.lost
      BY <3>3, <3>4 DEF Subscriber
    <3> QED  BY <3>1, <3>2, <3>4
  <2>2. UNCHANGED <<life, stream>>
    BY <1>1 DEF AcceptSocket, Unsubscribe
  <2> QED  BY <2>1, <2>2 DEF PageInv, Expects
<1>2. CASE Subscribe
  <2>1. sub.at = "accepted" /\ sub.queue = <<>> /\ ~sub.lost /\ sub \in Subscriber
    BY <1>2 DEF Subscribe, PageInv
  <2>2. sub' \in Subscriber /\ sub'.at = "subscribed" /\ sub'.queue = <<>> /\ ~sub'.lost
        /\ (sub'.shown <=> life = "listed")
    BY <1>2, <2>1 DEF Subscribe, Subscriber
  <2>3. UNCHANGED <<life, stream>>
    BY <1>2 DEF Subscribe
  <2> QED  BY <2>2, <2>3 DEF PageInv, Expects
<1>3. CASE Show
  <2> DEFINE event == Head(sub.queue)
  <2>1. /\ sub.queue # <<>> /\ sub \in Subscriber /\ sub.queue \in Seq(HubEvent)
        /\ sub.at = "subscribed"
    BY <1>3 DEF Show, PageInv, Subscriber
  <2>2. /\ event \in HubEvent /\ event = sub.queue[1]
        /\ Tail(sub.queue) \in Seq(HubEvent) /\ Len(Tail(sub.queue)) = Len(sub.queue) - 1
        /\ Len(sub.queue) \in Nat \ {0}
        /\ \A i \in 1..Len(Tail(sub.queue)) : Tail(sub.queue)[i] = sub.queue[i + 1]
    BY <2>1
  <2>3. event.type = "readers" => event.reader \in BOOLEAN
    BY <2>2 DEF HubEvent
  <2>4. /\ sub' \in Subscriber /\ sub'.at = sub.at /\ sub'.lost = sub.lost
        /\ sub'.queue = Tail(sub.queue)
        /\ event.type = "readers" => sub'.shown = event.reader
        /\ event.type # "readers" => sub'.shown = sub.shown
    <3> HIDE DEF event
    <3>1. sub' = [sub EXCEPT !.queue = Tail(sub.queue),
                             !.shown = IF event.type = "readers" THEN event.reader ELSE sub.shown]
      BY <1>3 DEF Show, event
    <3> QED  BY <2>1, <2>2, <2>3, <3>1 DEF Subscriber
  <2>5. UNCHANGED <<life, stream>>
    BY <1>3 DEF Show
  <2>6. ASSUME ~sub.lost, life = "listed"
        PROVE  sub'.shown /\ \A i \in 1..Len(sub'.queue) : SaysListed(sub'.queue[i])
    <3>1. sub.shown /\ \A i \in 1..Len(sub.queue) : SaysListed(sub.queue[i])
      BY <2>1, <2>6 DEF PageInv, Expects
    <3>2. SaysListed(event)
      BY <2>2, <3>1
    <3>3. sub'.shown
      BY <2>4, <3>1, <3>2 DEF SaysListed
    <3>4. \A i \in 1..Len(sub'.queue) : SaysListed(sub'.queue[i])
      <4>1. SUFFICES ASSUME NEW i \in 1..Len(sub'.queue) PROVE SaysListed(sub'.queue[i])
        OBVIOUS
      <4>2. i + 1 \in 1..Len(sub.queue) /\ sub'.queue[i] = sub.queue[i + 1]
        BY <2>2, <2>4, <4>1
      <4> QED  BY <3>1, <4>2
    <3> QED  BY <3>3, <3>4
  <2>7. ASSUME ~sub.lost, life = "gone"
        PROVE  IF sub'.queue = <<>> THEN ~sub'.shown ELSE SaysGone(sub'.queue[Len(sub'.queue)])
    <3>1. SaysGone(sub.queue[Len(sub.queue)])
      BY <2>1, <2>7 DEF PageInv, Expects
    <3>2. CASE Len(sub.queue) = 1
      <4>1. sub'.queue = <<>> /\ event = sub.queue[Len(sub.queue)]
        <5>1. Tail(sub.queue) \in Seq(HubEvent) /\ Len(Tail(sub.queue)) = 0
          BY <2>2, <3>2
        <5>2. Tail(sub.queue) = <<>>
          BY <5>1, EmptySeq
        <5> QED  BY <2>2, <2>4, <3>2, <5>2
      <4>2. SaysGone(event)
        BY <3>1, <4>1
      <4> QED  BY <2>4, <4>1, <4>2 DEF SaysGone
    <3>3. CASE Len(sub.queue) # 1
      <4>1. sub'.queue # <<>> /\ sub'.queue[Len(sub'.queue)] = sub.queue[Len(sub.queue)]
        <5>1. Len(Tail(sub.queue)) \in 1..Len(Tail(sub.queue))
              /\ Len(Tail(sub.queue)) + 1 = Len(sub.queue)
          <6>1. ASSUME NEW n \in Nat, n # 0, n # 1, NEW m, m = n - 1
                PROVE  m \in 1..m /\ m + 1 = n
            BY <6>1
          <6> QED  BY <2>2, <3>3, <6>1
        <5>2. Tail(sub.queue)[Len(Tail(sub.queue))] = sub.queue[Len(sub.queue)]
          BY <2>2, <5>1
        <5>3. Tail(sub.queue) # <<>>
          BY <5>1, Len(<<>>) = 0
        <5> QED  BY <2>4, <5>2, <5>3
      <4> QED  BY <3>1, <4>1
    <3> QED  BY <3>2, <3>3
  <2>8. Expects(sub', life')
    BY <2>4, <2>5, <2>6, <2>7 DEF Expects
  <2> QED  BY <2>1, <2>4, <2>5, <2>8 DEF PageInv
<1>4. CASE ReaderException \/ Lose \/ \E a \in Antennas : AntennaChanges(a)
  <2>1. UNCHANGED <<life, sub, stream>>
    BY <1>4 DEF ReaderException, Lose, AntennaChanges
  <2> QED  BY <2>1, NothingPublished DEF PageInv
<1> QED  BY <1>1, <1>2, <1>3, <1>4 DEF Peers

(***************************************************************************)
(* The batch.                                                              *)
(***************************************************************************)

RowsInv == batch \in Nat /\ RowsShown

\* However it goes, the rows that were not published are those of the batch.
LEMMA RowsNext == RowsInv /\ WatchInv /\ Next => RowsInv'
<1> SUFFICES ASSUME RowsInv, WatchInv, Next PROVE RowsInv'
  OBVIOUS
<1> USE DEF RowsInv, RowsShown, task
<1>1. CASE StreamStopped \/ StreamRestarts \/ StreamFailed
  BY <1>1 DEF StreamStopped, StreamRestarts, StreamFailed, Flush
<1>2. CASE FlushDue \/ StreamFails
  BY <1>2 DEF FlushDue, StreamFails
<1>3. ASSUME NEW tag \in situation.tags, Read(tag) PROVE RowsInv'
  <2>1. stream = "on" /\ (Note(tag.antenna) \/ UNCHANGED task)
    BY <1>3 DEF Read
  <2>2. CASE Note(tag.antenna)
    BY <2>1, <2>2 DEF Note
  <2> QED  BY <2>1, <2>2
<1>4. CASE HandleEvent \/ HealthTick
  BY <1>4 DEF HandleEvent, HealthTick
<1>5. CASE Control
  <2>1. batch' = batch /\ unshown' = unshown
        /\ (stream' = "off" => stream = "off")
    BY <1>5 DEF Control, Start, Stop, RemoveReader, Removed, SetPolicy, Ready
  <2> QED  BY <2>1
<1>6. CASE Peers
  BY <1>6 DEF Peers, AcceptSocket, Subscribe, Show, Unsubscribe, ReaderException, Lose,
              AntennaChanges
<1> QED  BY <1>1, <1>2, <1>3, <1>4, <1>5, <1>6 DEF Next, Inventory

(***************************************************************************)
(* Sums over bags.  The counters of a policy are bags, and what they come  *)
(* to is BagCardinality, which is recursive: induction is over the least   *)
(* element of a set of naturals and the smallest of a family of subsets.   *)
(***************************************************************************)

\* A set of naturals has a least element, ...
LEMMA Least ==
    ASSUME NEW S \in SUBSET Nat, S # {}
    PROVE  \E n \in S : \A m \in S : n <= m
<1> DEFINE Up == {0 .. n : n \in S}
<1>1. Up \subseteq FiniteSubsetsOf(Nat)
  <2>1. ASSUME NEW n \in S PROVE IsFiniteSet(0 .. n) /\ 0 .. n \subseteq Nat
    BY FS_Interval
  <2> QED  BY <2>1 DEF FiniteSubsetsOf
<1>2. Up # {}
  OBVIOUS
<1>3. PICK X \in Up : \A Y \in Up : <<Y, X>> \notin StrictSubsetOrdering(Nat)
  BY <1>1, <1>2, FS_StrictSubsetOrderingWellFounded, WFMin
<1>4. PICK n \in S : X = 0 .. n
  BY <1>3
<1>5. ASSUME NEW m \in S, m < n PROVE FALSE
  <2>1. 0 .. m \in Up /\ 0 .. m \subseteq 0 .. n /\ n \in 0 .. n /\ n \notin 0 .. m
    BY <1>5
  <2>2. <<0 .. m, 0 .. n>> \in StrictSubsetOrdering(Nat)
    BY <2>1 DEF StrictSubsetOrdering
  <2> QED  BY <1>3, <1>4, <2>1, <2>2
<1> QED  BY <1>4, <1>5

\* ... which is induction, stated of a set.
LEMMA Induct ==
    ASSUME NEW S, 0 \in S, \A n \in Nat : n \in S => n + 1 \in S
    PROVE  Nat \subseteq S
<1> SUFFICES ASSUME NEW k \in Nat, k \notin S PROVE FALSE
  OBVIOUS
<1> DEFINE T == Nat \ S
<1>1. PICK n \in T : \A m \in T : n <= m
  <2>1. T \in SUBSET Nat /\ T # {} OBVIOUS
  <2> HIDE DEF T
  <2> QED  BY <2>1, Least
<1>2. n \in Nat /\ n # 0 OBVIOUS
<1>3. n - 1 \in Nat /\ n - 1 \notin T BY <1>1, <1>2
<1> QED  BY <1>1, <1>2, <1>3

\* Every nonempty family of subsets of a finite set has a smallest member.
LEMMA Smallest ==
    ASSUME NEW D, IsFiniteSet(D), NEW F \in SUBSET SUBSET D, F # {}
    PROVE  \E X \in F : \A Y \in F : Y \subseteq X => Y = X
<1>1. F \subseteq FiniteSubsetsOf(D)
  BY FS_FiniteSubsetsOfFinite
<1>2. PICK X \in F : \A Y \in F : <<Y, X>> \notin StrictSubsetOrdering(D)
  BY <1>1, FS_StrictSubsetOrderingWellFounded, WFMin
<1>3. ASSUME NEW Y \in F, Y \subseteq X PROVE Y = X
  BY <1>2, <1>3 DEF StrictSubsetOrdering
<1> QED  BY <1>3

\* The recursion BagCardinality is defined by, ...
Picked(S) == CHOOSE e \in S : TRUE
SumStep(B, g, S) == IF S = {} THEN 0 ELSE B[Picked(S)] + g[S \ {Picked(S)}]
IsSum(B, g) == g = [S \in SUBSET DOMAIN B |-> SumStep(B, g, S)]
Sums(B) == CHOOSE g : IsSum(B, g)

LEMMA CardinalityIsSum == ASSUME NEW B PROVE BagCardinality(B) = Sums(B)[DOMAIN B]
  BY DEF BagCardinality, Sums, IsSum, SumStep, Picked

\* ... which has a solution over finite bags, by induction over how many
\* elements are summed.
LEMMA SumExists ==
    ASSUME NEW B, IsFiniteSet(DOMAIN B)
    PROVE  IsSum(B, Sums(B))
<1> DEFINE D == SUBSET DOMAIN B
           Ok(g, n) == \A S \in D : Cardinality(S) <= n => g[S] = SumStep(B, g, S)
           N == {n \in Nat : \E g : Ok(g, n)}
<1>1. \A S \in D : IsFiniteSet(S) /\ Cardinality(S) \in Nat /\ Cardinality(S) <= Cardinality(DOMAIN B)
  BY FS_Subset, FS_CardinalityType
<1>2. \A S \in D : S # {} => Picked(S) \in S /\ S \ {Picked(S)} \in D
                             /\ Cardinality(S \ {Picked(S)}) = Cardinality(S) - 1
  BY <1>1, FS_RemoveElement DEF Picked
<1>3. \A S \in D : Cardinality(S) = 0 => S = {}
  BY <1>1, FS_EmptySet
<1>4. 0 \in N
  <2> DEFINE g == [S \in D |-> 0]
  <2>1. Ok(g, 0) BY <1>1, <1>3 DEF SumStep
  <2> QED  BY <2>1
<1>5. ASSUME NEW n \in Nat, n \in N PROVE n + 1 \in N
  <2>1. PICK g : Ok(g, n) BY <1>5
  <2> DEFINE h == [S \in D |-> SumStep(B, g, S)]
  <2>3. ASSUME NEW S \in D, Cardinality(S) <= n + 1 PROVE h[S] = SumStep(B, h, S)
    <3>1. CASE S = {}
      BY <3>1 DEF SumStep
    <3>2. CASE S # {}
      <4>1. S \ {Picked(S)} \in D /\ Cardinality(S \ {Picked(S)}) <= n
        BY <3>2, <2>3, <1>1, <1>2
      <4>2. g[S \ {Picked(S)}] = h[S \ {Picked(S)}]
        BY <4>1, <2>1
      <4> QED  BY <4>2, <3>2 DEF SumStep
    <3> QED  BY <3>1, <3>2
  <2>4. Ok(h, n + 1) BY <2>3
  <2> HIDE DEF h
  <2> QED  BY <2>4
<1>6. Cardinality(DOMAIN B) \in N
  <2> HIDE DEF N
  <2> QED  BY <1>1, <1>4, <1>5, Induct, FS_CardinalityType
<1>7. PICK g : Ok(g, Cardinality(DOMAIN B))
  BY <1>6
<1> DEFINE h == [S \in D |-> g[S]]
<1>8. ASSUME NEW S \in D PROVE h[S] = SumStep(B, h, S)
  <2>1. g[S] = SumStep(B, g, S)  BY <1>1, <1>7
  <2>2. S # {} => S \ {Picked(S)} \in D  BY <1>2
  <2> QED  BY <2>1, <2>2 DEF SumStep
<1>9. IsSum(B, h)
  BY <1>8 DEF IsSum
<1> QED  BY <1>9 DEF Sums

\* What it comes to.
LEMMA SumValue ==
    ASSUME NEW B, IsFiniteSet(DOMAIN B), NEW S \in SUBSET DOMAIN B
    PROVE  Sums(B)[S] = SumStep(B, Sums(B), S)
<1> DEFINE g == Sums(B)
<1>1. g = [X \in SUBSET DOMAIN B |-> SumStep(B, g, X)]
  BY SumExists DEF IsSum
<1> HIDE DEF g
<1>2. g[S] = SumStep(B, g, S)
  BY <1>1
<1> QED  BY <1>2 DEF g

\* Any member may be taken away first.
LEMMA SumRemove ==
    ASSUME NEW B, IsFiniteSet(DOMAIN B), B \in [DOMAIN B -> Nat]
    PROVE  \A S \in SUBSET DOMAIN B :
               /\ Sums(B)[S] \in Nat
               /\ \A x \in S : Sums(B)[S] = B[x] + Sums(B)[S \ {x}]
<1> DEFINE D == SUBSET DOMAIN B
           Good(S) == /\ Sums(B)[S] \in Nat
                      /\ \A x \in S : Sums(B)[S] = B[x] + Sums(B)[S \ {x}]
           F == {S \in D : ~Good(S)}
<1>1. SUFFICES ASSUME F # {} PROVE FALSE
  OBVIOUS
<1>2. PICK S \in F : \A Y \in F : Y \subseteq S => Y = S
  <2>1. F \in SUBSET SUBSET DOMAIN B  OBVIOUS
  <2> HIDE DEF F
  <2> QED  BY <1>1, <2>1, Smallest
<1>3. S \in D /\ ~Good(S)
  OBVIOUS
<1>4. \A Y \in D : Y \subseteq S /\ Y # S => Good(Y)
  BY <1>2
<1>5. S # {}
  <2>1. Sums(B)[S] = SumStep(B, Sums(B), S)
    BY <1>3, SumValue
  <2>2. S = {} => Good(S)
    BY <2>1 DEF SumStep
  <2> QED  BY <1>3, <2>2
<1> DEFINE p == Picked(S)
<1>6. p \in S
  BY <1>5 DEF Picked
<1>7. Sums(B)[S] = B[p] + Sums(B)[S \ {p}]
  BY <1>3, <1>5, SumValue DEF SumStep
<1> HIDE DEF p
<1>8. Good(S \ {p})
  <2>1. S \ {p} \in D /\ S \ {p} # S
    BY <1>3, <1>6
  <2> HIDE DEF Good
  <2> QED  BY <1>4, <2>1
<1>9. ASSUME NEW x \in S PROVE Sums(B)[S] = B[x] + Sums(B)[S \ {x}]
  <2>1. CASE x = p
    BY <1>7, <2>1
  <2>2. CASE x # p
    <3>1. Sums(B)[S \ {p}] = B[x] + Sums(B)[(S \ {p}) \ {x}]
      BY <1>8, <2>2
    <3>2. Good(S \ {x})
      <4>1. S \ {x} \in D /\ S \ {x} # S
        BY <1>3
      <4> HIDE DEF Good
      <4> QED  BY <1>4, <4>1
    <3>3. Sums(B)[S \ {x}] = B[p] + Sums(B)[(S \ {x}) \ {p}]
      BY <1>6, <2>2, <3>2
    <3>4. Good((S \ {x}) \ {p})
      <4>1. (S \ {x}) \ {p} \in D /\ (S \ {x}) \ {p} # S
        BY <1>3
      <4> HIDE DEF Good
      <4> QED  BY <1>4, <4>1
    <3>5. (S \ {x}) \ {p} = (S \ {p}) \ {x}
      OBVIOUS
    <3>6. B[x] \in Nat /\ B[p] \in Nat /\ Sums(B)[(S \ {x}) \ {p}] \in Nat
      BY <1>3, <1>6, <3>4
    <3> DEFINE rest == Sums(B)[(S \ {x}) \ {p}]
    <3>7. Sums(B)[S] = B[p] + (B[x] + rest) /\ Sums(B)[S \ {x}] = B[p] + rest
      BY <1>7, <3>1, <3>3, <3>5
    <3> HIDE DEF rest
    <3> QED  BY <3>6, <3>7 DEF rest
  <2> QED  BY <2>1, <2>2
<1>10. Sums(B)[S] \in Nat
  BY <1>3, <1>6, <1>7, <1>8
<1> QED  BY <1>3, <1>9, <1>10

\* It looks at nothing but the members.
LEMMA SumLocal ==
    ASSUME NEW B, NEW C, IsFiniteSet(DOMAIN B), IsFiniteSet(DOMAIN C)
    PROVE  \A S \in SUBSET (DOMAIN B \cap DOMAIN C) :
               (\A x \in S : B[x] = C[x]) => Sums(B)[S] = Sums(C)[S]
<1> DEFINE D == SUBSET (DOMAIN B \cap DOMAIN C)
           F == {S \in D : (\A x \in S : B[x] = C[x]) /\ Sums(B)[S] # Sums(C)[S]}
<1>1. SUFFICES ASSUME F # {} PROVE FALSE
  OBVIOUS
<1>2. PICK S \in F : \A Y \in F : Y \subseteq S => Y = S
  <2>1. F \in SUBSET SUBSET DOMAIN B  OBVIOUS
  <2> HIDE DEF F
  <2> QED  BY <1>1, <2>1, Smallest
<1>3. /\ S \in SUBSET DOMAIN B /\ S \in SUBSET DOMAIN C
      /\ Sums(B)[S] = SumStep(B, Sums(B), S) /\ Sums(C)[S] = SumStep(C, Sums(C), S)
  <2>1. S \in SUBSET DOMAIN B /\ S \in SUBSET DOMAIN C
    OBVIOUS
  <2> HIDE DEF F
  <2> QED  BY <2>1, SumValue
<1>4. S # {}
  BY <1>2, <1>3 DEF SumStep
<1> DEFINE p == Picked(S)
<1>5. p \in S
  BY <1>4 DEF Picked
<1>6. Sums(B)[S] = B[p] + Sums(B)[S \ {p}] /\ Sums(C)[S] = C[p] + Sums(C)[S \ {p}]
  BY <1>3, <1>4 DEF SumStep
<1> HIDE DEF p
<1>7. Sums(B)[S \ {p}] = Sums(C)[S \ {p}]
  <2>1. S \ {p} \in D /\ S \ {p} # S
    BY <1>5
  <2> QED  BY <1>2, <2>1
<1> QED  BY <1>2, <1>5, <1>6, <1>7

\* One more copy of a member, old or new, is one more in all.
LEMMA OneMore ==
    ASSUME NEW B, IsFiniteSet(DOMAIN B), B \in [DOMAIN B -> Nat], NEW k
    PROVE  /\ IsFiniteSet(DOMAIN (B (+) SetToBag({k})))
           /\ B (+) SetToBag({k}) \in [DOMAIN B \cup {k} -> Nat]
           /\ BagCardinality(B) \in Nat
           /\ BagCardinality(B (+) SetToBag({k})) = BagCardinality(B) + 1
<1> DEFINE C == B (+) SetToBag({k})
           D == DOMAIN B
           S == D \ {k}
<1>1. C = [e \in D \cup {k} |-> (IF e \in D THEN B[e] ELSE 0) + (IF e = k THEN 1 ELSE 0)]
  BY DEF (+), SetToBag
<1> HIDE DEF C
<1>2. DOMAIN C = D \cup {k} /\ C \in [D \cup {k} -> Nat]
  BY <1>1
<1>3. IsFiniteSet(DOMAIN C)
  BY <1>2, FS_AddElement
<1>4. Sums(C)[D \cup {k}] = C[k] + Sums(C)[S]
  <2>1. k \in D \cup {k} /\ (D \cup {k}) \ {k} = S
    OBVIOUS
  <2>2. Sums(C)[D \cup {k}] = C[k] + Sums(C)[(D \cup {k}) \ {k}]
    <3>1. C \in [DOMAIN C -> Nat] /\ D \cup {k} \in SUBSET DOMAIN C
      BY <1>2
    <3>2. \A S0 \in SUBSET DOMAIN C : \A x \in S0 : Sums(C)[S0] = C[x] + Sums(C)[S0 \ {x}]
      BY <1>3, <3>1, SumRemove
    <3> QED  BY <2>1, <3>1, <3>2
  <2> QED  BY <2>1, <2>2
<1>5. Sums(C)[S] = Sums(B)[S]
  <2>1. S \in SUBSET (DOMAIN B \cap DOMAIN C) /\ \A x \in S : B[x] = C[x]
    BY <1>1, <1>2
  <2> QED  BY <1>3, <2>1, SumLocal
<1>6. Sums(B)[D] \in Nat /\ Sums(B)[S] \in Nat
  <2>1. D \in SUBSET DOMAIN B /\ S \in SUBSET DOMAIN B  OBVIOUS
  <2> QED  BY <2>1, SumRemove
<1>7. Sums(C)[D \cup {k}] = Sums(B)[D] + 1
  <2>1. CASE k \in D
    <3>1. Sums(B)[D] = B[k] + Sums(B)[S]
      BY <2>1, SumRemove
    <3>2. C[k] = B[k] + 1 /\ B[k] \in Nat
      BY <1>1, <2>1
    <3> QED  BY <1>4, <1>5, <1>6, <3>1, <3>2
  <2>2. CASE k \notin D
    <3>1. S = D /\ C[k] = 1
      BY <1>1, <2>2
    <3> QED  BY <1>4, <1>5, <1>6, <3>1
  <2> QED  BY <2>1, <2>2
<1>8. BagCardinality(B) = Sums(B)[D] /\ BagCardinality(C) = Sums(C)[D \cup {k}]
  BY <1>2, CardinalityIsSum
<1> QED  BY <1>2, <1>3, <1>6, <1>7, <1>8 DEF C

(***************************************************************************)
(* The verdicts of a policy.                                               *)
(***************************************************************************)

\* A nonempty set of numbers up to n has a smallest member, ...
LEMMA MinOfPlaces ==
    ASSUME NEW n \in Nat, NEW S \in SUBSET (1 .. n), S # {}
    PROVE  Min(S) \in S /\ \A m \in S : Min(S) <= m
<1>1. \E x \in S : \A m \in S : x <= m
  BY Least
<1> QED  BY <1>1 DEF Min

\* ... and a greatest.
LEMMA MaxOfPlaces ==
    ASSUME NEW n \in Nat, NEW S \in SUBSET (1 .. n), S # {}
    PROVE  Max(S) \in S
<1> DEFINE T == {n - m : m \in S}
<1>1. T \in SUBSET Nat /\ T # {}
  <2>1. \A m \in S : n - m \in Nat
    OBVIOUS
  <2>2. PICK m \in S : TRUE
    OBVIOUS
  <2>3. n - m \in T
    OBVIOUS
  <2> QED  BY <2>1, <2>3
<1>2. PICK t \in T : \A u \in T : t <= u
  <2> HIDE DEF T
  <2> QED  BY <1>1, Least
<1>3. PICK x \in S : t = n - x
  BY <1>2
<1>4. \A m \in S : x >= m
  BY <1>2, <1>3
<1> QED  BY <1>4 DEF Max

\* What is looked up is a rule for the value, and none only if there is none.
LEMMA LookedUp ==
    ASSUME NEW catalog, IsCatalog(catalog), NEW match, NEW value
    PROVE  LET fits == {e \in ToSet(catalog) : e.match = match /\ e.value = value}
           IN  IF fits = {} THEN Lookup(catalog, match, value) = None
               ELSE Lookup(catalog, match, value) \in fits
<1> DEFINE places == {i \in DOMAIN catalog : catalog[i].match = match /\ catalog[i].value = value}
           fits == {e \in ToSet(catalog) : e.match = match /\ e.value = value}
<1>1. DOMAIN catalog = 1 .. Len(catalog) /\ Len(catalog) \in Nat
  BY DEF IsCatalog
<1>2. fits = {catalog[i] : i \in places}
  BY DEF ToSet
<1>3. CASE places = {}
  <2>1. fits = {}
    BY <1>2, <1>3
  <2> QED  BY <1>3, <2>1 DEF Lookup
<1>4. CASE places # {}
  <2>1. Max(places) \in places
    <3>1. places \in SUBSET (1 .. Len(catalog))
      BY <1>1
    <3> HIDE DEF places
    <3> QED  BY <1>1, <1>4, <3>1, MaxOfPlaces
  <2>2. Lookup(catalog, match, value) = catalog[Max(places)]
    BY <1>4 DEF Lookup
  <2> QED  BY <1>2, <2>1, <2>2
<1> QED  BY <1>3, <1>4

\* Of the prefixes an EPC begins with the one found has no longer one.
LEMMA PrefixFound ==
    ASSUME NEW catalog, IsCatalog(catalog), NEW epc
    PROVE  LET fits == {e \in ToSet(catalog) : e.match = "epc_prefix" /\ IsPrefix(e.value, epc)}
               found == LongestPrefix(catalog, epc)
           IN  IF fits = {} THEN found = None
               ELSE found \in fits /\ \A f \in fits : Len(f.value) <= Len(found.value)
<1> DEFINE places == {i \in DOMAIN catalog : /\ catalog[i].match = "epc_prefix"
                                            /\ IsPrefix(catalog[i].value, epc)}
           len(i) == Len(catalog[i].value)
           longest == {i \in places : \A j \in places : len(j) <= len(i)}
           fits == {e \in ToSet(catalog) : e.match = "epc_prefix" /\ IsPrefix(e.value, epc)}
<1>1. DOMAIN catalog = 1 .. Len(catalog) /\ Len(catalog) \in Nat
  BY DEF IsCatalog
<1>2. fits = {catalog[i] : i \in places}
  BY DEF ToSet
<1>3. \A i \in places : len(i) \in Nat
  BY DEF IsCatalog, ToSet
<1>4. CASE places = {}
  <2>1. fits = {}
    BY <1>2, <1>4
  <2> QED  BY <1>4, <2>1 DEF LongestPrefix
<1>5. CASE places # {}
  <2> DEFINE Longer(j) == {k \in places : len(k) > len(j)}
             F == {Longer(j) : j \in places}
  <2>1. F \in SUBSET SUBSET (1 .. Len(catalog)) /\ F # {}
    <3>1. \A j \in places : Longer(j) \in SUBSET (1 .. Len(catalog)) /\ Longer(j) \in F
      BY <1>1
    <3> HIDE DEF Longer
    <3>2. F \in SUBSET SUBSET (1 .. Len(catalog))
      BY <3>1
    <3> QED  BY <1>5, <3>1, <3>2
  <2>2. PICK X \in F : \A Y \in F : Y \subseteq X => Y = X
    <3>1. IsFiniteSet(1 .. Len(catalog))
      BY <1>1, FS_Interval
    <3> DEFINE D == 1 .. Len(catalog)
    <3>2. IsFiniteSet(D) /\ F \in SUBSET SUBSET D /\ F # {}
      BY <2>1, <3>1
    <3> HIDE DEF F, D
    <3> QED  BY <3>2, Smallest
  <2>3. PICK j \in places : X = Longer(j)
    BY <2>2
  <2>4. ASSUME NEW k \in places, len(k) > len(j) PROVE FALSE
    <3>1. Longer(k) \in F /\ Longer(k) \subseteq X
      BY <1>3, <2>3, <2>4
    <3>2. k \in X /\ k \notin Longer(k)
      BY <1>3, <2>3, <2>4
    <3> QED  BY <2>2, <3>1, <3>2
  <2>5. j \in longest
    BY <1>3, <2>4
  <2>6. Min(longest) \in longest
    <3>1. longest \in SUBSET (1 .. Len(catalog)) /\ longest # {}
      BY <1>1, <2>5
    <3> HIDE DEF longest
    <3> QED  BY <1>1, <3>1, MinOfPlaces
  <2>7. LongestPrefix(catalog, epc) = catalog[Min(longest)]
    BY <1>5 DEF LongestPrefix
  <2> QED  BY <1>2, <2>6, <2>7
<1> QED  BY <1>4, <1>5

\* classify() finds a category that a most specific rule gives the tag.
LEMMA Classified ==
    ASSUME NEW catalog, IsCatalog(catalog), NEW tag
    PROVE  Classify(catalog, tag) \in CategoriesOf(catalog, tag)
<1> DEFINE c == Candidates(catalog, tag)
           found == {i \in DOMAIN c : c[i] # None}
           by(match, value) == {e \in ToSet(catalog) : e.match = match /\ e.value = value}
           prefixes == {e \in ToSet(catalog) : e.match = "epc_prefix" /\ IsPrefix(e.value, tag.epc)}
           fits == {e \in ToSet(catalog) : Matches(e, tag)}
           best == {e \in fits : \A f \in fits : ~MoreSpecific(f, e)}
<1>1. /\ DOMAIN c = 1 .. 4
      /\ c[1] = Lookup(catalog, "epc", tag.epc)
      /\ c[2] = Lookup(catalog, "gtin", tag.gtin)
      /\ c[3] = Lookup(catalog, "company_prefix", tag.company)
      /\ c[4] = LongestPrefix(catalog, tag.epc)
  BY DEF Candidates
<1>2. /\ IF by("epc", tag.epc) = {} THEN c[1] = None ELSE c[1] \in by("epc", tag.epc)
      /\ IF by("gtin", tag.gtin) = {} THEN c[2] = None ELSE c[2] \in by("gtin", tag.gtin)
      /\ IF by("company_prefix", tag.company) = {} THEN c[3] = None
         ELSE c[3] \in by("company_prefix", tag.company)
  BY <1>1, LookedUp
<1>3. IF prefixes = {} THEN c[4] = None
      ELSE c[4] \in prefixes /\ \A f \in prefixes : Len(f.value) <= Len(c[4].value)
  BY <1>1, PrefixFound
<1>4. fits = by("epc", tag.epc) \cup by("gtin", tag.gtin) \cup by("company_prefix", tag.company)
              \cup prefixes
  BY DEF Matches
<1>5. None \notin ToSet(catalog)
  BY DEF IsCatalog
<1> HIDE DEF c
<1>6. CASE found = {}
  <2>1. \A i \in 1 .. 4 : c[i] = None
    BY <1>1, <1>6
  <2>2. fits = {}
    BY <1>2, <1>3, <1>4, <1>5, <2>1
  <2> QED  BY <1>6, <2>2 DEF Classify, CategoriesOf, c
<1>7. CASE found # {}
  <2> DEFINE i == Min(found)
  <2>1. i \in found /\ \A j \in found : i <= j
    <3>1. found \in SUBSET (1 .. 4)
      BY <1>1
    <3> HIDE DEF found
    <3> QED  BY <1>7, <3>1, MinOfPlaces
  <2>2. Classify(catalog, tag) = c[i].category
    BY <1>7 DEF Classify, c
  <2> HIDE DEF i
  <2>3. i \in 1 .. 4 /\ c[i] # None /\ \A j \in 1 .. 4 : j < i => c[j] = None
    BY <1>1, <2>1
  <2>4. \A e \in by("epc", tag.epc) : Kinds[e.match] = 4
    BY DEF Kinds
  <2>5. \A e \in by("gtin", tag.gtin) : Kinds[e.match] = 3
    BY DEF Kinds
  <2>6. \A e \in by("company_prefix", tag.company) : Kinds[e.match] = 2
    BY DEF Kinds
  <2>7. \A e \in prefixes : Kinds[e.match] = 1 /\ Len(e.value) \in Nat
    BY DEF Kinds, IsCatalog
  <2>8. c[i] \in best
    <3>1. CASE i = 1
      BY <1>2, <1>4, <2>3, <2>4, <2>5, <2>6, <2>7, <3>1 DEF MoreSpecific
    <3>2. CASE i = 2
      BY <1>2, <1>4, <1>5, <2>3, <2>4, <2>5, <2>6, <2>7, <3>2 DEF MoreSpecific
    <3>3. CASE i = 3
      BY <1>2, <1>4, <1>5, <2>3, <2>4, <2>5, <2>6, <2>7, <3>3 DEF MoreSpecific
    <3>4. CASE i = 4
      BY <1>2, <1>3, <1>4, <1>5, <2>3, <2>4, <2>5, <2>6, <2>7, <3>4 DEF MoreSpecific
    <3> QED  BY <2>3, <3>1, <3>2, <3>3, <3>4
  <2> QED  BY <2>2, <2>8 DEF CategoriesOf
<1> QED  BY <1>6, <1>7

\* A tag is passed exactly if the policy permits its category.
LEMMA Passed ==
    ASSUME NEW p, NEW counts, NEW tag
    PROVE  Evaluate(p, counts, tag).keep <=> Permits(p, tag, Classify(p.catalog, tag))
  BY DEF Evaluate, RejectReason, Permits, NO_REASON

(***************************************************************************)
(* The counters of a policy.                                               *)
(***************************************************************************)

Keys == {"antenna", "category", "reason", "total"}

CountersTypes ==
    /\ counters = [kept |-> counters.kept, drops |-> counters.drops]
    /\ counters.kept \in Nat /\ asked \in Nat
    /\ IsFiniteSet(DOMAIN counters.drops)
    /\ counters.drops \in [DOMAIN counters.drops -> Nat]

\* CountersComplete, without a policy as well.
CountersInv ==
    /\ CountersTypes
    /\ policy \in situation.policies \cup {None}
    /\ LET total == BagCardinality(By(counters, "total")) IN
       /\ counters.kept + total = asked
       /\ \A what \in Keys : BagCardinality(By(counters, what)) = total

\* Nothing was dropped yet.
LEMMA NothingCounted == \A what : BagCardinality(By(NoCounters, what)) = 0
<1> TAKE what
<1> DEFINE B == By(NoCounters, what)
<1>1. DOMAIN B = {}
  BY DEF By, NoCounters, BagToSet, EmptyBag, SetToBag
<1>2. Sums(B)[{}] = SumStep(B, Sums(B), {})
  <2>1. IsFiniteSet(DOMAIN B) /\ {} \in SUBSET DOMAIN B
    BY <1>1, FS_EmptySet
  <2> HIDE DEF B
  <2> QED  BY <2>1, SumValue
<1>3. BagCardinality(B) = Sums(B)[DOMAIN B]
  BY CardinalityIsSum
<1> HIDE DEF B
<1> QED  BY <1>1, <1>2, <1>3 DEF SumStep, B

\* A tag that is dropped is one more in each of the tallies.
LEMMA Tallied ==
    ASSUME CountersTypes, NEW tag, NEW category, NEW reason, reason # NO_REASON,
           NEW after, after = Tally(counters, tag, category, reason)
    PROVE  /\ after = [kept |-> counters.kept, drops |-> after.drops]
           /\ IsFiniteSet(DOMAIN after.drops)
           /\ after.drops \in [DOMAIN after.drops -> Nat]
           /\ \A what \in Keys :
                 /\ BagCardinality(By(counters, what)) \in Nat
                 /\ BagCardinality(By(after, what)) = BagCardinality(By(counters, what)) + 1
<1> DEFINE old == counters.drops
           keys == {<<"antenna", tag.antenna>>, <<"category", category>>,
                    <<"reason", reason>>, <<"total">>}
           new == old (+) SetToBag(keys)
<1>1. after = [counters EXCEPT !.drops = new]
  BY DEF Tally
<1>2. after = [kept |-> counters.kept, drops |-> new]
  <2> HIDE DEF new
  <2> QED  BY <1>1 DEF CountersTypes
<1>2a. after.drops = new /\ after.kept = counters.kept
  <2>1. \A r, a, b : r = [kept |-> a, drops |-> b] => r.kept = a /\ r.drops = b
    OBVIOUS
  <2> HIDE DEF new
  <2> QED  BY <1>2, <2>1
<1>3. new = [e \in DOMAIN old \cup keys |-> (IF e \in DOMAIN old THEN old[e] ELSE 0)
                                         + (IF e \in keys THEN 1 ELSE 0)]
  BY DEF (+), SetToBag
<1>4. old \in [DOMAIN old -> Nat] /\ IsFiniteSet(DOMAIN old)
  BY DEF CountersTypes
<1>5. IsFiniteSet(keys)
  <2>1. keys = {} \cup {<<"antenna", tag.antenna>>} \cup {<<"category", category>>}
               \cup {<<"reason", reason>>} \cup {<<"total">>}
    OBVIOUS
  <2> HIDE DEF keys
  <2> QED  BY <2>1, FS_EmptySet, FS_AddElement
<1> HIDE DEF new, old
<1>6. DOMAIN new = DOMAIN old \cup keys /\ new \in [DOMAIN new -> Nat]
  <2> HIDE DEF keys
  <2>1. \A e \in DOMAIN old \cup keys :
            (IF e \in DOMAIN old THEN old[e] ELSE 0) + (IF e \in keys THEN 1 ELSE 0) \in Nat
    <3> SUFFICES ASSUME NEW e
                 PROVE  (IF e \in DOMAIN old THEN old[e] ELSE 0)
                        + (IF e \in keys THEN 1 ELSE 0) \in Nat
      OBVIOUS
    <3>1. CASE e \in DOMAIN old
      <4>1. old[e] \in Nat
        BY <1>4, <3>1
      <4>2. CASE e \in keys
        BY <3>1, <4>1, <4>2
      <4>3. CASE e \notin keys
        BY <3>1, <4>1, <4>3
      <4> QED  BY <4>2, <4>3
    <3>2. CASE e \notin DOMAIN old
      <4>1. CASE e \in keys
        BY <3>2, <4>1
      <4>2. CASE e \notin keys
        BY <3>2, <4>2
      <4> QED  BY <4>1, <4>2
    <3> QED  BY <3>1, <3>2
  <2> QED  BY <1>3, <2>1
<1>7. IsFiniteSet(DOMAIN new)
  <2> HIDE DEF keys
  <2> QED  BY <1>4, <1>5, <1>6, FS_Union
<1>8. ASSUME NEW what \in Keys
      PROVE  /\ BagCardinality(By(counters, what)) \in Nat
             /\ BagCardinality(By(after, what)) = BagCardinality(By(counters, what)) + 1
  <2> DEFINE B == By(counters, what)
  <2>1. PICK key \in keys : \A k \in keys : k[1] = what <=> k = key
    <3> DEFINE k1 == <<"antenna", tag.antenna>>
               k2 == <<"category", category>>
               k3 == <<"reason", reason>>
               k4 == <<"total">>
    <3>1. k1[1] = "antenna" /\ k2[1] = "category" /\ k3[1] = "reason" /\ k4[1] = "total"
      OBVIOUS
    <3>2. keys = {k1, k2, k3, k4}
      OBVIOUS
    <3> HIDE DEF k1, k2, k3, k4, keys
    <3>3. what = "antenna" \/ what = "category" \/ what = "reason" \/ what = "total"
      BY DEF Keys
    <3> QED  BY <3>1, <3>2, <3>3
  <2>2. B = [k \in {k \in DOMAIN old : k[1] = what} |-> old[k]]
    BY DEF By, BagToSet, old
  <2>3. By(after, what) = [k \in {k \in DOMAIN new : k[1] = what} |-> new[k]]
    BY <1>2a DEF By, BagToSet
  <2> HIDE DEF keys, B
  <2>4. {k \in DOMAIN new : k[1] = what} = DOMAIN B \cup {key}
    BY <1>6, <2>1, <2>2
  <2>5. B (+) SetToBag({key})
        = [e \in DOMAIN B \cup {key} |-> (IF e \in DOMAIN B THEN B[e] ELSE 0)
                                        + (IF e = key THEN 1 ELSE 0)]
    BY DEF (+), SetToBag
  <2>6. By(after, what) = B (+) SetToBag({key})
    <3>1. ASSUME NEW k \in DOMAIN B \cup {key}
          PROVE  new[k] = (IF k \in DOMAIN B THEN B[k] ELSE 0) + (IF k = key THEN 1 ELSE 0)
      BY <1>3, <1>6, <2>1, <2>2, <2>4
    <3> QED  BY <2>3, <2>4, <2>5, <3>1
  <2>7. IsFiniteSet(DOMAIN B) /\ B \in [DOMAIN B -> Nat]
    <3>1. DOMAIN B \in SUBSET DOMAIN old /\ B \in [DOMAIN B -> Nat]
      BY <1>4, <2>2
    <3> QED  BY <1>4, <3>1, FS_Subset
  <2> QED  BY <2>6, <2>7, OneMore DEF B
<1> QED  BY <1>2, <1>2a, <1>6, <1>7, <1>8

\* Whatever happens, a read that was evaluated is counted, and no other.
LEMMA CountersNext == CountersInv /\ WatchInv /\ Next => CountersInv'
<1> SUFFICES ASSUME CountersInv, WatchInv, Next PROVE CountersInv'
  OBVIOUS
<1> DEFINE total == BagCardinality(By(counters, "total"))
<1>1. UNCHANGED situation
  BY DEF Next
<1>2. CASE UNCHANGED rules
  BY <1>1, <1>2 DEF CountersInv, CountersTypes, rules, By
<1>3. ASSUME NEW p \in situation.policies, SetPolicy(p) PROVE CountersInv'
  <2>1. policy' = p /\ counters' = NoCounters /\ asked' = 0
    BY <1>3 DEF SetPolicy
  <2>2. IsFiniteSet(DOMAIN EmptyBag) /\ EmptyBag \in [DOMAIN EmptyBag -> Nat]
    BY FS_EmptySet DEF EmptyBag, SetToBag
  <2>3. CountersTypes'
    BY <2>1, <2>2 DEF CountersTypes, NoCounters
  <2>4. counters'.kept = 0
    BY <2>1 DEF NoCounters
  <2>5. \A what \in Keys : BagCardinality(By(counters, what))' = 0
    BY <2>1, NothingCounted
  <2> QED  BY <1>1, <2>1, <2>3, <2>4, <2>5 DEF CountersInv, Keys
<1>4. ASSUME NEW tag \in situation.tags, Read(tag), policy # None PROVE CountersInv'
  <2> DEFINE category == Classify(policy.catalog, tag)
             reason == IF policy.enabled THEN RejectReason(policy, tag, category) ELSE NO_REASON
  <2>1. /\ asked' = asked + 1 /\ UNCHANGED policy
        /\ counters' = Tally(counters, tag, category, reason)
    BY <1>4 DEF Read, Evaluate
  <2> HIDE DEF category, reason
  <2>2. CountersTypes /\ counters.kept + total = asked
        /\ \A what \in Keys : BagCardinality(By(counters, what)) = total
    BY DEF CountersInv
  <2>3. CASE reason = NO_REASON
    <3>1. counters' = [kept |-> counters.kept + 1, drops |-> counters.drops]
      BY <2>1, <2>2, <2>3 DEF Tally, CountersTypes
    <3>2. CountersTypes'
      BY <2>1, <2>2, <3>1 DEF CountersTypes
    <3>3. \A what : By(counters, what)' = By(counters, what)
      BY <3>1 DEF By
    <3>4. total \in Nat
      <4>1. IsFiniteSet(DOMAIN By(counters, "total"))
            /\ By(counters, "total") \in [DOMAIN By(counters, "total") -> Nat]
        <5>1. DOMAIN By(counters, "total") \in SUBSET DOMAIN counters.drops
          BY DEF By, BagToSet
        <5>2. IsFiniteSet(DOMAIN By(counters, "total"))
          BY <2>2, <5>1, FS_Subset DEF CountersTypes
        <5> QED  BY <2>2, <5>2 DEF CountersTypes, By, BagToSet
      <4> QED  BY <4>1, OneMore
    <3>5. counters'.kept + total = asked'
      BY <2>1, <2>2, <3>1, <3>4 DEF CountersTypes
    <3> QED  BY <1>1, <2>1, <2>2, <3>2, <3>3, <3>5 DEF CountersInv, Keys
  <2>4. CASE reason # NO_REASON
    <3> DEFINE after == Tally(counters, tag, category, reason)
    <3>1. /\ after = [kept |-> counters.kept, drops |-> after.drops]
          /\ IsFiniteSet(DOMAIN after.drops)
          /\ after.drops \in [DOMAIN after.drops -> Nat]
          /\ \A what \in Keys :
                /\ BagCardinality(By(counters, what)) \in Nat
                /\ BagCardinality(By(after, what)) = BagCardinality(By(counters, what)) + 1
      <4>1. after = Tally(counters, tag, category, reason)
        OBVIOUS
      <4>2. CountersTypes
        BY <2>2
      <4> HIDE DEF after, total
      <4> QED  BY <2>4, <4>1, <4>2, Tallied
    <3> HIDE DEF after
    <3>2. counters' = after
      BY <2>1 DEF after
    <3>3. after.kept = counters.kept
      BY <3>1
    <3>4. CountersTypes'
      BY <2>1, <2>2, <3>1, <3>2, <3>3 DEF CountersTypes
    <3>5. \A what \in Keys : BagCardinality(By(counters, what))' = total + 1
      BY <2>2, <3>1, <3>2
    <3>6. "total" \in Keys /\ total \in Nat
      BY <3>1 DEF Keys
    <3>7. counters'.kept + (total + 1) = asked'
      BY <2>1, <2>2, <3>2, <3>3, <3>6 DEF CountersTypes
    <3> HIDE DEF total
    <3> QED  BY <1>1, <2>1, <3>4, <3>5, <3>6, <3>7 DEF CountersInv
  <2> QED  BY <2>3, <2>4
<1>5. UNCHANGED rules \/ (\E p \in situation.policies : SetPolicy(p))
      \/ (\E tag \in situation.tags : Read(tag) /\ policy # None)
  <2>1. CASE Inventory
    BY <2>1 DEF Inventory, FlushDue, StreamStopped, StreamRestarts, StreamFails, StreamFailed, Read
  <2>2. CASE HandleEvent \/ HealthTick
    BY <2>2 DEF HandleEvent, HealthTick
  <2>3. CASE Control
    BY <2>3 DEF Control, Start, Stop, RemoveReader, Removed
  <2>4. CASE Peers
    BY <2>4 DEF Peers, AcceptSocket, Subscribe, Show, Unsubscribe, ReaderException, Lose,
                AntennaChanges
  <2> QED  BY <2>1, <2>2, <2>3, <2>4 DEF Next
<1> QED  BY <1>2, <1>3, <1>4, <1>5

(***************************************************************************)
(* The theorems.                                                           *)
(***************************************************************************)

\* What the watch and the batch are in every state.
THEOREM MonitorInvariance == Spec => [](WatchInv /\ RowsInv)
<1>1. MonitorInit => WatchInv /\ RowsInv
  BY WatchInit DEF MonitorInit, RowsInv, RowsShown
<1>2. WatchInv /\ RowsInv /\ [Next]_mvars => (WatchInv /\ RowsInv)'
  <2> SUFFICES ASSUME WatchInv, RowsInv, [Next]_mvars PROVE WatchInv' /\ RowsInv'
    OBVIOUS
  <2>1. CASE Next
    BY <2>1, WatchNext, RowsNext
  <2>2. CASE UNCHANGED mvars
    <3>1. UNCHANGED watched /\ UNCHANGED policy /\ UNCHANGED <<batch, unshown, stream>>
      BY <2>2 DEF mvars, line, rules, task, health, truth, watched
    <3> QED  BY <3>1, Unwatched DEF RowsInv, RowsShown
  <2> QED  BY <2>1, <2>2
<1> QED  BY <1>1, <1>2, PTL DEF Spec

\* However a stream ends, its last rows are published, once (_run_inventory).
THEOREM RowsReachThePage == Spec => []RowsShown
<1>1. RowsInv => RowsShown
  BY DEF RowsInv
<1> QED  BY <1>1, MonitorInvariance, PTL

\* A page shows the reader exactly while the registry has it, whenever it was
\* opened and whatever is published to it, unless an event was lost to it
\* (Broadcast, websocket() and remove()).
THEOREM PageStaysTrue == Spec => []PageTrue
<1>1. PageInv /\ WatchInv /\ [Next]_mvars => PageInv'
  <2> SUFFICES ASSUME PageInv, WatchInv, [Next]_mvars PROVE PageInv'
    OBVIOUS
  <2>1. CASE Next
    BY <2>1, PageInventory, PageWatch, PageControl, PagePeers DEF Next
  <2>2. CASE UNCHANGED mvars
    <3>1. UNCHANGED <<life, sub, stream>>
      BY <2>2 DEF mvars, task
    <3> QED  BY <3>1, NothingPublished DEF PageInv
  <2> QED  BY <2>1, <2>2
<1>2. PageInv => PageTrue
  BY DEF PageInv, Expects, PageTrue
<1> QED  BY <1>1, <1>2, PageInit, MonitorInvariance, PTL DEF Spec

\* A quiet alert comes with the first turn at which its rule holds of a port,
\* once per incident, and for no other port (HealthMonitor), if no policy
\* keeps reads from the monitor.
THEOREM QuietAlertsExact == Spec => QuietExactly
<1>1. WatchInv => (HealthTick /\ situation.policies = {} /\ events = <<>> =>
          quieted' = {a \in plugged \ incidents : Silent(silence', a) /\ Recent(silence')})
  <2> SUFFICES ASSUME WatchInv, HealthTick, situation.policies = {}, events = <<>>
               PROVE  quieted' = {a \in plugged \ incidents :
                                      Silent(silence', a) /\ Recent(silence')}
    OBVIOUS
  <2>1. quieted' = Falls(Older(lastSeen)) /\ silence' = Older(silence)
    BY DEF HealthTick
  <2>2. lastSeen = silence /\ quiet = incidents
    BY DEF WatchInv, SameClock
  <2>3. up = plugged
    BY DEF WatchInv, WatchTypes, Told
  <2> QED  BY <2>1, <2>2, <2>3 DEF Falls
<1> QED  BY <1>1, MonitorInvariance, PTL DEF QuietExactly

\* Nothing is dropped silently: of the reads since a policy was set each is
\* counted, as kept or in each of the three tallies (ReaderPolicy.evaluate).
THEOREM EveryReadCounted == Spec => []CountersInv
<1>1. MonitorInit => CountersInv
  <2> SUFFICES ASSUME MonitorInit PROVE CountersInv
    OBVIOUS
  <2>1. policy = None /\ counters = NoCounters /\ asked = 0
    BY DEF MonitorInit
  <2>2. IsFiniteSet(DOMAIN EmptyBag) /\ EmptyBag \in [DOMAIN EmptyBag -> Nat]
    BY FS_EmptySet DEF EmptyBag, SetToBag
  <2>3. CountersTypes /\ counters.kept = 0
    BY <2>1, <2>2 DEF CountersTypes, NoCounters
  <2>4. \A what \in Keys : BagCardinality(By(counters, what)) = 0
    BY <2>1, NothingCounted
  <2> QED  BY <2>1, <2>3, <2>4 DEF CountersInv, Keys
<1>2. CountersInv /\ WatchInv /\ [Next]_mvars => CountersInv'
  <2> SUFFICES ASSUME CountersInv, WatchInv, [Next]_mvars PROVE CountersInv'
    OBVIOUS
  <2>1. CASE UNCHANGED mvars
    BY <2>1 DEF mvars, rules, CountersInv, CountersTypes, By
  <2> QED  BY <2>1, CountersNext
<1> QED  BY <1>1, <1>2, MonitorInvariance, PTL DEF Spec

\* No read disappears between the reader and the page: its row is published,
\* or what dropped it is counted.
THEOREM NoReadDisappears == Spec => []ReadsAccounted
<1>1. RowsInv /\ CountersInv => ReadsAccounted
  BY DEF RowsInv, CountersInv, ReadsAccounted, CountersComplete, Keys
<1> QED  BY <1>1, MonitorInvariance, EveryReadCounted, PTL

\* The policy that was set last decides about every read, by a category that a
\* most specific rule of its catalog gives the tag (ItemCatalog.classify and
\* ReaderPolicy.evaluate), for any catalog.
THEOREM PolicyDecides == Spec => Verdicts
<1>1. WatchInv /\ CountersInv =>
          \A tag \in situation.tags : policy # None /\ Read(tag) =>
             \E category \in CategoriesOf(policy.catalog, tag) :
                 counters'.kept = counters.kept + IF Permits(policy, tag, category) THEN 1 ELSE 0
  <2> SUFFICES ASSUME WatchInv, CountersInv, NEW tag \in situation.tags, policy # None, Read(tag)
               PROVE  \E category \in CategoriesOf(policy.catalog, tag) :
                          counters'.kept = counters.kept
                                           + IF Permits(policy, tag, category) THEN 1 ELSE 0
    OBVIOUS
  <2> DEFINE category == Classify(policy.catalog, tag)
             reason == IF policy.enabled THEN RejectReason(policy, tag, category) ELSE NO_REASON
  <2>1. category \in CategoriesOf(policy.catalog, tag)
    <3>1. policy \in situation.policies \ {None} /\ situation \in Situations
      BY DEF CountersInv, WatchInv, WatchTypes
    <3> QED  BY <3>1, MonitorAssumption, Classified
  <2>2. counters' = Tally(counters, tag, category, reason)
    BY DEF Read, Evaluate
  <2>3. reason = NO_REASON <=> Permits(policy, tag, category)
    BY Passed DEF Evaluate
  <2> HIDE DEF category, reason
  <2>4. /\ counters = [kept |-> counters.kept, drops |-> counters.drops]
        /\ counters.kept \in Nat
    BY DEF CountersInv, CountersTypes
  <2>5. CASE reason = NO_REASON
    <3>1. counters' = [counters EXCEPT !.kept = counters.kept + 1]
      BY <2>2, <2>5 DEF Tally
    <3>2. counters'.kept = counters.kept + 1
      BY <2>4, <3>1
    <3> QED  BY <2>1, <2>3, <2>5, <3>2
  <2>6. CASE reason # NO_REASON
    <3> DEFINE drops == (counters.drops (+) SetToBag(
                            {<<"antenna", tag.antenna>>, <<"category", category>>,
                             <<"reason", reason>>, <<"total">>}))
    <3>1. counters' = [counters EXCEPT !.drops = drops]
      BY <2>2, <2>6 DEF Tally
    <3> HIDE DEF drops
    <3>2. counters'.kept = counters.kept + 0
      BY <2>4, <3>1
    <3> QED  BY <2>1, <2>3, <2>6, <3>2
  <2> QED  BY <2>5, <2>6
<1> QED  BY <1>1, MonitorInvariance, EveryReadCounted, PTL DEF Verdicts
=============================================================================
