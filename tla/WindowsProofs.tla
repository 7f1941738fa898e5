---------------------------- MODULE WindowsProofs ----------------------------
(***************************************************************************)
(* Reader.windows() proved, for any number of trips, reads, calls and      *)
(* connections and any size of the queue of edges, to hand out one window  *)
(* per trip: Windows implements WindowPerTrip.                             *)
(***************************************************************************)
EXTENDS Windows, SequenceTheorems, TLAPS

(***************************************************************************)
(* The inductive invariant.                                                *)
(***************************************************************************)

AnyTag == Nat \X Nat
Edge == [kind : {"up", "down"}, trip : Nat]
Item == Edge \cup [kind : {"tag"}, tag : AnyTag] \cup [kind : {"end", "error"}]
AnyWindow == [trip : Nat, tags : Seq(AnyTag), why : Why]

Types ==
    /\ line \in BOOLEAN /\ enabled \in BOOLEAN /\ connected \in BOOLEAN
    /\ settling \in BOOLEAN /\ active \in BOOLEAN
    /\ phase \in {"off", "setup", "armed", "ended"}
    /\ trips \in 0..MaxTrips /\ base \in 0..trips /\ open \in 0..trips
    /\ seen \in [Trips -> Nat] /\ (active => trips # 0)
    /\ late \in Seq(AnyTag) /\ tags \in Seq(AnyTag)
    /\ gpiEdges \in Seq(Edge) /\ queue \in Seq(Item) /\ out \in Seq(AnyWindow)

\* The trip whose window was handed out last.
LastTrip == IF out = <<>> THEN 0 ELSE out[Len(out)].trip

\* Edges to the active level, and from it; the trips of the former.
Up(q) == {i \in 1..Len(q) : q[i].kind = "up"}
Down(q) == {i \in 1..Len(q) : q[i].kind = "down"}
TripsIn(q) == {q[i].trip : i \in Up(q)}

\* The line is released between two trips, before a trip, and after each.
Alternates(q) == \A i, j \in Up(q) : i < j => \E k \in Down(q) : i < k /\ k < j
Apart(q) == \A j \in Up(q) : \E k \in Down(q) : k < j
Settles(q) == \A i \in Up(q) : \E k \in Down(q) : i < k

\* Trips come in order, after trip n and up to trip m.
Ascends(q) == \A i, j \in Up(q) : i < j => q[i].trip < q[j].trip
After(q, n, m) == \A i \in Up(q) : n < q[i].trip /\ q[i].trip <= m

Ordered(q) == Alternates(q) /\ Ascends(q)

\* What a phase says of the rest.
CallInv ==
    /\ phase = "off" => queue = <<>> /\ open = None
    /\ phase # "off" => gpiEdges = <<>>
    /\ phase \in {"off", "setup"} => base = trips
    /\ phase = "armed" => enabled
    /\ ~enabled => gpiEdges = <<>> /\ open = None /\ Up(queue) = {}
    /\ active \/ late # <<>> => phase = "armed"
    /\ settling => open # None

\* Edges wait in the order of the line, behind the trip whose window is open;
\* and an open window is released before another trip begins.
EdgeInv ==
    /\ LastTrip <= trips /\ (open # None => LastTrip < open)
    /\ Ordered(queue) /\ After(queue, LastTrip, trips) /\ (~line => Settles(queue))
    /\ Ordered(gpiEdges) /\ After(gpiEdges, LastTrip, trips) /\ (~line => Settles(gpiEdges))
    /\ After(queue, open, trips)
    /\ open # None /\ ~settling => Apart(queue) /\ (~line => Down(queue) # {})

\* Each trip that a window is owed for has it, or will have it.
CoverInv ==
    enabled => \A t \in (base + 1)..trips : t <= LastTrip \/ t = open \/ t \in TripsIn(queue)

Inv == Types /\ CallInv /\ EdgeInv /\ CoverInv

-----------------------------------------------------------------------------
(* Queues of edges.                                                        *)

\* Where edges are in a queue that something is appended to,
LEMMA AppendEdges ==
    ASSUME NEW q \in Seq(Item), NEW x \in Item
    PROVE  LET r == Append(q, x)
           IN  /\ r \in Seq(Item) /\ Len(q) \in Nat
               /\ Up(q) \subseteq 1..Len(q) /\ Down(q) \subseteq 1..Len(q)
               /\ \A i \in 1..Len(q) : r[i] = q[i]
               /\ r[Len(q) + 1] = x
               /\ Up(r) = IF x.kind = "up" THEN Up(q) \cup {Len(q) + 1} ELSE Up(q)
               /\ Down(r) = IF x.kind = "down" THEN Down(q) \cup {Len(q) + 1} ELSE Down(q)
<1> DEFINE r == Append(q, x)
<1>1. /\ r \in Seq(Item) /\ Len(q) \in Nat /\ Len(r) = Len(q) + 1
      /\ \A i \in 1..Len(q) : r[i] = q[i]
      /\ r[Len(q) + 1] = x
    OBVIOUS
<1> HIDE DEF r
<1>2. 1..Len(r) = 1..Len(q) \cup {Len(q) + 1}
    BY <1>1
<1>3. /\ Up(r) = IF x.kind = "up" THEN Up(q) \cup {Len(q) + 1} ELSE Up(q)
      /\ Down(r) = IF x.kind = "down" THEN Down(q) \cup {Len(q) + 1} ELSE Down(q)
    BY <1>1, <1>2 DEF Up, Down
<1> QED
    BY <1>1, <1>3 DEF r, Up, Down

\* and in one whose head is taken away.
LEMMA TailEdges ==
    ASSUME NEW q \in Seq(Item), q # <<>>
    PROVE  LET r == Tail(q)
           IN  /\ r \in Seq(Item) /\ Head(q) = q[1] /\ Head(q) \in Item
               /\ \A i \in Up(r) : i \in Nat \ {0} /\ i + 1 \in Up(q) /\ r[i] = q[i + 1]
               /\ \A i \in Up(q) : i \in Nat \ {0} /\ (i # 1 => i - 1 \in Up(r) /\ r[i - 1] = q[i])
               /\ \A k \in Down(r) : k \in Nat \ {0} /\ k + 1 \in Down(q)
               /\ \A k \in Down(q) : k \in Nat \ {0} /\ (k # 1 => k - 1 \in Down(r))
               /\ (1 \in Up(q) <=> q[1].kind = "up") /\ (1 \in Down(q) <=> q[1].kind = "down")
<1> DEFINE r == Tail(q)
<1>1. /\ r \in Seq(Item) /\ Len(q) \in Nat \ {0} /\ Len(r) = Len(q) - 1
      /\ Head(q) = q[1] /\ Head(q) \in Item
      /\ \A i \in 1..Len(r) : r[i] = q[i + 1]
    OBVIOUS
<1> HIDE DEF r
<1>2. \A i \in 1..Len(r) : i \in Nat \ {0} /\ i + 1 \in 1..Len(q) /\ r[i] = q[i + 1]
    BY <1>1
<1>3. \A i \in 1..Len(q) : i \in Nat \ {0} /\ (i # 1 => i - 1 \in 1..Len(r) /\ r[i - 1] = q[i])
    <2>1. ASSUME NEW i \in 1..Len(q), i # 1 PROVE i - 1 \in 1..Len(r) /\ (i - 1) + 1 = i
        BY <1>1, <2>1
    <2> QED
        BY <1>1, <2>1
<1>4. 1 \in 1..Len(q)
    BY <1>1
<1>5. /\ \A i \in Up(r) : i \in Nat \ {0} /\ i + 1 \in Up(q) /\ r[i] = q[i + 1]
      /\ \A i \in Up(q) : i \in Nat \ {0} /\ (i # 1 => i - 1 \in Up(r) /\ r[i - 1] = q[i])
    BY <1>2, <1>3 DEF Up
<1>6. /\ \A k \in Down(r) : k \in Nat \ {0} /\ k + 1 \in Down(q)
      /\ \A k \in Down(q) : k \in Nat \ {0} /\ (k # 1 => k - 1 \in Down(r))
    BY <1>2, <1>3 DEF Down
<1> QED
    BY <1>1, <1>4, <1>5, <1>6 DEF r, Up, Down

\* What is no edge to the active level may always follow.
LEMMA AppendOther ==
    ASSUME NEW q \in Seq(Item), NEW x \in Item, x.kind # "up"
    PROVE  LET r == Append(q, x)
           IN  /\ r \in Seq(Item) /\ Up(r) = Up(q) /\ TripsIn(r) = TripsIn(q)
               /\ Ordered(q) => Ordered(r)
               /\ Apart(q) => Apart(r)
               /\ \A n, m : After(q, n, m) => After(r, n, m)
               /\ Settles(q) \/ x.kind = "down" => Settles(r)
               /\ Down(q) # {} \/ x.kind = "down" => Down(r) # {}
<1> DEFINE r == Append(q, x)
<1>1. /\ r \in Seq(Item) /\ Len(q) \in Nat
      /\ Up(q) \subseteq 1..Len(q) /\ Down(q) \subseteq 1..Len(q)
      /\ \A i \in 1..Len(q) : r[i] = q[i]
      /\ Up(r) = Up(q)
      /\ Down(r) = IF x.kind = "down" THEN Down(q) \cup {Len(q) + 1} ELSE Down(q)
    BY AppendEdges
<1> HIDE DEF r
<1>2. \A i \in Up(q) : i \in Up(r) /\ r[i] = q[i]
    BY <1>1
<1>3. TripsIn(r) = TripsIn(q)
    BY <1>1, <1>2 DEF TripsIn
<1>4. Ordered(q) => Ordered(r)
    BY <1>1, <1>2 DEF Ordered, Alternates, Ascends
<1>5. Apart(q) => Apart(r)
    BY <1>1 DEF Apart
<1>6. \A n, m : After(q, n, m) => After(r, n, m)
    BY <1>1, <1>2 DEF After
<1>7. Settles(q) \/ x.kind = "down" => Settles(r)
    <2>1. CASE Settles(q)
        BY <1>1, <2>1 DEF Settles
    <2>2. CASE x.kind = "down"
        <3>1. Len(q) + 1 \in Down(r) /\ \A i \in Up(r) : i < Len(q) + 1
            BY <1>1, <2>2
        <3> QED
            BY <3>1 DEF Settles
    <2> QED
        BY <2>1, <2>2
<1> QED
    BY <1>1, <1>3, <1>4, <1>5, <1>6, <1>7 DEF r

\* A trip may follow when the line was released.
LEMMA AppendUp ==
    ASSUME NEW q \in Seq(Item), NEW x \in Item, x.kind = "up", Ordered(q), Settles(q),
           NEW n \in Nat, NEW m \in Nat, After(q, n, m), n <= m, x.trip = m + 1
    PROVE  LET r == Append(q, x)
           IN  /\ r \in Seq(Item) /\ TripsIn(r) = TripsIn(q) \cup {x.trip}
               /\ Ordered(r) /\ After(r, n, m + 1)
               /\ Apart(q) /\ Down(q) # {} => Apart(r)
               /\ Down(q) # {} => Down(r) # {}
<1> DEFINE r == Append(q, x)
           last == Len(q) + 1
<1>1. /\ r \in Seq(Item) /\ Len(q) \in Nat
      /\ Up(q) \subseteq 1..Len(q) /\ Down(q) \subseteq 1..Len(q)
      /\ \A i \in 1..Len(q) : r[i] = q[i]
      /\ r[last] = x
      /\ Up(r) = Up(q) \cup {last} /\ Down(r) = Down(q)
    BY AppendEdges
<1>2. /\ \A i \in Up(q) : i < last /\ r[i] = q[i] /\ n < q[i].trip /\ q[i].trip <= m /\ q[i].trip \in Nat
      /\ \A k \in Down(q) : k < last
    <2>1. \A i \in Up(q) : q[i] \in Edge
        BY <1>1 DEF Up, Item, Edge
    <2> QED
        BY <1>1, <2>1 DEF After, Edge
<1> HIDE DEF r, last
<1>3. TripsIn(r) = TripsIn(q) \cup {x.trip}
    BY <1>1, <1>2 DEF TripsIn
<1>4. Alternates(r)
    <2>1. ASSUME NEW i \in Up(q) PROVE \E k \in Down(q) : i < k /\ k < last
        BY <1>2 DEF Settles
    <2>2. \A i \in Up(q) : ~(last < i)
        BY <1>1, <1>2 DEF last
    <2>3. ~(last < last)
        BY <1>1 DEF last
    <2> QED
        BY <1>1, <2>1, <2>2, <2>3 DEF Alternates, Ordered
<1>5. Ascends(r)
    <2>1. \A i \in Up(q) : ~(last < i) /\ r[i].trip < r[last].trip
        BY <1>1, <1>2 DEF last
    <2>2. ~(last < last)
        BY <1>1 DEF last
    <2> QED
        BY <1>1, <1>2, <2>1, <2>2 DEF Ascends, Ordered
<1>6. After(r, n, m + 1)
    <2>1. \A i \in Up(q) : q[i].trip <= m + 1
        BY <1>2
    <2>2. n < m + 1 /\ m + 1 <= m + 1
        OBVIOUS
    <2> QED
        BY <1>1, <1>2, <2>1, <2>2 DEF After
<1>7. Apart(q) /\ Down(q) # {} => Apart(r)
    BY <1>1, <1>2 DEF Apart
<1> QED
    BY <1>1, <1>3, <1>4, <1>5, <1>6, <1>7 DEF r, Ordered

\* A queue keeps its order when its head is taken away.
LEMMA TailKeeps ==
    ASSUME NEW q \in Seq(Item), q # <<>>, Ordered(q)
    PROVE  LET r == Tail(q)
           IN  /\ r \in Seq(Item) /\ Ordered(r)
               /\ \A n, m : After(q, n, m) => After(r, n, m)
               /\ Settles(q) => Settles(r)
<1> DEFINE r == Tail(q)
<1>1. /\ r \in Seq(Item)
      /\ \A i \in Up(r) : i \in Nat \ {0} /\ i + 1 \in Up(q) /\ r[i] = q[i + 1]
      /\ \A k \in Down(q) : k \in Nat \ {0} /\ (k # 1 => k - 1 \in Down(r))
    BY TailEdges
<1> HIDE DEF r
<1>2. Alternates(r)
    <2>1. SUFFICES ASSUME NEW i \in Up(r), NEW j \in Up(r), i < j
                   PROVE  \E k \in Down(r) : i < k /\ k < j
        BY DEF Alternates
    <2>2. i + 1 < j + 1
        BY <1>1, <2>1
    <2>3. PICK k \in Down(q) : i + 1 < k /\ k < j + 1
        BY <1>1, <2>2 DEF Ordered, Alternates
    <2>4. k - 1 \in Down(r) /\ i < k - 1 /\ k - 1 < j
        BY <1>1, <2>3
    <2> QED
        BY <2>4
<1>3. Ascends(r)
    <2>1. SUFFICES ASSUME NEW i \in Up(r), NEW j \in Up(r), i < j
                   PROVE  r[i].trip < r[j].trip
        BY DEF Ascends
    <2>2. i + 1 < j + 1
        BY <1>1, <2>1
    <2> QED
        BY <1>1, <2>2 DEF Ordered, Ascends
<1>4. \A n, m : After(q, n, m) => After(r, n, m)
    BY <1>1 DEF After
<1>5. Settles(q) => Settles(r)
    <2>1. SUFFICES ASSUME Settles(q), NEW i \in Up(r)
                   PROVE  \E k \in Down(r) : i < k
        BY DEF Settles
    <2>2. PICK k \in Down(q) : i + 1 < k
        BY <1>1, <2>1 DEF Settles
    <2>3. k - 1 \in Down(r) /\ i < k - 1
        BY <1>1, <2>2
    <2> QED
        BY <2>3
<1> QED
    BY <1>1, <1>2, <1>3, <1>4, <1>5 DEF r, Ordered

\* A trip that is taken away is before the others, which follow its release.
LEMMA TailUp ==
    ASSUME NEW q \in Seq(Item), q # <<>>, Ordered(q), Head(q).kind = "up"
    PROVE  LET r == Tail(q)
           IN  /\ Head(q).trip \in Nat /\ TripsIn(q) \subseteq TripsIn(r) \cup {Head(q).trip}
               /\ \A n, m : After(q, n, m) => /\ n < Head(q).trip /\ Head(q).trip <= m
                                             /\ After(r, Head(q).trip, m)
               /\ ~Apart(q) /\ Apart(r)
               /\ Settles(q) => Down(r) # {}
<1> DEFINE r == Tail(q)
<1>1. /\ Head(q) = q[1] /\ Head(q) \in Item
      /\ \A i \in Up(r) : i \in Nat \ {0} /\ i + 1 \in Up(q) /\ r[i] = q[i + 1]
      /\ \A i \in Up(q) : i \in Nat \ {0} /\ (i # 1 => i - 1 \in Up(r) /\ r[i - 1] = q[i])
      /\ \A k \in Down(q) : k \in Nat \ {0} /\ (k # 1 => k - 1 \in Down(r))
      /\ 1 \in Up(q)
    BY TailEdges
<1> HIDE DEF r
<1>2. Head(q).trip \in Nat
    BY <1>1 DEF Item, Edge
<1>3. TripsIn(q) \subseteq TripsIn(r) \cup {Head(q).trip}
    <2>1. ASSUME NEW i \in Up(q), i # 1
          PROVE  q[i].trip \in TripsIn(r)
        BY <1>1, <2>1 DEF TripsIn
    <2>2. \A i \in Up(q) : q[i].trip \in TripsIn(r) \cup {Head(q).trip}
        BY <1>1, <2>1
    <2> QED
        BY <2>2 DEF TripsIn
<1>4. \A i \in Up(r) : 1 < i + 1
    BY <1>1
<1>5. \A i \in Up(r) : q[1].trip < r[i].trip
    BY <1>1, <1>4 DEF Ordered, Ascends
<1>6. ASSUME NEW n, NEW m, After(q, n, m)
      PROVE  n < Head(q).trip /\ Head(q).trip <= m /\ After(r, Head(q).trip, m)
    BY <1>1, <1>5, <1>6 DEF After
<1>7. ~Apart(q)
    BY <1>1 DEF Apart
<1>8. Apart(r)
    <2>1. SUFFICES ASSUME NEW j \in Up(r)
                   PROVE  \E k \in Down(r) : k < j
        BY DEF Apart
    <2>2. PICK k \in Down(q) : 1 < k /\ k < j + 1
        BY <1>1, <1>4, <2>1 DEF Ordered, Alternates
    <2>3. k - 1 \in Down(r) /\ k - 1 < j
        BY <1>1, <2>2
    <2> QED
        BY <2>3
<1>9. Settles(q) => Down(r) # {}
    <2>1. SUFFICES ASSUME Settles(q) PROVE Down(r) # {}
        OBVIOUS
    <2>2. PICK k \in Down(q) : 1 < k
        BY <1>1, <2>1 DEF Settles
    <2> QED
        BY <1>1, <2>2
<1> QED
    BY <1>2, <1>3, <1>6, <1>7, <1>8, <1>9 DEF r

\* What else is taken away leaves the trips, and what is no release the releases.
LEMMA TailOther ==
    ASSUME NEW q \in Seq(Item), q # <<>>, Head(q).kind # "up"
    PROVE  LET r == Tail(q)
           IN  /\ TripsIn(q) = TripsIn(r)
               /\ Head(q).kind # "down" => /\ Apart(q) => Apart(r)
                                           /\ Down(q) # {} => Down(r) # {}
<1> DEFINE r == Tail(q)
<1>1. /\ Head(q) = q[1]
      /\ \A i \in Up(r) : i \in Nat \ {0} /\ i + 1 \in Up(q) /\ r[i] = q[i + 1]
      /\ \A i \in Up(q) : i \in Nat \ {0} /\ (i # 1 => i - 1 \in Up(r) /\ r[i - 1] = q[i])
      /\ \A k \in Down(q) : k \in Nat \ {0} /\ (k # 1 => k - 1 \in Down(r))
      /\ 1 \notin Up(q) /\ (1 \in Down(q) <=> q[1].kind = "down")
    BY TailEdges
<1> HIDE DEF r
<1>2. \A i \in Up(q) : i - 1 \in Up(r) /\ r[i - 1] = q[i]
    BY <1>1
<1>3. TripsIn(q) = TripsIn(r)
    BY <1>1, <1>2 DEF TripsIn
<1>4. ASSUME Head(q).kind # "down"
      PROVE  /\ Apart(q) => Apart(r)
             /\ Down(q) # {} => Down(r) # {}
    <2>1. \A k \in Down(q) : k - 1 \in Down(r)
        BY <1>1, <1>4
    <2>2. Apart(q) => Apart(r)
        <3>1. SUFFICES ASSUME Apart(q), NEW j \in Up(r)
                       PROVE  \E k \in Down(r) : k < j
            BY DEF Apart
        <3>2. PICK k \in Down(q) : k < j + 1
            BY <1>1, <3>1 DEF Apart
        <3>3. k - 1 < j
            BY <1>1, <3>1, <3>2
        <3> QED
            BY <2>1, <3>3
    <2> QED
        BY <2>1, <2>2
<1> QED
    BY <1>3, <1>4 DEF r

\* Nothing waits in an empty queue.
LEMMA EmptyQueue ==
    /\ <<>> \in Seq(Item) /\ <<>> \in Seq(Edge) /\ <<>> \in Seq(AnyTag) /\ Up(<<>>) = {}
    /\ Ordered(<<>>) /\ Settles(<<>>) /\ Apart(<<>>) /\ TripsIn(<<>>) = {}
    /\ \A n, m : After(<<>>, n, m)
<1>1. <<>> \in Seq(Item) /\ <<>> \in Seq(Edge) /\ <<>> \in Seq(AnyTag) /\ Up(<<>>) = {}
    BY DEF Up
<1> QED
    BY <1>1 DEF Ordered, Alternates, Ascends, Settles, Apart, TripsIn, After

\* Trips after one trip are after an earlier one, and before a later one.
LEMMA AfterWider ==
    ASSUME NEW q \in Seq(Item), NEW n \in Nat, NEW m \in Nat, After(q, n, m),
           NEW n1 \in Nat, NEW m1 \in Nat, n1 <= n, m <= m1
    PROVE  After(q, n1, m1)
<1>1. \A i \in Up(q) : q[i] \in Edge
    BY DEF Up, Item, Edge
<1>2. \A i \in Up(q) : q[i].trip \in Nat
    BY <1>1 DEF Edge
<1> QED
    BY <1>2 DEF After

\* The queue of edges is one of items, and stays what it is when it is full.
LEMMA OfferEdges ==
    ASSUME NEW q \in Seq(Edge), NEW x \in Edge
    PROVE  /\ q \in Seq(Item) /\ x \in Item
           /\ Offer(q, x, QueueSize) \in Seq(Edge)
           /\ \/ Offer(q, x, QueueSize) = Append(q, x)
              \/ q # <<>> /\ Offer(q, x, QueueSize) = Append(Tail(q), x)
<1>1. q \in Seq(Item) /\ x \in Item
    BY DEF Item
<1>2. IsFull(q, QueueSize) => q # <<>>
    BY WindowsAssumption DEF IsFull
<1>3. Offer(q, x, QueueSize) \in Seq(Edge)
    BY <1>2 DEF Offer
<1> QED
    BY <1>1, <1>2, <1>3 DEF Offer

-----------------------------------------------------------------------------
(* The line and the reader keep the invariant.                             *)

\* What the types say of the numbers of trips.
LEMMA Numbers ==
    ASSUME Types
    PROVE  /\ MaxTrips \in Nat /\ trips \in Nat /\ open \in Nat /\ base \in Nat
           /\ open <= trips /\ base <= trips /\ trips <= MaxTrips /\ LastTrip \in Nat
<1>1. out # <<>> => out[Len(out)] \in AnyWindow
    BY DEF Types
<1> QED
    BY <1>1, WindowsAssumption DEF Types, LastTrip, AnyWindow

LEMMA TripBeginsKeeps ==
    ASSUME Inv, ~BlindGaps, TripBegins
    PROVE  Inv'
<1> DEFINE edge == [kind |-> "up", trip |-> trips + 1]
<1>1. /\ connected /\ line = FALSE /\ trips < MaxTrips
      /\ line' = TRUE /\ trips' = trips + 1 /\ active' = (phase = "armed")
      /\ base' = IF phase \in {"armed", "ended"} THEN base ELSE trips'
      /\ UNCHANGED <<enabled, connected, seen, late, phase, open, settling, tags, out>>
    BY DEF TripBegins, assembler
<1>2. Types
    BY DEF Inv
<1>3. /\ trips \in Nat /\ MaxTrips \in Nat /\ open \in Nat /\ LastTrip \in Nat
      /\ trips <= trips /\ trips <= trips + 1 /\ trips + 1 \in Nat /\ open <= trips
      /\ LastTrip <= trips /\ edge \in Edge /\ edge \in Item
      /\ LastTrip' = LastTrip
    <2>1. LastTrip' = LastTrip
        BY <1>1 DEF LastTrip
    <2>2. edge \in Edge /\ edge \in Item
        BY <1>2, Numbers DEF Edge, Item
    <2> QED
        BY <1>2, <2>1, <2>2, Numbers DEF Inv, EdgeInv
<1>4. /\ trips' \in 0..MaxTrips /\ base' \in 0..trips' /\ open' \in 0..trips'
      /\ active' \in BOOLEAN /\ (active' => trips' # 0)
    BY <1>1, <1>2, <1>3 DEF Types
<1>5. Report("up")
    BY DEF TripBegins
<1> HIDE DEF edge
<1>6. CASE ~enabled
    <2>1. UNCHANGED <<queue, gpiEdges>>
        BY <1>5, <1>6 DEF Report
    <2>2. Types'
        BY <1>1, <1>2, <1>4, <2>1 DEF Types
    <2>3. CallInv'
        BY <1>1, <1>6, <2>1 DEF Inv, CallInv
    <2>4. EdgeInv'
        <3>1. gpiEdges = <<>> /\ open = None /\ queue \in Seq(Item)
            BY <1>2, <1>6 DEF Inv, CallInv, Types
        <3>2. After(queue, LastTrip, trips + 1) /\ After(queue, open, trips + 1)
            BY <1>3, <3>1, AfterWider DEF Inv, EdgeInv
        <3> QED
            BY <1>1, <1>3, <2>1, <3>1, <3>2, EmptyQueue DEF Inv, EdgeInv
    <2>5. CoverInv'
        BY <1>1, <1>6 DEF CoverInv
    <2> QED
        BY <2>2, <2>3, <2>4, <2>5 DEF Inv
<1>7. CASE enabled /\ phase = "off"
    <2>1. gpiEdges' = Offer(gpiEdges, edge, QueueSize) /\ UNCHANGED queue
        BY <1>1, <1>5, <1>7 DEF Report, edge
    <2>2. /\ gpiEdges \in Seq(Edge) /\ gpiEdges \in Seq(Item) /\ queue = <<>> /\ open = None
          /\ Ordered(gpiEdges) /\ After(gpiEdges, LastTrip, trips) /\ Settles(gpiEdges)
        BY <1>1, <1>2, <1>3, <1>7, OfferEdges DEF Inv, Types, CallInv, EdgeInv
    <2>3. PICK g \in Seq(Item) : /\ gpiEdges' = Append(g, edge)
                                /\ Ordered(g) /\ After(g, LastTrip, trips) /\ Settles(g)
        BY <1>3, <2>1, <2>2, OfferEdges, TailKeeps
    <2>4. gpiEdges' \in Seq(Edge)
        BY <1>3, <2>1, <2>2, OfferEdges
    <2>5. edge.kind = "up" /\ edge.trip = trips + 1
        BY DEF edge
    <2>6. Ordered(gpiEdges') /\ After(gpiEdges', LastTrip, trips + 1)
        BY <1>3, <2>3, <2>5, AppendUp
    <2>7. Types'
        BY <1>1, <1>2, <1>4, <2>1, <2>4 DEF Types
    <2>8. CallInv'
        BY <1>1, <1>7, <2>1 DEF Inv, CallInv
    <2>9. EdgeInv'
        BY <1>1, <1>3, <2>1, <2>2, <2>6, EmptyQueue DEF Inv, EdgeInv
    <2>10. CoverInv'
        BY <1>1, <1>3, <1>7 DEF CoverInv
    <2> QED
        BY <2>7, <2>8, <2>9, <2>10 DEF Inv
<1>8. CASE enabled /\ phase # "off"
    <2>1. queue' = Append(queue, edge) /\ UNCHANGED gpiEdges
        BY <1>1, <1>5, <1>8 DEF Report, edge
    <2>2. /\ queue \in Seq(Item) /\ gpiEdges = <<>>
          /\ Ordered(queue) /\ After(queue, LastTrip, trips) /\ Settles(queue)
          /\ After(queue, open, trips)
          /\ open # None => LastTrip < open
          /\ open # None /\ ~settling => Apart(queue) /\ Down(queue) # {}
        BY <1>1, <1>2, <1>8 DEF Inv, Types, CallInv, EdgeInv
    <2>3. edge.kind = "up" /\ edge.trip = trips + 1
        BY DEF edge
    <2>4. /\ queue' \in Seq(Item) /\ TripsIn(queue') = TripsIn(queue) \cup {trips + 1}
          /\ Ordered(queue') /\ After(queue', LastTrip, trips + 1)
          /\ open # None /\ ~settling => Apart(queue') /\ Down(queue') # {}
        BY <1>3, <2>1, <2>2, <2>3, AppendUp
    <2>5. After(queue', open, trips + 1)
        BY <1>3, <2>1, <2>2, <2>3, AppendUp
    <2>6. Types'
        BY <1>1, <1>2, <1>4, <2>1, <2>4 DEF Types
    <2>7. CallInv'
        BY <1>1, <1>8, <2>1 DEF Inv, CallInv
    <2>8. EdgeInv'
        BY <1>1, <1>3, <2>1, <2>2, <2>4, <2>5, EmptyQueue DEF EdgeInv
    <2>9. CoverInv'
        <3>1. CASE phase = "setup"
            BY <1>1, <1>3, <3>1 DEF CoverInv
        <3>2. CASE phase \in {"armed", "ended"}
            <4>1. \A t \in (base + 1)..(trips + 1) : t = trips + 1 \/ t \in (base + 1)..trips
                BY <1>2, <1>3 DEF Types
            <4> QED
                BY <1>1, <1>8, <2>4, <3>2, <4>1, <1>3 DEF Inv, CoverInv
        <3> QED
            BY <1>2, <1>8, <3>1, <3>2 DEF Types
    <2> QED
        BY <2>6, <2>7, <2>8, <2>9 DEF Inv
<1> QED
    BY <1>2, <1>6, <1>7, <1>8 DEF Types

LEMMA TripEndsKeeps ==
    ASSUME Inv, ~BlindGaps, TripEnds
    PROVE  Inv'
<1> DEFINE edge == [kind |-> "down", trip |-> trips]
<1>1. /\ connected /\ line' = FALSE /\ active' = FALSE
      /\ UNCHANGED <<trips, enabled, connected, seen, late, phase, open, settling, tags, out, base>>
    BY DEF TripEnds, assembler
<1>2. Types
    BY DEF Inv
<1>3. LastTrip' = LastTrip
    BY <1>1 DEF LastTrip
<1>4. edge \in Edge /\ edge \in Item /\ edge.kind = "down"
    BY <1>2, Numbers DEF Edge, Item
<1>5. Report("down")
    BY DEF TripEnds
<1> HIDE DEF edge
<1>6. CASE ~enabled
    <2>1. UNCHANGED <<queue, gpiEdges>>
        BY <1>5, <1>6 DEF Report
    <2>2. Types'
        BY <1>1, <1>2, <2>1 DEF Types
    <2>3. CallInv'
        BY <1>1, <2>1 DEF Inv, CallInv
    <2>4. EdgeInv'
        <3>1. gpiEdges = <<>> /\ open = None /\ Up(queue) = {}
            BY <1>6 DEF Inv, CallInv
        <3>2. Settles(queue)
            BY <3>1 DEF Settles
        <3> QED
            BY <1>1, <1>3, <2>1, <3>1, <3>2, EmptyQueue DEF Inv, EdgeInv
    <2>5. CoverInv'
        BY <1>1, <1>6 DEF CoverInv
    <2> QED
        BY <2>2, <2>3, <2>4, <2>5 DEF Inv
<1>7. CASE enabled /\ phase = "off"
    <2>1. gpiEdges' = Offer(gpiEdges, edge, QueueSize) /\ UNCHANGED queue
        BY <1>1, <1>5, <1>7 DEF Report, edge
    <2>2. /\ gpiEdges \in Seq(Edge) /\ gpiEdges \in Seq(Item) /\ queue = <<>> /\ open = None
          /\ Ordered(gpiEdges) /\ After(gpiEdges, LastTrip, trips)
        BY <1>2, <1>4, <1>7, OfferEdges DEF Inv, Types, CallInv, EdgeInv
    <2>3. PICK g \in Seq(Item) : /\ gpiEdges' = Append(g, edge)
                                /\ Ordered(g) /\ After(g, LastTrip, trips)
        BY <1>4, <2>1, <2>2, OfferEdges, TailKeeps
    <2>4. /\ gpiEdges' \in Seq(Edge)
          /\ Ordered(gpiEdges') /\ After(gpiEdges', LastTrip, trips) /\ Settles(gpiEdges')
        BY <1>4, <2>1, <2>2, <2>3, OfferEdges, AppendOther
    <2>5. Types'
        BY <1>1, <1>2, <2>1, <2>4 DEF Types
    <2>6. CallInv'
        BY <1>1, <1>7, <2>1 DEF Inv, CallInv
    <2>7. EdgeInv'
        BY <1>1, <1>3, <2>1, <2>2, <2>4, EmptyQueue DEF Inv, EdgeInv
    <2>8. CoverInv'
        BY <1>1, <1>3, <2>1 DEF Inv, CoverInv
    <2> QED
        BY <2>5, <2>6, <2>7, <2>8 DEF Inv
<1>8. CASE enabled /\ phase # "off"
    <2>1. queue' = Append(queue, edge) /\ UNCHANGED gpiEdges
        BY <1>1, <1>5, <1>8 DEF Report, edge
    <2>2. queue \in Seq(Item) /\ gpiEdges = <<>>
        BY <1>2, <1>8 DEF Inv, Types, CallInv
    <2>3. /\ queue' \in Seq(Item) /\ TripsIn(queue') = TripsIn(queue)
          /\ Ordered(queue) => Ordered(queue')
          /\ Apart(queue) => Apart(queue')
          /\ Settles(queue') /\ Down(queue') # {}
          /\ After(queue, LastTrip, trips) => After(queue', LastTrip, trips)
          /\ After(queue, open, trips) => After(queue', open, trips)
        BY <1>4, <2>1, <2>2, AppendOther
    <2>4. Types'
        BY <1>1, <1>2, <2>1, <2>3 DEF Types
    <2>5. CallInv'
        BY <1>1, <1>8, <2>1 DEF Inv, CallInv
    <2>6. EdgeInv'
        BY <1>1, <1>3, <2>1, <2>2, <2>3, EmptyQueue DEF Inv, EdgeInv
    <2>7. CoverInv'
        BY <1>1, <1>3, <2>3 DEF Inv, CoverInv
    <2> QED
        BY <2>4, <2>5, <2>6, <2>7 DEF Inv
<1> QED
    BY <1>2, <1>6, <1>7, <1>8 DEF Types

LEMMA ReadTagKeeps ==
    ASSUME Inv, ReadTag
    PROVE  Inv'
<1>1. /\ active /\ seen' = [seen EXCEPT ![trips] = @ + 1]
      /\ late' = Append(late, <<trips, seen'[trips]>>)
      /\ UNCHANGED <<line, trips, active, enabled, connected, gpiEdges, phase, queue, open, settling, tags, out, base>>
    BY DEF ReadTag, assembler
<1>2. Types /\ LastTrip' = LastTrip
    BY <1>1 DEF Inv, LastTrip
<1>3. trips \in Trips
    BY <1>1, <1>2, Numbers DEF Types, Trips
<1>4. seen' \in [Trips -> Nat]
    BY <1>1, <1>2, <1>3 DEF Types
<1>5. late' \in Seq(AnyTag)
    BY <1>1, <1>2, <1>3, <1>4, Numbers DEF Types, AnyTag
<1>6. Types'
    BY <1>1, <1>2, <1>4, <1>5 DEF Types
<1> QED
    BY <1>1, <1>2, <1>6 DEF Inv, CallInv, EdgeInv, CoverInv

\* The pump adds a tag, which it has only while the call is armed.
LEMMA PumpReadKeeps ==
    ASSUME Inv, PumpRead
    PROVE  Inv'
<1> DEFINE item == [kind |-> "tag", tag |-> Head(late)]
<1>1. /\ late # <<>> /\ queue' = Append(queue, item) /\ late' = Tail(late)
      /\ UNCHANGED <<line, trips, active, enabled, connected, seen, gpiEdges, phase, open, settling, tags, out, base>>
    BY DEF PumpRead, assembler, reader
<1>2. Types /\ LastTrip' = LastTrip
    BY <1>1 DEF Inv, LastTrip
<1>3. /\ item \in Item /\ item.kind # "up" /\ late' \in Seq(AnyTag)
    BY <1>1, <1>2 DEF Types, Item
<1>4. phase = "armed" /\ queue \in Seq(Item)
    BY <1>1, <1>2 DEF Inv, CallInv, Types
<1> HIDE DEF item
<1>5. /\ queue' \in Seq(Item) /\ TripsIn(queue') = TripsIn(queue) /\ Up(queue') = Up(queue)
      /\ Ordered(queue) => Ordered(queue')
      /\ Apart(queue) => Apart(queue')
      /\ Settles(queue) => Settles(queue')
      /\ Down(queue) # {} => Down(queue') # {}
      /\ After(queue, LastTrip, trips) => After(queue', LastTrip, trips)
      /\ After(queue, open, trips) => After(queue', open, trips)
    BY <1>1, <1>3, <1>4, AppendOther
<1>6. Types'
    BY <1>1, <1>2, <1>3, <1>5 DEF Types
<1>7. CallInv'
    BY <1>1, <1>4, <1>5 DEF Inv, CallInv
<1>8. EdgeInv'
    BY <1>1, <1>2, <1>5 DEF Inv, EdgeInv
<1>9. CoverInv'
    BY <1>1, <1>2, <1>5 DEF Inv, CoverInv
<1> QED
    BY <1>6, <1>7, <1>8, <1>9 DEF Inv

LEMMA ReconnectKeeps ==
    ASSUME Inv, Reconnect
    PROVE  Inv'
<1>1. /\ connected' = TRUE
      /\ UNCHANGED <<line, trips, active, enabled, seen, late, gpiEdges, phase, queue, open, settling, tags, out, base>>
    BY DEF Reconnect, assembler, reader
<1>2. LastTrip' = LastTrip
    BY <1>1 DEF LastTrip
<1> QED
    BY <1>1, <1>2 DEF Inv, Types, CallInv, EdgeInv, CoverInv

-----------------------------------------------------------------------------
(* The steps of the call keep it.                                          *)

\* A call finds the edges that have waited for it.
LEMMA CallKeeps ==
    ASSUME Inv, Call
    PROVE  Inv'
<1>1. /\ phase = "off" /\ phase' = "setup" /\ queue' = gpiEdges /\ gpiEdges' = <<>>
      /\ UNCHANGED <<line, trips, active, enabled, connected, seen, late, open, settling, tags, out, base>>
    BY DEF Call, Backlog, assembler, reader
<1>2. Types /\ LastTrip' = LastTrip
    BY <1>1 DEF Inv, LastTrip
<1>3. gpiEdges \in Seq(Item) /\ open = None
    BY <1>1, <1>2 DEF Inv, CallInv, Types, Item
<1>4. Types'
    BY <1>1, <1>2, <1>3, EmptyQueue DEF Types
<1>5. CallInv'
    BY <1>1, <1>3, EmptyQueue DEF Inv, CallInv
<1>6. After(gpiEdges, open, trips)
    BY <1>2, <1>3, Numbers, AfterWider DEF Inv, EdgeInv, None
<1>7. EdgeInv'
    BY <1>1, <1>2, <1>3, <1>6, EmptyQueue DEF Inv, EdgeInv
<1>8. CoverInv'
    BY <1>1, <1>2, Numbers DEF Inv, CallInv, CoverInv
<1> QED
    BY <1>4, <1>5, <1>7, <1>8 DEF Inv

LEMMA ArmKeeps ==
    ASSUME Inv, Arm
    PROVE  Inv'
<1>1. /\ phase = "setup" /\ phase' = "armed" /\ enabled' = TRUE
      /\ UNCHANGED <<line, trips, active, connected, seen, late, gpiEdges, queue, open, settling, tags, out, base>>
    BY DEF Arm, assembler
<1>2. Types /\ LastTrip' = LastTrip
    BY <1>1 DEF Inv, LastTrip
<1>3. Types'
    BY <1>1, <1>2 DEF Types
<1>4. CallInv'
    BY <1>1 DEF Inv, CallInv
<1>5. EdgeInv'
    BY <1>1, <1>2 DEF Inv, EdgeInv
<1>6. CoverInv'
    BY <1>1, <1>2, Numbers DEF Inv, CallInv, CoverInv
<1> QED
    BY <1>3, <1>4, <1>5, <1>6 DEF Inv

\* What ends the queue stands behind every edge.
LEMMA InventoryEndsKeeps ==
    ASSUME Inv, phase \in {"setup", "armed"}, connected' \in BOOLEAN,
           InventoryEnds(<<EndItem>>) \/ InventoryEnds(<<ErrorItem, EndItem>>)
    PROVE  Inv'
<1>1. /\ phase' = "ended" /\ active' = FALSE /\ late' = <<>>
      /\ queue' = queue \o <<EndItem>> \/ queue' = queue \o <<ErrorItem, EndItem>>
      /\ UNCHANGED <<line, trips, enabled, seen, gpiEdges, open, settling, tags, out, base>>
    BY DEF InventoryEnds, assembler
<1>2. Types /\ LastTrip' = LastTrip
    BY <1>1 DEF Inv, LastTrip
<1>3. queue \in Seq(Item)
    BY <1>2 DEF Types
<1>4. /\ EndItem \in Item /\ ErrorItem \in Item /\ EndItem.kind # "up" /\ ErrorItem.kind # "up"
    BY DEF EndItem, ErrorItem, Item
<1>5. queue' = Append(queue, EndItem) \/ queue' = Append(Append(queue, ErrorItem), EndItem)
    BY <1>1, <1>3, <1>4
<1>6. /\ queue' \in Seq(Item) /\ TripsIn(queue') = TripsIn(queue) /\ Up(queue') = Up(queue)
      /\ Ordered(queue) => Ordered(queue')
      /\ Apart(queue) => Apart(queue')
      /\ Settles(queue) => Settles(queue')
      /\ Down(queue) # {} => Down(queue') # {}
      /\ After(queue, LastTrip, trips) => After(queue', LastTrip, trips)
      /\ After(queue, open, trips) => After(queue', open, trips)
    BY <1>3, <1>4, <1>5, AppendOther
<1>7. Types'
    BY <1>1, <1>2, <1>6, EmptyQueue DEF Types
<1>8. CallInv'
    BY <1>1, <1>6 DEF Inv, CallInv
<1>9. EdgeInv'
    BY <1>1, <1>2, <1>6 DEF Inv, EdgeInv
<1>10. CoverInv'
    BY <1>1, <1>2, <1>6 DEF Inv, CoverInv
<1> QED
    BY <1>7, <1>8, <1>9, <1>10 DEF Inv

LEMMA LoseKeeps ==
    ASSUME Inv, Lose
    PROVE  Inv'
<1>1. CASE phase \in {"setup", "armed"}
    BY <1>1, InventoryEndsKeeps DEF Lose
<1>2. CASE phase \notin {"setup", "armed"}
    <2>1. /\ connected' = FALSE
          /\ UNCHANGED <<line, trips, active, enabled, seen, late, gpiEdges, phase, queue, open, settling, tags, out, base>>
        BY <1>2 DEF Lose, assembler, reader
    <2>2. LastTrip' = LastTrip
        BY <2>1 DEF LastTrip
    <2> QED
        BY <2>1, <2>2 DEF Inv, Types, CallInv, EdgeInv, CoverInv
<1> QED
    BY <1>1, <1>2

\* Nothing is owed any more, whatever was handed out before.
LEMMA LeaveKeeps ==
    ASSUME Inv, Leave, phase # "off", out' \in Seq(AnyWindow), LastTrip' \in 0..trips
    PROVE  Inv'
<1>1. /\ phase' = "off" /\ queue' = <<>> /\ late' = <<>> /\ open' = None /\ settling' = FALSE
      /\ tags' = <<>> /\ active' = FALSE /\ base' = trips
      /\ UNCHANGED <<line, trips, enabled, seen, connected, gpiEdges>>
    BY DEF Leave
<1>2. Types /\ gpiEdges = <<>>
    BY DEF Inv, CallInv
<1>3. trips \in Nat /\ LastTrip' \in Nat /\ LastTrip' <= trips
    BY <1>2, Numbers
<1>4. Types'
    <2>1. open' \in 0..trips' /\ base' \in 0..trips'
        BY <1>1, <1>3 DEF None
    <2> QED
        BY <1>1, <1>2, <1>3, <2>1, EmptyQueue DEF Types
<1>5. CallInv'
    BY <1>1, <1>2, EmptyQueue DEF CallInv
<1>6. EdgeInv'
    BY <1>1, <1>2, <1>3, EmptyQueue DEF EdgeInv
<1>7. CoverInv'
    BY <1>1, <1>3 DEF CoverInv
<1> QED
    BY <1>4, <1>5, <1>6, <1>7 DEF Inv

LEMMA StopKeeps ==
    ASSUME Inv, Stop
    PROVE  Inv'
<1>1. phase # "off" /\ Leave /\ out' = out /\ LastTrip' = LastTrip
    BY DEF Stop, LastTrip
<1>2. Types /\ LastTrip \in 0..trips
    BY Numbers DEF Inv, EdgeInv
<1> QED
    BY <1>1, <1>2, LeaveKeeps DEF Types

-----------------------------------------------------------------------------
(* So do the steps of the assembler.                                       *)

\* The trip of a window that is handed out is the open one.
LEMMA WindowHanded ==
    ASSUME Types, NEW why \in Why, out' = Append(out, Window(why))
    PROVE  out' \in Seq(AnyWindow) /\ LastTrip' = open
<1>1. Window(why) \in AnyWindow /\ Window(why).trip = open
    BY Numbers DEF Types, Window, AnyWindow
<1>2. /\ out' \in Seq(AnyWindow) /\ out' # <<>>
      /\ Len(out') = Len(out) + 1 /\ out'[Len(out) + 1] = Window(why)
    <2>1. out \in Seq(AnyWindow)
        BY DEF Types
    <2>2. ASSUME NEW w \in AnyWindow
          PROVE  LET r == Append(out, w)
                 IN  r \in Seq(AnyWindow) /\ r # <<>> /\ Len(r) = Len(out) + 1 /\ r[Len(out) + 1] = w
        BY <2>1
    <2> QED
        BY <1>1, <2>2
<1> QED
    BY <1>1, <1>2 DEF LastTrip

\* An open window is handed out when nothing waits.
LEMMA CloseKeeps ==
    ASSUME Inv, NEW why \in Why, Close(why), phase # "off", queue = <<>>, open # None,
           UNCHANGED <<reader, connected, late, gpiEdges, phase, queue, base, counters>>
    PROVE  Inv'
<1>1. /\ open' = None /\ settling' = FALSE /\ tags' = <<>>
      /\ UNCHANGED <<line, trips, active, enabled, seen, connected, late, gpiEdges, phase, queue, base>>
    BY DEF Close, reader
<1>2. Types /\ gpiEdges = <<>>
    BY DEF Inv, CallInv
<1>3. out' \in Seq(AnyWindow) /\ LastTrip' = open
    BY <1>2, WindowHanded DEF Close
<1>4. Types'
    <2>1. open' \in 0..trips'
        BY <1>1, <1>2, Numbers DEF None
    <2> QED
        BY <1>1, <1>2, <1>3, <2>1, EmptyQueue DEF Types
<1>5. CallInv'
    BY <1>1 DEF Inv, CallInv
<1>6. EdgeInv'
    BY <1>1, <1>2, <1>3, Numbers, EmptyQueue DEF EdgeInv
<1>7. CoverInv'
    BY <1>1, <1>2, <1>3, Numbers DEF Inv, EdgeInv, CoverInv
<1> QED
    BY <1>4, <1>5, <1>6, <1>7 DEF Inv

LEMMA GraceOverKeeps ==
    ASSUME Inv, GraceOver
    PROVE  Inv'
<1>1. open # None /\ "settled" \in Why
    BY DEF GraceOver, Inv, CallInv, Why
<1> QED
    BY <1>1, CloseKeeps DEF GraceOver

LEMMA ForceCloseKeeps ==
    ASSUME Inv, ForceClose
    PROVE  Inv'
<1>1. "forced" \in Why
    BY DEF Why
<1> QED
    BY <1>1, CloseKeeps DEF ForceClose

LEMMA FoldEndKeeps ==
    ASSUME Inv, FoldEnd
    PROVE  Inv'
<1>1. Types /\ phase # "off" /\ Leave
    BY DEF FoldEnd, Inv, CallInv
<1>2. CASE UNCHANGED out
    <2>1. LastTrip' = LastTrip
        BY <1>2 DEF LastTrip
    <2>2. out' \in Seq(AnyWindow) /\ LastTrip' \in 0..trips
        BY <1>1, <1>2, <2>1, Numbers DEF Types, Inv, EdgeInv
    <2> QED
        BY <1>1, <2>2, LeaveKeeps
<1>3. CASE out' = Append(out, Window("ended"))
    <2>1. "ended" \in Why
        BY DEF Why
    <2>2. out' \in Seq(AnyWindow) /\ LastTrip' \in 0..trips
        BY <1>1, <1>3, <2>1, WindowHanded DEF Types
    <2> QED
        BY <1>1, <2>2, LeaveKeeps
<1> QED
    BY <1>2, <1>3 DEF FoldEnd

LEMMA FoldKeeps ==
    ASSUME Inv, Fold
    PROVE  Inv'
<1> DEFINE item == Head(queue)
           rest == Tail(queue)
<1>1. /\ queue # <<>> /\ queue' = rest
      /\ UNCHANGED <<line, trips, active, enabled, seen, connected, late, gpiEdges, phase, base>>
      /\ \/ item.kind = "up" /\ Opened(item)
         \/ item.kind = "down" /\ Released(item)
         \/ item.kind = "tag" /\ Collected(item)
    BY DEF Fold, reader
<1>2. /\ Types /\ queue \in Seq(Item) /\ phase # "off" /\ gpiEdges = <<>>
      /\ item \in Item
    BY <1>1, TailEdges DEF Inv, Types, CallInv
<1>3. /\ Ordered(queue) /\ After(queue, LastTrip, trips) /\ After(queue, open, trips)
      /\ (~line => Settles(queue)) /\ LastTrip <= trips
      /\ open # None => LastTrip < open
      /\ open # None /\ ~settling => Apart(queue) /\ (~line => Down(queue) # {})
    BY DEF Inv, EdgeInv
<1>4. /\ rest \in Seq(Item) /\ Ordered(rest)
      /\ After(rest, LastTrip, trips) /\ After(rest, open, trips)
      /\ (~line => Settles(rest))
    BY <1>1, <1>2, <1>3, TailKeeps
<1>5. Up(queue) = {} => item.kind # "up" /\ Up(rest) = {}
    BY <1>1, <1>2, TailEdges
<1>6. CASE item.kind = "up"
    <2>1. /\ item.trip \in Nat /\ TripsIn(queue) \subseteq TripsIn(rest) \cup {item.trip}
          /\ LastTrip < item.trip /\ item.trip <= trips /\ open < item.trip
          /\ After(rest, item.trip, trips)
          /\ ~Apart(queue) /\ Apart(rest)
          /\ (~line => Down(rest) # {})
        BY <1>1, <1>2, <1>3, <1>6, TailUp
    <2>2. open = None \/ settling
        BY <1>3, <2>1
    <2>3. enabled
        BY <1>2, <1>5, <1>6 DEF Inv, CallInv, Types
    <2>4. /\ open' = item.trip /\ settling' \in BOOLEAN /\ tags' \in Seq(AnyTag)
          /\ out' \in Seq(AnyWindow) /\ LastTrip <= LastTrip' /\ LastTrip' < item.trip
          /\ (open # None => LastTrip' = open) /\ LastTrip' \in Nat
          /\ open = None => LastTrip' = LastTrip
        <3>1. CASE open = None
            <4>1. open' = item.trip /\ UNCHANGED <<settling, tags, out>> /\ LastTrip' = LastTrip
                BY <1>1, <1>6, <3>1 DEF Opened, LastTrip
            <4> QED
                BY <1>2, <2>1, <3>1, <4>1, Numbers DEF Types
        <3>2. CASE open # None
            <4>1. out' = Append(out, Window("next")) /\ open' = item.trip /\ settling' = FALSE /\ tags' = <<>>
                BY <1>1, <1>6, <2>2, <3>2 DEF Opened
            <4>2. "next" \in Why
                BY DEF Why
            <4>3. out' \in Seq(AnyWindow) /\ LastTrip' = open
                BY <1>2, <4>1, <4>2, WindowHanded
            <4>4. LastTrip \in Nat /\ open \in Nat
                BY <1>2, Numbers
            <4>5. tags' \in Seq(AnyTag)
                BY <4>1, EmptyQueue
            <4>6. LastTrip < open /\ open < item.trip
                BY <1>3, <2>1, <3>2
            <4>7. LastTrip <= LastTrip' /\ LastTrip' < item.trip /\ LastTrip' \in Nat
                BY <4>3, <4>4, <4>6
            <4> QED
                BY <3>2, <4>1, <4>3, <4>5, <4>7
        <3> QED
            BY <3>1, <3>2
    <2>5. open' # None
        BY <1>2, <2>1, <2>4, Numbers DEF None
    <2>6. Types'
        BY <1>1, <1>2, <1>4, <2>1, <2>4, Numbers DEF Types
    <2>7. CallInv'
        BY <1>1, <1>2, <2>3, <2>5 DEF Inv, CallInv
    <2>8. After(rest, LastTrip', trips)
        BY <1>2, <1>4, <2>1, <2>4, Numbers, AfterWider
    <2>9. EdgeInv'
        BY <1>1, <1>2, <1>4, <2>1, <2>4, <2>8, Numbers, EmptyQueue DEF EdgeInv
    <2>10. CoverInv'
        <3>1. ASSUME NEW t \in (base + 1)..trips
              PROVE  t <= LastTrip' \/ t = item.trip \/ t \in TripsIn(rest)
            <4>1. t <= LastTrip \/ t = open \/ t \in TripsIn(queue)
                BY <2>3, <3>1 DEF Inv, CoverInv
            <4>2. t \in Nat /\ t # 0
                BY <1>2, <3>1, Numbers
            <4> QED
                BY <1>2, <2>1, <2>4, <4>1, <4>2, Numbers DEF None
        <3> QED
            BY <1>1, <2>4, <3>1 DEF CoverInv
    <2> QED
        BY <2>6, <2>7, <2>9, <2>10 DEF Inv
<1>7. CASE item.kind # "up"
    <2>1. /\ UNCHANGED <<open, out>> /\ LastTrip' = LastTrip
          /\ settling' \in BOOLEAN /\ tags' \in Seq(AnyTag)
          /\ item.kind = "down" => (settling' <=> open # None)
          /\ item.kind # "down" => settling' = settling
        <3>1. CASE item.kind = "down"
            <4>1. settling' = (open # None) /\ UNCHANGED <<open, tags, out>>
                BY <1>1, <3>1 DEF Released
            <4>2. LastTrip' = LastTrip /\ settling' \in BOOLEAN
                BY <4>1 DEF LastTrip
            <4>3. tags' \in Seq(AnyTag)
                BY <1>2, <4>1 DEF Types
            <4> QED
                BY <3>1, <4>1, <4>2, <4>3
        <3>2. CASE item.kind = "tag"
            <4>1. item.tag \in AnyTag
                BY <1>2, <3>2 DEF Item, Edge
            <4>2. /\ tags' = IF open # None THEN Append(tags, item.tag) ELSE tags
                  /\ UNCHANGED <<open, settling, out>>
                BY <1>1, <3>2 DEF Collected
            <4>3. LastTrip' = LastTrip
                BY <4>2 DEF LastTrip
            <4>4. tags' \in Seq(AnyTag) /\ settling' \in BOOLEAN
                BY <1>2, <4>1, <4>2 DEF Types
            <4> QED
                BY <3>2, <4>2, <4>3, <4>4
        <3> QED
            BY <1>1, <1>7, <3>1, <3>2
    <2>2. /\ TripsIn(queue) = TripsIn(rest)
          /\ item.kind # "down" => /\ Apart(queue) => Apart(rest)
                                   /\ Down(queue) # {} => Down(rest) # {}
        BY <1>1, <1>2, <1>7, TailOther
    <2>3. Types'
        BY <1>1, <1>2, <1>4, <2>1 DEF Types
    <2>4. CallInv'
        BY <1>1, <1>2, <1>5, <2>1 DEF Inv, CallInv
    <2>5. EdgeInv'
        BY <1>1, <1>2, <1>3, <1>4, <2>1, <2>2, EmptyQueue DEF EdgeInv
    <2>6. CoverInv'
        BY <1>1, <2>1, <2>2 DEF Inv, CoverInv
    <2> QED
        BY <2>3, <2>4, <2>5, <2>6 DEF Inv
<1> QED
    BY <1>6, <1>7

-----------------------------------------------------------------------------
(* The invariant.                                                          *)

LEMMA InitInv == WindowsInit => Inv
<1> SUFFICES ASSUME WindowsInit PROVE Inv
    OBVIOUS
<1>1. /\ line = FALSE /\ trips = 0 /\ active = FALSE /\ enabled \in BOOLEAN /\ connected = TRUE
      /\ seen = [t \in Trips |-> 0] /\ late = <<>> /\ gpiEdges = <<>> /\ phase = "off" /\ queue = <<>>
      /\ open = None /\ settling = FALSE /\ tags = <<>> /\ out = <<>> /\ base = 0
    BY DEF WindowsInit
<1>2. out \in Seq(AnyWindow) /\ LastTrip = 0
    BY <1>1 DEF LastTrip
<1>3. MaxTrips \in Nat
    BY WindowsAssumption
<1>4. trips \in 0..MaxTrips /\ base \in 0..trips /\ open \in 0..trips
    BY <1>1, <1>3 DEF None
<1>5. Types
    BY <1>1, <1>2, <1>4, EmptyQueue DEF Types
<1>6. CallInv
    BY <1>1, EmptyQueue DEF CallInv
<1>7. EdgeInv
    BY <1>1, <1>2, EmptyQueue DEF EdgeInv
<1>8. CoverInv
    BY <1>1 DEF CoverInv
<1> QED
    BY <1>5, <1>6, <1>7, <1>8 DEF Inv

\* No step breaks the invariant, unless the line changes unseen.
LEMMA NextInv ==
    ASSUME ~BlindGaps, Inv, [Next]_wvars
    PROVE  Inv'
<1>1. CASE TripBegins
    BY <1>1, TripBeginsKeeps
<1>2. CASE TripEnds
    BY <1>2, TripEndsKeeps
<1>3. CASE ReadTag
    BY <1>3, ReadTagKeeps
<1>4. CASE PumpRead
    BY <1>4, PumpReadKeeps
<1>5. CASE Reconnect
    BY <1>5, ReconnectKeeps
<1>6. CASE Call
    BY <1>6, CallKeeps
<1>7. CASE Arm
    BY <1>7, ArmKeeps
<1>8. CASE Finish \/ Refused
    <2>1. connected' \in BOOLEAN
        BY <1>8 DEF Finish, Refused, Inv, Types
    <2> QED
        BY <1>8, <2>1, InventoryEndsKeeps DEF Finish, Refused
<1>9. CASE Lose
    BY <1>9, LoseKeeps
<1>10. CASE Stop
    BY <1>10, StopKeeps
<1>11. CASE Fold
    BY <1>11, FoldKeeps
<1>12. CASE FoldEnd
    BY <1>12, FoldEndKeeps
<1>13. CASE GraceOver
    BY <1>13, GraceOverKeeps
<1>14. CASE ForceClose
    BY <1>14, ForceCloseKeeps
<1>15. CASE UNCHANGED wvars
    <2>1. /\ UNCHANGED <<line, trips, active, enabled, connected, seen, late, gpiEdges, phase, queue,
                        open, settling, tags, out, base>>
        BY <1>15 DEF wvars, reader, assembler
    <2>2. LastTrip' = LastTrip
        BY <2>1 DEF LastTrip
    <2> QED
        BY <2>1, <2>2 DEF Inv, Types, CallInv, EdgeInv, CoverInv
<1> QED
    BY <1>1, <1>2, <1>3, <1>4, <1>5, <1>6, <1>7, <1>8, <1>9, <1>10, <1>11, <1>12, <1>13, <1>14, <1>15
    DEF Next, Line, Calling, Assemble

-----------------------------------------------------------------------------
(* The steps of WindowPerTrip.                                             *)

Listening == phase \in {"armed", "ended"}

\* The open window is the one that is owed next.
LEMMA OpenIsNext ==
    ASSUME Inv, open # None
    PROVE  /\ open \in (LastTrip + 1)..trips
           /\ open > base => open = 1 + (IF LastTrip > base THEN LastTrip ELSE base)
<1> DEFINE t == 1 + (IF LastTrip > base THEN LastTrip ELSE base)
<1>1. /\ trips \in Nat /\ open \in Nat /\ base \in Nat /\ LastTrip \in Nat
      /\ open <= trips /\ LastTrip < open /\ queue \in Seq(Item)
    BY Numbers DEF Inv, Types, EdgeInv
<1>2. enabled
    BY DEF Inv, CallInv
<1>3. ASSUME open > base, open # t PROVE FALSE
    <2>1. t \in (base + 1)..trips /\ t < open /\ LastTrip < t /\ t \in Nat
        BY <1>1, <1>3
    <2>2. t \in TripsIn(queue)
        BY <1>1, <1>2, <2>1 DEF Inv, CoverInv
    <2>3. PICK i \in Up(queue) : queue[i].trip = t
        BY <2>2 DEF TripsIn
    <2>4. open < t
        BY <2>3 DEF Inv, EdgeInv, After
    <2> QED
        BY <1>1, <2>1, <2>4
<1> QED
    BY <1>1, <1>3

\* Handing it out is a step of the promise, whether it ends the call or not.
LEMMA HandsWindow ==
    ASSUME Inv, open # None, LastTrip' = open, trips' = trips,
           \/ phase' = phase /\ base' = base
           \/ phase' = "off" /\ base' = trips
    PROVE  Promise!Hand
<1>1. /\ open \in (LastTrip + 1)..trips
      /\ open > base => open = 1 + (IF LastTrip > base THEN LastTrip ELSE base)
    BY OpenIsNext
<1> QED
    BY <1>1 DEF Promise!Hand, Promise!IsNext, LastTrip

\* Each step of the call and of the assembler is a step of the promise or is
\* not to be seen there.
LEMMA NextPromise ==
    ASSUME ~BlindGaps, Inv, [Next]_wvars
    PROVE  Promise!Next \/ UNCHANGED <<trips, Listening, base, LastTrip>>
<1>1. CASE TripBegins
    <2>1. /\ trips < MaxTrips /\ trips' = trips + 1 /\ UNCHANGED <<phase, out>>
          /\ base' = IF phase \in {"armed", "ended"} THEN base ELSE trips'
        BY <1>1 DEF TripBegins
    <2>2. Promise!Trip
        BY <2>1 DEF Promise!Trip
    <2> QED
        BY <2>2 DEF Promise!Next
<1>2. CASE TripEnds \/ ReadTag \/ PumpRead \/ Reconnect \/ UNCHANGED wvars
    BY <1>2 DEF TripEnds, ReadTag, PumpRead, Reconnect, wvars, reader, Listening, LastTrip
<1>3. CASE Call
    BY <1>3 DEF Call, reader, Listening, LastTrip
<1>4. CASE Arm
    <2>1. Promise!Listen
        BY <1>4 DEF Arm, Promise!Listen
    <2> QED
        BY <2>1 DEF Promise!Next
<1>5. ASSUME phase \in {"setup", "armed"}, InventoryEnds(<<EndItem>>) \/ InventoryEnds(<<ErrorItem, EndItem>>)
      PROVE  Promise!Listen \/ UNCHANGED <<trips, Listening, base, LastTrip>>
    BY <1>5 DEF InventoryEnds, Promise!Listen, Listening, LastTrip
<1>6. CASE Finish \/ Refused
    BY <1>5, <1>6 DEF Finish, Refused, Promise!Next
<1>7. CASE Lose
    <2>1. CASE phase \in {"setup", "armed"}
        BY <1>5, <1>7, <2>1 DEF Lose, Promise!Next
    <2>2. CASE phase \notin {"setup", "armed"}
        BY <1>7, <2>2 DEF Lose, reader, Listening, LastTrip
    <2> QED
        BY <2>1, <2>2
<1>8. ASSUME Leave, UNCHANGED out, phase # "off"
      PROVE  Promise!Leave \/ UNCHANGED <<trips, Listening, base, LastTrip>>
    <2>1. phase' = "off" /\ base' = trips /\ trips' = trips /\ LastTrip' = LastTrip
        BY <1>8 DEF Leave, LastTrip
    <2>2. CASE phase = "setup"
        BY <2>1, <2>2 DEF Inv, CallInv, Listening
    <2>3. CASE phase # "setup"
        <3>1. phase \in {"armed", "ended"}
            BY <1>8, <2>3 DEF Inv, Types
        <3> QED
            BY <1>8, <2>1, <3>1 DEF Promise!Leave
    <2> QED
        BY <2>2, <2>3
<1>9. CASE Stop
    BY <1>8, <1>9 DEF Stop, Promise!Next
<1>10. CASE Fold
    <2>1. trips' = trips /\ phase' = phase /\ base' = base
        BY <1>10 DEF Fold, reader
    <2>2. CASE UNCHANGED out
        BY <2>1, <2>2 DEF Listening, LastTrip
    <2>3. CASE open # None /\ out' = Append(out, Window("next"))
        <3>1. LastTrip' = open
            BY <2>3, WindowHanded DEF Inv, Why
        <3>2. Promise!Hand
            BY <2>1, <2>3, <3>1, HandsWindow
        <3> QED
            BY <3>2 DEF Promise!Next
    <2> QED
        BY <1>10, <2>2, <2>3 DEF Fold, Opened, Released, Collected, assembler
<1>11. CASE FoldEnd
    <2>1. phase # "off" /\ Leave
        BY <1>11 DEF FoldEnd, Inv, CallInv
    <2>2. CASE UNCHANGED out
        BY <1>8, <2>1, <2>2 DEF Promise!Next
    <2>3. CASE open # None /\ out' = Append(out, Window("ended"))
        <3>1. LastTrip' = open
            BY <2>3, WindowHanded DEF Inv, Why
        <3>2. phase' = "off" /\ base' = trips /\ trips' = trips
            BY <2>1 DEF Leave
        <3>3. Promise!Hand
            BY <2>3, <3>1, <3>2, HandsWindow
        <3> QED
            BY <3>3 DEF Promise!Next
    <2> QED
        BY <1>11, <2>2, <2>3 DEF FoldEnd
<1>12. CASE GraceOver \/ ForceClose
    <2>1. open # None /\ trips' = trips /\ phase' = phase /\ base' = base
        BY <1>12 DEF GraceOver, ForceClose, Inv, CallInv, reader
    <2>2. LastTrip' = open
        BY <1>12, WindowHanded DEF GraceOver, ForceClose, Close, Inv, Why
    <2>3. Promise!Hand
        BY <2>1, <2>2, HandsWindow
    <2> QED
        BY <2>3 DEF Promise!Next
<1> QED
    BY <1>1, <1>2, <1>3, <1>4, <1>6, <1>7, <1>9, <1>10, <1>11, <1>12
    DEF Next, Line, Calling, Assemble

-----------------------------------------------------------------------------
(* Unless the line changes while the connection is down, windows() hands   *)
(* out one window for each trip of the line, in the order of the trips and *)
(* with none passed over: Windows implements WindowPerTrip.                *)
THEOREM OneWindowPerTrip ==
    ASSUME ~BlindGaps
    PROVE  Spec => OnePerTrip
<1>1. WindowsInit => Promise!Init
    BY DEF WindowsInit, Promise!Init
<1>2. Inv /\ [Next]_wvars => Inv'
    BY NextInv
<1>3. Inv /\ [Next]_wvars
      => [Promise!Next]_<<trips, phase \in {"armed", "ended"}, base,
                          IF out = <<>> THEN 0 ELSE out[Len(out)].trip>>
    BY NextPromise DEF Listening, LastTrip
<1> QED
    BY <1>1, <1>2, <1>3, InitInv, PTL DEF Spec, OnePerTrip, Promise!Spec

(***************************************************************************)
(* What the windows hold.                                                  *)
(***************************************************************************)

\* Where tags are in the merged queue, and where it ends.
Carried(q) == {i \in 1..Len(q) : q[i].kind = "tag"}
Ends(q) == {i \in 1..Len(q) : q[i].kind \in {"end", "error"}}

\* Where a read is: in a window, in the open one, in the queue, on its way.
Handed == UNION {{out[i].tags[k] : k \in 1..Len(out[i].tags)} : i \in 1..Len(out)}
Held == {tags[k] : k \in 1..Len(tags)}
TagsIn(q) == {q[i].tag : i \in Carried(q)}
OnTheWay == {late[k] : k \in 1..Len(late)}

Rising(s) == \A i, j \in 1..Len(s) : i < j => Earlier(s[i], s[j])
RisingTags(q) == \A i, j \in Carried(q) : i < j => Earlier(q[i].tag, q[j].tag)
Before(A, B) == \A a \in A, b \in B : Earlier(a, b)

\* Reads that were made so far.
Made == {a \in AnyTag : a[1] \in 1..trips /\ a[2] \in 1..seen[a[1]]}

\* They move on in the order in which they were made.
ReadsInv ==
    /\ \A t \in Trips : seen[t] <= MaxReads /\ (t > trips => seen[t] = 0)
    /\ Handed \cup Held \cup TagsIn(queue) \cup OnTheWay \subseteq Made
    /\ \A i, j \in 1..Len(out) : \A k \in 1..Len(out[i].tags), l \in 1..Len(out[j].tags) :
          i < j \/ (i = j /\ k < l) => Earlier(out[i].tags[k], out[j].tags[l])
    /\ Rising(tags) /\ RisingTags(queue) /\ Rising(late)
    /\ Before(Handed, Held \cup TagsIn(queue) \cup OnTheWay)
    /\ Before(Held, TagsIn(queue) \cup OnTheWay)
    /\ Before(TagsIn(queue), OnTheWay)

\* The trip whose edge was folded last.  The edge of a trip, or of a later one,
\* is folded or waits in front of its reads.
Folded == IF open = None THEN LastTrip ELSE open
Announced(n, q, last) == n <= last \/ \E i \in Up(q) : n <= q[i].trip
Edged(q, last) ==
    \A k \in Carried(q) :
        q[k].tag[1] <= last \/ \E i \in Up(q) : i < k /\ q[k].tag[1] <= q[i].trip

TripInv ==
    /\ active => base < trips
    /\ open = None => tags = <<>>
    /\ \A i \in 1..Len(out) : \A k \in 1..Len(out[i].tags) : out[i].tags[k][1] <= out[i].trip
    /\ \A a \in Held : a[1] <= open
    /\ Edged(queue, Folded)
    /\ \A a \in OnTheWay : Announced(a[1], queue, Folded)

\* A release is of a trip that is over, and comes behind the edge of that trip.
Over(n) == n < trips \/ ~line
DownTrips(q) == {q[k].trip : k \in Down(q)}
InTurn(q) == \A i \in Up(q), k \in Down(q) : i < k => q[i].trip <= q[k].trip

ReleaseInv ==
    /\ active => line
    /\ InTurn(queue) /\ InTurn(gpiEdges)
    /\ \A n \in DownTrips(queue) \cup DownTrips(gpiEdges) : n <= trips /\ Over(n)
    /\ \A n \in DownTrips(queue) : open <= n
    /\ settling => Over(open)
    /\ \A i \in 1..Len(out) : /\ out[i].trip \in 1..trips
                              /\ out[i].why \in {"settled", "next"} => Over(out[i].trip)

\* A call that has ended has items that no edge overtakes.
EndInv ==
    /\ phase # "ended" => Ends(queue) = {}
    /\ phase = "ended" => Ends(queue) # {}
    /\ Len(gpiEdges) <= QueueSize

\* Reads of trip n are still awaited: the call goes on, or it has ended with a
\* later trip behind.
Later(q, n) == \E j \in Up(q) : n < q[j].trip /\ \A e \in Ends(q) : j < e
Awaited(n) == phase = "ended" => Later(queue, n)

\* With prompt reads, those of a trip are behind its edge, and all of them are
\* still to come,
Behind(q) == \A i \in Up(q), k \in Carried(q) : i < k => q[i].trip <= q[k].tag[1]
Coming(q, i, a, A) == a \in A \/ \E k \in Carried(q) : i < k /\ q[k].tag = a

\* but for those in the open window, which has the first ones of its trip.
OpenInv ==
    /\ \A a \in TagsIn(queue) \cup OnTheWay : open <= a[1]
    /\ Awaited(open) =>
          /\ \A k \in 1..Len(tags) : tags[k] = <<open, k>>
          /\ \A n \in 1..seen[open] : n <= Len(tags) \/ <<open, n>> \in TagsIn(queue) \cup OnTheWay

WholeWindow(w) == w.tags = [i \in 1..seen[w.trip] |-> <<w.trip, i>>]

PromptInv ==
    prompt =>
        /\ \A a \in OnTheWay : a[1] = trips
        /\ \A i \in Up(gpiEdges) : seen[gpiEdges[i].trip] = 0
        /\ Behind(queue)
        /\ \A i \in Up(queue) :
              Awaited(queue[i].trip) =>
                  \A n \in 1..seen[queue[i].trip] : Coming(queue, i, <<queue[i].trip, n>>, OnTheWay)
        /\ open # None => OpenInv
        /\ \A i \in 1..Len(out) : out[i].why \in {"settled", "next"} => WholeWindow(out[i])

ContentsInv == Inv /\ ReadsInv /\ TripInv /\ ReleaseInv /\ EndInv /\ PromptInv

-----------------------------------------------------------------------------
(* Queues of tags.                                                         *)

LEMMA Appended ==
    ASSUME NEW S, NEW q \in Seq(S), NEW m \in S
    PROVE  /\ Append(q, m) \in Seq(S) /\ Len(q) \in Nat /\ Len(Append(q, m)) = Len(q) + 1
           /\ Append(q, m)[Len(q) + 1] = m
           /\ \A i \in 1..Len(q) : Append(q, m)[i] = q[i]
OBVIOUS

LEMMA Taken ==
    ASSUME NEW S, NEW q \in Seq(S), q # <<>>
    PROVE  /\ Tail(q) \in Seq(S) /\ Len(q) \in Nat \ {0} /\ Len(Tail(q)) = Len(q) - 1
           /\ Head(q) = q[1] /\ Head(q) \in S
           /\ \A i \in 1..Len(Tail(q)) : i + 1 \in 1..Len(q) /\ Tail(q)[i] = q[i + 1]
           /\ \A i \in 1..Len(q) : i \in Nat \ {0} /\ (i # 1 => i - 1 \in 1..Len(Tail(q)) /\ Tail(q)[i - 1] = q[i])
<1>1. /\ Tail(q) \in Seq(S) /\ Len(q) \in Nat \ {0} /\ Len(Tail(q)) = Len(q) - 1
      /\ Head(q) = q[1] /\ Head(q) \in S
      /\ \A i \in 1..Len(Tail(q)) : i + 1 \in 1..Len(q) /\ Tail(q)[i] = q[i + 1]
    OBVIOUS
<1> DEFINE r == Tail(q)
<1>2. Len(r) = Len(q) - 1 /\ \A i \in 1..Len(r) : r[i] = q[i + 1]
    BY <1>1
<1> HIDE DEF r
<1>3. ASSUME NEW i \in 1..Len(q), i # 1
      PROVE  i - 1 \in 1..Len(r) /\ r[i - 1] = q[i]
    <2>1. i - 1 \in 1..Len(r) /\ (i - 1) + 1 = i
        BY <1>1, <1>2, <1>3
    <2> QED
        BY <1>2, <2>1
<1> QED
    BY <1>1, <1>3 DEF r

\* What is appended is a tag, an end or an edge.
LEMMA AppendItem ==
    ASSUME NEW q \in Seq(Item), NEW x \in Item
    PROVE  LET r == Append(q, x)
           IN  /\ Carried(r) = IF x.kind = "tag" THEN Carried(q) \cup {Len(q) + 1} ELSE Carried(q)
               /\ Ends(r) = IF x.kind \in {"end", "error"} THEN Ends(q) \cup {Len(q) + 1} ELSE Ends(q)
               /\ TagsIn(r) = IF x.kind = "tag" THEN TagsIn(q) \cup {x.tag} ELSE TagsIn(q)
               /\ Carried(q) \subseteq 1..Len(q) /\ Ends(q) \subseteq 1..Len(q)
<1> DEFINE r == Append(q, x)
<1>1. /\ Len(q) \in Nat /\ Len(r) = Len(q) + 1 /\ r[Len(q) + 1] = x
      /\ \A i \in 1..Len(q) : r[i] = q[i]
    BY Appended
<1> HIDE DEF r
<1>2. 1..Len(r) = 1..Len(q) \cup {Len(q) + 1}
    BY <1>1
<1>3. Carried(r) = IF x.kind = "tag" THEN Carried(q) \cup {Len(q) + 1} ELSE Carried(q)
    BY <1>1, <1>2 DEF Carried
<1>4. Ends(r) = IF x.kind \in {"end", "error"} THEN Ends(q) \cup {Len(q) + 1} ELSE Ends(q)
    BY <1>1, <1>2 DEF Ends
<1>5. \A i \in Carried(q) : r[i] = q[i]
    BY <1>1 DEF Carried
<1>6. TagsIn(r) = IF x.kind = "tag" THEN TagsIn(q) \cup {x.tag} ELSE TagsIn(q)
    BY <1>1, <1>3, <1>5 DEF TagsIn
<1> QED
    BY <1>3, <1>4, <1>6 DEF Carried, Ends, r

\* The first item is taken.
LEMMA TailItem ==
    ASSUME NEW q \in Seq(Item), q # <<>>
    PROVE  LET r == Tail(q)
           IN  /\ Head(q) = q[1] /\ Head(q) \in Item
               /\ \A i \in Carried(r) : i \in Nat \ {0} /\ i + 1 \in Carried(q) /\ r[i] = q[i + 1]
               /\ \A i \in Carried(q) : i \in Nat \ {0} /\ (i # 1 => i - 1 \in Carried(r) /\ r[i - 1] = q[i])
               /\ \A i \in Ends(r) : i \in Nat \ {0} /\ i + 1 \in Ends(q)
               /\ \A i \in Ends(q) : i \in Nat \ {0} /\ (i # 1 => i - 1 \in Ends(r))
               /\ (1 \in Carried(q) <=> q[1].kind = "tag")
               /\ (1 \in Ends(q) <=> q[1].kind \in {"end", "error"})
<1> DEFINE r == Tail(q)
<1>1. /\ Len(q) \in Nat \ {0} /\ Head(q) = q[1] /\ Head(q) \in Item
      /\ \A i \in 1..Len(r) : i + 1 \in 1..Len(q) /\ r[i] = q[i + 1]
      /\ \A i \in 1..Len(q) : i \in Nat \ {0} /\ (i # 1 => i - 1 \in 1..Len(r) /\ r[i - 1] = q[i])
    BY Taken
<1> HIDE DEF r
<1>2. \A i \in 1..Len(r) : i \in Nat \ {0} /\ i + 1 \in 1..Len(q) /\ r[i] = q[i + 1]
    BY <1>1
<1>3. 1 \in 1..Len(q)
    BY <1>1
<1>4. /\ \A i \in Carried(r) : i \in Nat \ {0} /\ i + 1 \in Carried(q) /\ r[i] = q[i + 1]
      /\ \A i \in Carried(q) : i \in Nat \ {0} /\ (i # 1 => i - 1 \in Carried(r) /\ r[i - 1] = q[i])
    BY <1>1, <1>2 DEF Carried
<1>5. /\ \A i \in Ends(r) : i \in Nat \ {0} /\ i + 1 \in Ends(q)
      /\ \A i \in Ends(q) : i \in Nat \ {0} /\ (i # 1 => i - 1 \in Ends(r))
    BY <1>1, <1>2 DEF Ends
<1> QED
    BY <1>1, <1>3, <1>4, <1>5 DEF r, Carried, Ends

\* What is left behind is later.
LEMMA TailTags ==
    ASSUME NEW q \in Seq(Item), q # <<>>, RisingTags(q)
    PROVE  LET r == Tail(q)
           IN  /\ TagsIn(r) \subseteq TagsIn(q) /\ RisingTags(r)
               /\ Head(q).kind = "tag" => /\ TagsIn(q) = TagsIn(r) \cup {Head(q).tag}
                                          /\ \A b \in TagsIn(r) : Earlier(Head(q).tag, b)
               /\ Head(q).kind # "tag" => TagsIn(q) = TagsIn(r)
<1> DEFINE r == Tail(q)
<1>1. /\ Head(q) = q[1]
      /\ \A i \in Carried(r) : i \in Nat \ {0} /\ i + 1 \in Carried(q) /\ r[i] = q[i + 1]
      /\ \A i \in Carried(q) : i \in Nat \ {0} /\ (i # 1 => i - 1 \in Carried(r) /\ r[i - 1] = q[i])
      /\ (1 \in Carried(q) <=> q[1].kind = "tag")
    BY TailItem
<1> HIDE DEF r
<1>2. TagsIn(r) \subseteq TagsIn(q)
    BY <1>1 DEF TagsIn
<1>3. RisingTags(r)
    <2>1. \A i, j \in Carried(r) : i < j => i + 1 < j + 1
        BY <1>1
    <2> QED
        BY <1>1, <2>1 DEF RisingTags
<1>4. \A i \in Carried(q) : i = 1 \/ q[i].tag \in TagsIn(r)
    BY <1>1 DEF TagsIn
<1>5. ASSUME Head(q).kind = "tag"
      PROVE  /\ TagsIn(q) = TagsIn(r) \cup {Head(q).tag}
             /\ \A b \in TagsIn(r) : Earlier(Head(q).tag, b)
    <2>1. 1 \in Carried(q) /\ \A i \in Carried(r) : 1 < i + 1
        BY <1>1, <1>5
    <2>2. \A b \in TagsIn(r) : Earlier(Head(q).tag, b)
        BY <1>1, <2>1 DEF TagsIn, RisingTags
    <2>3. Head(q).tag \in TagsIn(q)
        BY <1>1, <2>1 DEF TagsIn
    <2>4. \A a \in TagsIn(q) : a \in TagsIn(r) \cup {Head(q).tag}
        <3>1. \A i \in Carried(q) : q[i].tag \in TagsIn(r) \cup {Head(q).tag}
            BY <1>1, <1>4
        <3> QED
            BY <3>1 DEF TagsIn
    <2> QED
        BY <1>2, <2>2, <2>3, <2>4
<1>6. Head(q).kind # "tag" => TagsIn(q) = TagsIn(r)
    <2>1. ASSUME Head(q).kind # "tag" PROVE \A i \in Carried(q) : q[i].tag \in TagsIn(r)
        BY <1>1, <1>4, <2>1
    <2> QED
        BY <1>2, <2>1 DEF TagsIn
<1> QED
    BY <1>2, <1>3, <1>5, <1>6 DEF r

-----------------------------------------------------------------------------
(* Reads move on in the order in which they were made.                     *)

\* The rest of ReadsInv, when what windows hold is settled.
LEMMA ReadsRest ==
    ASSUME Types, ReadsInv, seen' = seen, trips' \in Nat, trips <= trips',
           NEW H, NEW D, NEW Q, NEW W,
           Handed' = H, Held' = D, TagsIn(queue') = Q, OnTheWay' = W,
           H \cup D \cup Q \cup W \subseteq Handed \cup Held \cup TagsIn(queue) \cup OnTheWay,
           Before(H, D \cup Q \cup W), Before(D, Q \cup W), Before(Q, W),
           Rising(tags'), RisingTags(queue'), Rising(late'),
           \A i, j \in 1..Len(out') : \A k \in 1..Len(out'[i].tags), l \in 1..Len(out'[j].tags) :
              i < j \/ (i = j /\ k < l) => Earlier(out'[i].tags[k], out'[j].tags[l])
    PROVE  ReadsInv'
<1>1. Trips' = Trips /\ \A t \in Trips : t \in Nat /\ (t > trips' => t > trips)
    BY Numbers DEF Trips
<1>2. Made \subseteq Made'
    <2>1. ASSUME NEW a \in Made
          PROVE  a \in Made'
        <3>1. a \in AnyTag /\ a[1] \in 1..trips /\ a[2] \in 1..seen[a[1]]
            BY DEF Made
        <3>2. a[1] \in 1..trips'
            BY <3>1, Numbers
        <3> QED
            BY <3>1, <3>2 DEF Made
    <2> QED
        BY <2>1
<1>3. H \cup D \cup Q \cup W \subseteq Made'
    BY <1>2 DEF ReadsInv
<1>4. \A t \in Trips : seen'[t] <= MaxReads /\ (t > trips' => seen'[t] = 0)
    BY <1>1 DEF ReadsInv
<1> QED
    BY <1>1, <1>3, <1>4 DEF ReadsInv

LEMMA HeldFacts ==
    /\ \A k \in 1..Len(tags) : tags[k] \in Held
    /\ \A k \in 1..Len(late) : late[k] \in OnTheWay
    /\ \A i \in 1..Len(out) : \A k \in 1..Len(out[i].tags) : out[i].tags[k] \in Handed
BY DEF Held, OnTheWay, Handed

\* Reads are lost.
LEMMA ReadsFewer ==
    ASSUME Types, ReadsInv, seen' = seen, trips' \in Nat, trips <= trips', out' = out,
           tags' \in {tags, <<>>}, late' \in {late, <<>>},
           TagsIn(queue') \subseteq TagsIn(queue), RisingTags(queue')
    PROVE  ReadsInv'
<1>1. Handed' = Handed
    BY DEF Handed
<1>2. Held' \subseteq Held /\ Rising(tags')
    <2>1. CASE tags' = tags
        BY <2>1 DEF Held, ReadsInv
    <2>2. CASE tags' = <<>>
        BY <2>2 DEF Held, Rising
    <2> QED
        BY <2>1, <2>2
<1>3. OnTheWay' \subseteq OnTheWay /\ Rising(late')
    <2>1. CASE late' = late
        BY <2>1 DEF OnTheWay, ReadsInv
    <2>2. CASE late' = <<>>
        BY <2>2 DEF OnTheWay, Rising
    <2> QED
        BY <2>1, <2>2
<1>4. /\ Before(Handed, Held \cup TagsIn(queue) \cup OnTheWay)
      /\ Before(Held, TagsIn(queue) \cup OnTheWay)
      /\ Before(TagsIn(queue), OnTheWay)
    BY DEF ReadsInv
<1>5. /\ Before(Handed', Held' \cup TagsIn(queue') \cup OnTheWay')
      /\ Before(Held', TagsIn(queue') \cup OnTheWay')
      /\ Before(TagsIn(queue'), OnTheWay')
    BY <1>1, <1>2, <1>3, <1>4 DEF Before
<1>6. Handed' \cup Held' \cup TagsIn(queue') \cup OnTheWay'
         \subseteq Handed \cup Held \cup TagsIn(queue) \cup OnTheWay
    BY <1>1, <1>2, <1>3
<1>7. \A i, j \in 1..Len(out') : \A k \in 1..Len(out'[i].tags), l \in 1..Len(out'[j].tags) :
          i < j \/ (i = j /\ k < l) => Earlier(out'[i].tags[k], out'[j].tags[l])
    BY DEF ReadsInv
<1> QED
    BY <1>2, <1>3, <1>5, <1>6, <1>7, ReadsRest

\* What happens to the windows when one is handed out.
LEMMA HandedFacts ==
    ASSUME Types, NEW why, out' = Append(out, Window(why))
    PROVE  /\ Len(out) \in Nat /\ Len(out') = Len(out) + 1
           /\ \A i \in 1..Len(out) : out'[i] = out[i]
           /\ \A i \in 1..Len(out') : i \in Nat /\ (i = Len(out) + 1 \/ i \in 1..Len(out))
           /\ out'[Len(out) + 1] = Window(why)
           /\ Window(why).tags = tags /\ Window(why).trip = open /\ Window(why).why = why
           /\ Handed' = Handed \cup Held
<1>1. /\ Len(out) \in Nat /\ Len(out') = Len(out) + 1
      /\ \A i \in 1..Len(out) : out'[i] = out[i]
      /\ out'[Len(out) + 1] = Window(why)
    <2>1. ASSUME NEW S, NEW q \in Seq(S), NEW m
          PROVE  /\ Len(q) \in Nat /\ Len(Append(q, m)) = Len(q) + 1
                 /\ \A i \in 1..Len(q) : Append(q, m)[i] = q[i]
                 /\ Append(q, m)[Len(q) + 1] = m
        OBVIOUS
    <2> QED
        BY <2>1 DEF Types
<1>2. \A i \in 1..Len(out') : i \in Nat /\ (i = Len(out) + 1 \/ i \in 1..Len(out))
    BY <1>1
<1>3. Window(why).tags = tags /\ Window(why).trip = open /\ Window(why).why = why
    BY DEF Window
<1>4. 1..Len(out') = 1..Len(out) \cup {Len(out) + 1}
    BY <1>1
<1>5. Handed' = UNION {{out'[i].tags[k] : k \in 1..Len(out'[i].tags)} : i \in 1..Len(out')}
    BY DEF Handed
<1>6. Handed' = Handed \cup Held
    <2>1. ASSUME NEW a \in Handed
          PROVE  a \in Handed'
        <3>1. PICK i \in 1..Len(out) : \E k \in 1..Len(out[i].tags) : a = out[i].tags[k]
            BY DEF Handed
        <3> QED
            BY <1>1, <1>4, <1>5, <3>1
    <2>2. ASSUME NEW a \in Held
          PROVE  a \in Handed'
        <3>1. PICK k \in 1..Len(tags) : a = tags[k]
            BY DEF Held
        <3>2. Len(out) + 1 \in 1..Len(out')
            BY <1>4
        <3> QED
            BY <1>1, <1>3, <1>5, <3>1, <3>2
    <2>3. ASSUME NEW a \in Handed'
          PROVE  a \in Handed \cup Held
        <3>1. PICK i \in 1..Len(out') : \E k \in 1..Len(out'[i].tags) : a = out'[i].tags[k]
            BY <1>5
        <3>2. CASE i \in 1..Len(out)
            <4>1. \E k \in 1..Len(out[i].tags) : a = out[i].tags[k]
                BY <1>1, <3>1, <3>2
            <4> QED
                BY <3>2, <4>1, HeldFacts
        <3>3. CASE i = Len(out) + 1
            BY <1>1, <1>3, <3>1, <3>3 DEF Held
        <3> QED
            BY <1>2, <3>2, <3>3
    <2> QED
        BY <2>1, <2>2, <2>3
<1> QED
    BY <1>1, <1>2, <1>3, <1>6

\* The open window is handed out.
LEMMA ReadsHanded ==
    ASSUME Types, ReadsInv, seen' = seen, trips' = trips,
           NEW why, out' = Append(out, Window(why)), tags' = <<>>, late' \in {late, <<>>},
           TagsIn(queue') \subseteq TagsIn(queue), RisingTags(queue')
    PROVE  ReadsInv'
<1>1. /\ Len(out) \in Nat /\ Len(out') = Len(out) + 1
      /\ \A i \in 1..Len(out) : out'[i] = out[i]
      /\ \A i \in 1..Len(out') : i \in Nat /\ (i = Len(out) + 1 \/ i \in 1..Len(out))
      /\ out'[Len(out) + 1].tags = tags
      /\ Handed' = Handed \cup Held
    BY HandedFacts
<1>2. Held' = {} /\ Rising(tags')
    BY DEF Held, Rising
<1>3. OnTheWay' \subseteq OnTheWay /\ Rising(late')
    <2>1. CASE late' = late
        BY <2>1 DEF OnTheWay, ReadsInv
    <2>2. CASE late' = <<>>
        BY <2>2 DEF OnTheWay, Rising
    <2> QED
        BY <2>1, <2>2
<1>4. /\ Before(Handed, Held \cup TagsIn(queue) \cup OnTheWay)
      /\ Before(Held, TagsIn(queue) \cup OnTheWay)
      /\ Before(TagsIn(queue), OnTheWay)
    BY DEF ReadsInv
<1>5. /\ Before(Handed', Held' \cup TagsIn(queue') \cup OnTheWay')
      /\ Before(Held', TagsIn(queue') \cup OnTheWay')
      /\ Before(TagsIn(queue'), OnTheWay')
    BY <1>1, <1>2, <1>3, <1>4 DEF Before
<1>6. Handed' \cup Held' \cup TagsIn(queue') \cup OnTheWay'
         \subseteq Handed \cup Held \cup TagsIn(queue) \cup OnTheWay
    BY <1>1, <1>2, <1>3
<1>7. ASSUME NEW i \in 1..Len(out'), NEW j \in 1..Len(out'),
             NEW k \in 1..Len(out'[i].tags), NEW l \in 1..Len(out'[j].tags),
             i < j \/ (i = j /\ k < l)
      PROVE  Earlier(out'[i].tags[k], out'[j].tags[l])
    <2>1. CASE j \in 1..Len(out)
        <3>1. i \in 1..Len(out)
            BY <1>1, <1>7, <2>1
        <3> QED
            BY <1>1, <1>7, <2>1, <3>1 DEF ReadsInv
    <2>2. CASE j = Len(out) + 1 /\ i = Len(out) + 1
        <3>1. k < l
            BY <1>1, <1>7, <2>2
        <3> QED
            BY <1>1, <1>7, <2>2, <3>1 DEF ReadsInv, Rising
    <2>3. CASE j = Len(out) + 1 /\ i \in 1..Len(out)
        <3>1. out'[i].tags[k] \in Handed /\ out'[j].tags[l] \in Held
            BY <1>1, <1>7, <2>3, HeldFacts
        <3> QED
            BY <1>4, <3>1 DEF Before
    <2> QED
        BY <1>1, <2>1, <2>2, <2>3
<1>8. trips' \in Nat /\ trips <= trips'
    BY Numbers
<1> QED
    BY <1>2, <1>3, <1>5, <1>6, <1>7, <1>8, ReadsRest

\* A sequence that rises goes on with what is later.
LEMMA RisingMore ==
    ASSUME NEW s \in Seq(AnyTag), NEW a \in AnyTag, Rising(s),
           \A k \in 1..Len(s) : Earlier(s[k], a)
    PROVE  LET r == Append(s, a)
           IN  Rising(r) /\ {r[k] : k \in 1..Len(r)} = {s[k] : k \in 1..Len(s)} \cup {a}
<1> DEFINE r == Append(s, a)
<1>1. /\ Len(s) \in Nat /\ Len(r) = Len(s) + 1 /\ r[Len(s) + 1] = a
      /\ \A i \in 1..Len(s) : r[i] = s[i]
    BY Appended
<1> HIDE DEF r
<1>2. 1..Len(r) = 1..Len(s) \cup {Len(s) + 1}
    BY <1>1
<1>3. ASSUME NEW i \in 1..Len(r), NEW j \in 1..Len(r), i < j
      PROVE  Earlier(r[i], r[j])
    <2>1. i \in 1..Len(s)
        BY <1>1, <1>2, <1>3
    <2>2. CASE j \in 1..Len(s)
        BY <1>1, <1>3, <2>1, <2>2 DEF Rising
    <2>3. CASE j = Len(s) + 1
        BY <1>1, <2>1, <2>3
    <2> QED
        BY <1>2, <2>2, <2>3
<1>4. {r[k] : k \in 1..Len(r)} = {s[k] : k \in 1..Len(s)} \cup {a}
    BY <1>1, <1>2
<1> QED
    BY <1>3, <1>4 DEF Rising, r

\* The first tag of the queue is put into the open window.
LEMMA ReadsCollected ==
    ASSUME Types, ReadsInv, UNCHANGED <<seen, trips, out, late>>,
           queue # <<>>, queue' = Tail(queue), Head(queue).kind = "tag",
           tags' = Append(tags, Head(queue).tag)
    PROVE  ReadsInv'
<1> DEFINE a == Head(queue).tag
<1>1. /\ queue \in Seq(Item) /\ tags \in Seq(AnyTag) /\ Head(queue) \in Item
      /\ trips' \in Nat /\ trips <= trips'
    BY Taken, Numbers DEF Types
<1>2. /\ TagsIn(queue) = TagsIn(queue') \cup {a} /\ RisingTags(queue')
      /\ \A b \in TagsIn(queue') : Earlier(a, b)
    BY <1>1, TailTags DEF ReadsInv
<1>3. a \in AnyTag
    BY <1>1 DEF Item, Edge
<1> HIDE DEF a
<1>4. /\ Before(Handed, Held \cup TagsIn(queue) \cup OnTheWay)
      /\ Before(Held, TagsIn(queue) \cup OnTheWay)
      /\ Before(TagsIn(queue), OnTheWay)
      /\ Rising(tags) /\ Rising(late)
    BY DEF ReadsInv
<1>5. \A k \in 1..Len(tags) : Earlier(tags[k], a)
    BY <1>2, <1>4, HeldFacts DEF Before
<1>6. Rising(tags') /\ Held' = Held \cup {a}
    BY <1>1, <1>3, <1>4, <1>5, RisingMore DEF Held, a
<1>7. Handed' = Handed /\ OnTheWay' = OnTheWay /\ Rising(late')
    BY <1>4 DEF Handed, OnTheWay
<1>8. /\ Before(Handed', Held' \cup TagsIn(queue') \cup OnTheWay')
      /\ Before(Held', TagsIn(queue') \cup OnTheWay')
      /\ Before(TagsIn(queue'), OnTheWay')
    BY <1>2, <1>4, <1>6, <1>7 DEF Before
<1>9. Handed' \cup Held' \cup TagsIn(queue') \cup OnTheWay'
         \subseteq Handed \cup Held \cup TagsIn(queue) \cup OnTheWay
    BY <1>2, <1>6, <1>7
<1>10. \A i, j \in 1..Len(out') : \A k \in 1..Len(out'[i].tags), l \in 1..Len(out'[j].tags) :
          i < j \/ (i = j /\ k < l) => Earlier(out'[i].tags[k], out'[j].tags[l])
    BY DEF ReadsInv
<1> QED
    BY <1>1, <1>2, <1>6, <1>7, <1>8, <1>9, <1>10, ReadsRest

\* The first read on its way reaches the queue.
LEMMA ReadsPumped ==
    ASSUME Types, ReadsInv, UNCHANGED <<seen, trips, out, tags>>,
           late # <<>>, late' = Tail(late),
           queue' = Append(queue, [kind |-> "tag", tag |-> Head(late)])
    PROVE  ReadsInv'
<1> DEFINE a == Head(late)
           item == [kind |-> "tag", tag |-> a]
<1>1. /\ queue \in Seq(Item) /\ late \in Seq(AnyTag) /\ trips' \in Nat /\ trips <= trips'
    BY Numbers DEF Types
<1>2. /\ a \in AnyTag /\ a = late[1] /\ 1 \in 1..Len(late)
      /\ \A i \in 1..Len(late') : i \in Nat /\ i + 1 \in 1..Len(late) /\ late'[i] = late[i + 1]
      /\ \A i \in 1..Len(late) : i = 1 \/ (i - 1 \in 1..Len(late') /\ late'[i - 1] = late[i])
    BY <1>1, Taken
<1>3. item \in Item /\ item.kind = "tag" /\ item.tag = a
    BY <1>2 DEF Item
<1> HIDE DEF a, item
<1>4. queue' = Append(queue, item)
    BY DEF a, item
<1>5. /\ Before(Handed, Held \cup TagsIn(queue) \cup OnTheWay)
      /\ Before(Held, TagsIn(queue) \cup OnTheWay)
      /\ Before(TagsIn(queue), OnTheWay)
      /\ Rising(tags) /\ Rising(late) /\ RisingTags(queue)
    BY DEF ReadsInv
<1>6. /\ OnTheWay' \subseteq OnTheWay /\ a \in OnTheWay
      /\ \A b \in OnTheWay' : Earlier(a, b)
    <2>1. OnTheWay' = {late'[k] : k \in 1..Len(late')}
        BY DEF OnTheWay
    <2>2. \A i \in 1..Len(late') : late'[i] \in OnTheWay /\ Earlier(a, late'[i])
        <3>1. \A i \in 1..Len(late') : 1 < i + 1
            BY <1>2
        <3> QED
            BY <1>2, <1>5, <3>1, HeldFacts DEF Rising
    <2> QED
        BY <1>2, <2>1, <2>2, HeldFacts
<1>7. Rising(late')
    <2>1. \A i, j \in 1..Len(late') : i < j => i + 1 < j + 1
        BY <1>2
    <2> QED
        BY <1>2, <1>5, <2>1 DEF Rising
<1>8. TagsIn(queue') = TagsIn(queue) \cup {a}
    BY <1>1, <1>3, <1>4, AppendItem
<1>9. RisingTags(queue')
    <2>1. /\ Carried(queue') = Carried(queue) \cup {Len(queue) + 1}
          /\ Carried(queue) \subseteq 1..Len(queue)
          /\ Len(queue) \in Nat /\ queue'[Len(queue) + 1] = item
          /\ \A i \in 1..Len(queue) : queue'[i] = queue[i]
        BY <1>1, <1>3, <1>4, AppendItem, Appended
    <2>2. SUFFICES ASSUME NEW i \in Carried(queue'), NEW j \in Carried(queue'), i < j
                   PROVE  Earlier(queue'[i].tag, queue'[j].tag)
        BY DEF RisingTags
    <2>3. i \in Carried(queue) /\ queue'[i] = queue[i] /\ queue[i].tag \in TagsIn(queue)
        BY <2>1, <2>2 DEF TagsIn
    <2>4. CASE j \in Carried(queue)
        BY <1>5, <2>1, <2>2, <2>3, <2>4 DEF RisingTags
    <2>5. CASE j = Len(queue) + 1
        BY <1>3, <1>5, <1>6, <2>1, <2>3, <2>5 DEF Before
    <2> QED
        BY <2>1, <2>4, <2>5
<1>10. Handed' = Handed /\ Held' = Held /\ Rising(tags')
    BY <1>5 DEF Handed, Held
<1>11. /\ Before(Handed', Held' \cup TagsIn(queue') \cup OnTheWay')
       /\ Before(Held', TagsIn(queue') \cup OnTheWay')
       /\ Before(TagsIn(queue'), OnTheWay')
    BY <1>5, <1>6, <1>8, <1>10 DEF Before
<1>12. Handed' \cup Held' \cup TagsIn(queue') \cup OnTheWay'
          \subseteq Handed \cup Held \cup TagsIn(queue) \cup OnTheWay
    BY <1>6, <1>8, <1>10
<1>13. \A i, j \in 1..Len(out') : \A k \in 1..Len(out'[i].tags), l \in 1..Len(out'[j].tags) :
          i < j \/ (i = j /\ k < l) => Earlier(out'[i].tags[k], out'[j].tags[l])
    BY DEF ReadsInv
<1> QED
    BY <1>1, <1>7, <1>9, <1>10, <1>11, <1>12, <1>13, ReadsRest

\* The next read is later than all others.
LEMMA ReadsMade ==
    ASSUME Types, ReadsInv, UNCHANGED <<trips, out, tags, queue>>, trips # 0,
           seen[trips] < MaxReads, seen' = [seen EXCEPT ![trips] = @ + 1],
           late' = Append(late, <<trips, seen'[trips]>>)
    PROVE  ReadsInv'
<1> DEFINE a == <<trips, seen'[trips]>>
<1>1. /\ trips \in Trips /\ trips \in Nat /\ seen \in [Trips -> Nat] /\ late \in Seq(AnyTag)
      /\ seen'[trips] = seen[trips] + 1 /\ MaxReads \in Nat
      /\ \A t \in Trips : t \in Nat /\ (t # trips => seen'[t] = seen[t])
      /\ seen[trips] \in Nat
    <2>1. /\ trips \in Nat /\ trips <= MaxTrips /\ MaxTrips \in Nat /\ MaxReads \in Nat
          /\ seen \in [Trips -> Nat] /\ late \in Seq(AnyTag)
        BY Numbers, WindowsAssumption DEF Types
    <2>2. trips \in Trips /\ \A t \in Trips : t \in Nat
        BY <2>1 DEF Trips
    <2> QED
        BY <2>1, <2>2
<1>2. a \in AnyTag /\ a[1] = trips /\ a[2] = seen[trips] + 1
    BY <1>1 DEF AnyTag
<1> HIDE DEF a
<1>3. late' = Append(late, a)
    BY DEF a
<1>4. ASSUME NEW b \in Made
      PROVE  Earlier(b, a) /\ b \in Made'
    <2>1. b \in AnyTag /\ b[1] \in 1..trips /\ b[2] \in 1..seen[b[1]]
        BY DEF Made
    <2>2. b[1] \in Trips /\ (b[1] = trips \/ b[1] < trips)
        <3>1. trips <= MaxTrips /\ MaxTrips \in Nat
            BY Numbers
        <3> QED
            BY <1>1, <2>1, <3>1 DEF Trips
    <2>3. CASE b[1] = trips
        <3>1. b[2] \in 1..seen[trips] /\ b[2] < seen[trips] + 1 /\ b[2] \in 1..seen'[trips]
            BY <1>1, <2>1, <2>3
        <3> QED
            BY <1>2, <2>1, <2>3, <3>1 DEF Earlier, Made
    <2>4. CASE b[1] < trips
        <3>1. seen'[b[1]] = seen[b[1]]
            BY <1>1, <2>2, <2>4
        <3> QED
            BY <1>2, <2>1, <2>4, <3>1 DEF Earlier, Made
    <2> QED
        BY <2>2, <2>3, <2>4
<1>5. a \in Made'
    <2>1. trips' = trips /\ trips \in 1..trips /\ seen[trips] + 1 \in 1..seen'[trips]
        BY <1>1 DEF Trips
    <2> QED
        BY <1>2, <2>1 DEF Made
<1>6. /\ Before(Handed, Held \cup TagsIn(queue) \cup OnTheWay)
      /\ Before(Held, TagsIn(queue) \cup OnTheWay)
      /\ Before(TagsIn(queue), OnTheWay)
      /\ Rising(tags) /\ Rising(late) /\ RisingTags(queue)
      /\ Handed \cup Held \cup TagsIn(queue) \cup OnTheWay \subseteq Made
    BY DEF ReadsInv
<1>7. \A k \in 1..Len(late) : Earlier(late[k], a)
    BY <1>4, <1>6, HeldFacts
<1>8. Rising(late') /\ OnTheWay' = OnTheWay \cup {a}
    <2>1. late \in Seq(AnyTag) /\ a \in AnyTag /\ Rising(late)
        BY <1>1, <1>2, <1>6
    <2> DEFINE r == Append(late, a)
    <2>2. /\ Rising(r)
          /\ {r[k] : k \in 1..Len(r)} = {late[k] : k \in 1..Len(late)} \cup {a}
        BY <1>7, <2>1, RisingMore
    <2>3. late' = r
        BY <1>3
    <2> HIDE DEF r
    <2> QED
        BY <2>2, <2>3 DEF OnTheWay
<1>9. Handed' = Handed /\ Held' = Held /\ TagsIn(queue') = TagsIn(queue)
    BY DEF Handed, Held
<1>10. /\ Before(Handed, Held \cup TagsIn(queue) \cup OnTheWay')
       /\ Before(Held, TagsIn(queue) \cup OnTheWay')
       /\ Before(TagsIn(queue), OnTheWay')
    BY <1>4, <1>6, <1>8 DEF Before
<1>11. Handed \cup Held \cup TagsIn(queue) \cup OnTheWay' \subseteq Made'
    BY <1>4, <1>5, <1>6, <1>8
<1>12. \A t \in Trips : seen'[t] <= MaxReads /\ (t > trips' => seen'[t] = 0)
    <2>1. \A t \in Trips : seen[t] <= MaxReads /\ (t > trips => seen[t] = 0)
        BY DEF ReadsInv
    <2> QED
        BY <1>1, <2>1
<1>13. Trips' = Trips /\ Rising(tags') /\ RisingTags(queue')
    BY <1>6 DEF Trips
<1>14. \A i, j \in 1..Len(out') : \A k \in 1..Len(out'[i].tags), l \in 1..Len(out'[j].tags) :
          i < j \/ (i = j /\ k < l) => Earlier(out'[i].tags[k], out'[j].tags[l])
    BY DEF ReadsInv
<1> QED
    BY <1>8, <1>9, <1>10, <1>11, <1>12, <1>13, <1>14 DEF ReadsInv

-----------------------------------------------------------------------------
(* What a step does to the reads and the edges.                            *)

\* A step of the line, of which the reader may report an edge.
Lines(kind) ==
    LET e == [kind |-> kind, trip |-> trips'] IN
    /\ e \in Edge /\ e \in Item
    /\ \/ UNCHANGED <<queue, gpiEdges>>
       \/ phase = "off" /\ gpiEdges' = Offer(gpiEdges, e, QueueSize) /\ UNCHANGED queue
       \/ phase # "off" /\ queue' = Append(queue, e) /\ UNCHANGED gpiEdges
    /\ UNCHANGED <<prompt, seen, late, phase, open, settling, tags, out>>

Begins ==
    /\ ~line /\ line' = TRUE /\ trips < MaxTrips /\ trips' = trips + 1
    /\ prompt => late = <<>>
    /\ active' = (phase = "armed")
    /\ base' = IF phase \in {"armed", "ended"} THEN base ELSE trips'
    /\ Lines("up")

Stops ==
    /\ line' = FALSE /\ active' = FALSE /\ UNCHANGED <<trips, base>>
    /\ Lines("down")

Rests ==
    /\ phase' = phase \/ (phase = "setup" /\ phase' = "armed")
    /\ UNCHANGED <<line, trips, active, prompt, seen, late, gpiEdges, queue, open, settling, tags, out, base>>

Starts ==
    /\ phase = "off" /\ phase' = "setup" /\ queue' = gpiEdges /\ gpiEdges' = <<>>
    /\ UNCHANGED <<line, trips, active, prompt, seen, late, open, settling, tags, out, base>>

Finishes ==
    /\ phase \in {"setup", "armed"} /\ phase' = "ended" /\ active' = FALSE /\ late' = <<>>
    /\ queue' = Append(queue, EndItem) \/ queue' = Append(Append(queue, ErrorItem), EndItem)
    /\ UNCHANGED <<line, trips, prompt, seen, gpiEdges, open, settling, tags, out, base>>

Leaves ==
    /\ phase # "off" /\ phase' = "off" /\ queue' = <<>> /\ late' = <<>>
    /\ open' = None /\ settling' = FALSE /\ tags' = <<>> /\ active' = FALSE /\ base' = trips
    /\ out' = out \/ (open # None /\ out' = Append(out, Window("ended")))
    /\ UNCHANGED <<line, trips, prompt, seen, gpiEdges>>

\* The first item of the queue is folded.
Folds ==
    /\ queue # <<>> /\ queue' = Tail(queue) /\ phase # "off"
    /\ UNCHANGED <<line, trips, active, prompt, seen, late, gpiEdges, phase, base>>

Opens ==
    /\ Folds /\ Head(queue).kind = "up" /\ open' = Head(queue).trip
    /\ open = None /\ UNCHANGED <<settling, tags, out>>

Follows ==
    /\ Folds /\ Head(queue).kind = "up" /\ open' = Head(queue).trip
    /\ open # None /\ settling /\ settling' = FALSE /\ tags' = <<>>
    /\ out' = Append(out, Window("next"))

Releases ==
    /\ Folds /\ Head(queue).kind = "down" /\ settling' = (open # None)
    /\ UNCHANGED <<open, tags, out>>

Collects ==
    /\ Folds /\ Head(queue).kind = "tag" /\ UNCHANGED <<open, settling, out>>
    /\ tags' = IF open # None THEN Append(tags, Head(queue).tag) ELSE tags

Closes(why) ==
    /\ queue = <<>> /\ open # None /\ phase # "off"
    /\ out' = Append(out, Window(why)) /\ open' = None /\ settling' = FALSE /\ tags' = <<>>
    /\ why \in {"settled", "forced"}
    /\ why = "settled" => settling /\ (prompt => late = <<>>)
    /\ UNCHANGED <<line, trips, active, prompt, seen, late, gpiEdges, phase, queue, base>>

LEMMA Reported ==
    ASSUME Types, NEW kind \in {"up", "down"}, Report(kind), trips' \in Nat,
           UNCHANGED <<prompt, seen, late, phase, open, settling, tags, out>>
    PROVE  Lines(kind)
<1> DEFINE e == [kind |-> kind, trip |-> trips']
<1>1. e \in Edge /\ e \in Item
    BY DEF Edge, Item
<1>2. \/ UNCHANGED <<queue, gpiEdges>>
      \/ phase = "off" /\ gpiEdges' = Offer(gpiEdges, e, QueueSize) /\ UNCHANGED queue
      \/ phase # "off" /\ queue' = Append(queue, e) /\ UNCHANGED gpiEdges
    BY DEF Report
<1> QED
    BY <1>1, <1>2 DEF Lines

LEMMA FoldForms ==
    ASSUME Inv, Fold
    PROVE  Opens \/ Follows \/ Releases \/ Collects
<1>1. Types /\ queue # <<>> /\ queue \in Seq(Item)
    BY DEF Inv, Types, Fold
<1>2. Folds
    <2>1. phase # "off"
        BY <1>1 DEF Inv, CallInv
    <2> QED
        BY <2>1 DEF Fold, Folds, reader
<1>3. CASE Head(queue).kind = "up" /\ Opened(Head(queue))
    <2>1. ~Apart(queue)
        <3>1. Ordered(queue)
            BY DEF Inv, EdgeInv
        <3> QED
            BY <1>1, <1>3, <3>1, TailUp
    <2>2. open = None \/ settling
        BY <2>1 DEF Inv, EdgeInv
    <2> QED
        BY <1>2, <1>3, <2>2 DEF Opened, Opens, Follows
<1>4. CASE Head(queue).kind = "down" /\ Released(Head(queue))
    BY <1>2, <1>4 DEF Released, Releases
<1>5. CASE Head(queue).kind = "tag" /\ Collected(Head(queue))
    BY <1>2, <1>5 DEF Collected, Collects
<1> QED
    BY <1>3, <1>4, <1>5 DEF Fold

LEMMA StepForms ==
    ASSUME Inv, [Next]_wvars
    PROVE  \/ Begins \/ Stops \/ Rests \/ Starts \/ Finishes \/ Leaves
           \/ Opens \/ Follows \/ Releases \/ Collects \/ (\E why : Closes(why))
           \/ ReadTag \/ PumpRead
<1>1. Types /\ trips \in Nat /\ trips + 1 \in Nat
    BY Numbers DEF Inv
<1>2. CASE TripBegins
    <2>1. Report("up") /\ trips' = trips + 1 /\ UNCHANGED <<prompt, seen, late, phase, open, settling, tags, out>>
        BY <1>2 DEF TripBegins, assembler
    <2>2. Lines("up")
        BY <1>1, <2>1, Reported
    <2> QED
        BY <1>2, <2>2 DEF TripBegins, Begins
<1>3. CASE TripEnds
    <2>1. Report("down") /\ trips' = trips /\ UNCHANGED <<prompt, seen, late, phase, open, settling, tags, out>>
        BY <1>3 DEF TripEnds, assembler
    <2>2. Lines("down")
        BY <1>1, <2>1, Reported
    <2> QED
        BY <1>3, <2>2 DEF TripEnds, Stops
<1>4. CASE Reconnect \/ Arm \/ UNCHANGED wvars
    BY <1>4 DEF Reconnect, Arm, wvars, reader, assembler, Rests
<1>5. CASE Call
    BY <1>5 DEF Call, Backlog, Starts, reader, assembler
<1>6. ASSUME phase \in {"setup", "armed"},
             InventoryEnds(<<EndItem>>) \/ InventoryEnds(<<ErrorItem, EndItem>>)
      PROVE  Finishes
    <2>1. queue \in Seq(Item) /\ EndItem \in Item /\ ErrorItem \in Item
        BY <1>1 DEF Types, EndItem, ErrorItem, Item
    <2>2. queue' = queue \o <<EndItem>> \/ queue' = queue \o <<ErrorItem, EndItem>>
        BY <1>6 DEF InventoryEnds
    <2>3. queue' = Append(queue, EndItem) \/ queue' = Append(Append(queue, ErrorItem), EndItem)
        BY <2>1, <2>2
    <2> QED
        BY <1>6, <2>3 DEF InventoryEnds, Finishes, assembler
<1>7. CASE Finish \/ Refused
    BY <1>6, <1>7 DEF Finish, Refused
<1>8. CASE Lose
    BY <1>6, <1>8 DEF Lose, Rests, reader, assembler
<1>9. CASE Stop
    BY <1>9 DEF Stop, Leave, Leaves
<1>10. CASE Fold
    BY <1>10, FoldForms
<1>11. CASE FoldEnd
    <2>1. phase # "off"
        BY <1>11 DEF FoldEnd, Inv, CallInv
    <2> QED
        BY <1>11, <2>1 DEF FoldEnd, Leave, Leaves
<1>12. CASE GraceOver
    <2>1. open # None
        BY <1>12 DEF GraceOver, Inv, CallInv
    <2>2. Closes("settled")
        BY <1>12, <2>1 DEF GraceOver, Close, Closes, reader
    <2> QED
        BY <2>2
<1>13. CASE ForceClose
    <2>1. Closes("forced")
        BY <1>13 DEF ForceClose, Close, Closes, reader
    <2> QED
        BY <2>1
<1> QED
    BY <1>2, <1>3, <1>4, <1>5, <1>7, <1>8, <1>9, <1>10, <1>11, <1>12, <1>13
    DEF Next, Line, Calling, Assemble

-----------------------------------------------------------------------------
(* Each step keeps the order of the reads.                                 *)

\* What is no tag may always follow.
LEMMA OtherTags ==
    ASSUME NEW q \in Seq(Item), NEW x \in Item, x.kind # "tag"
    PROVE  LET r == Append(q, x)
           IN  /\ r \in Seq(Item) /\ Carried(r) = Carried(q) /\ TagsIn(r) = TagsIn(q)
               /\ RisingTags(q) => RisingTags(r)
<1> DEFINE r == Append(q, x)
<1>1. /\ r \in Seq(Item) /\ Carried(r) = Carried(q) /\ TagsIn(r) = TagsIn(q)
      /\ \A i \in Carried(q) : r[i] = q[i]
    BY Appended, AppendItem
<1> HIDE DEF r
<1>2. RisingTags(q) => RisingTags(r)
    BY <1>1 DEF RisingTags
<1> QED
    BY <1>1, <1>2 DEF r

\* A queue of edges holds nothing else, and neither does an empty one.
LEMMA EdgesOnly ==
    ASSUME NEW q \in Seq(Edge)
    PROVE  /\ q \in Seq(Item) /\ Carried(q) = {} /\ TagsIn(q) = {} /\ Ends(q) = {}
           /\ RisingTags(q)
<1>1. \A i \in 1..Len(q) : q[i] \in Edge
    OBVIOUS
<1>2. Carried(q) = {} /\ Ends(q) = {}
    BY <1>1 DEF Carried, Ends, Edge
<1>3. q \in Seq(Item)
    BY DEF Item
<1> QED
    BY <1>2, <1>3 DEF TagsIn, RisingTags

LEMMA EmptyTags == <<>> \in Seq(Edge) /\ Carried(<<>>) = {} /\ TagsIn(<<>>) = {} /\ Ends(<<>>) = {} /\ RisingTags(<<>>)
<1>1. <<>> \in Seq(Edge)
    OBVIOUS
<1> QED
    BY <1>1, EdgesOnly

\* The items that end a queue.
LEMMA EndItems ==
    /\ EndItem \in Item /\ EndItem.kind = "end"
    /\ ErrorItem \in Item /\ ErrorItem.kind = "error"
BY DEF EndItem, ErrorItem, Item

LEMMA FinishedQueue ==
    ASSUME NEW q \in Seq(Item), NEW r,
           r = Append(q, EndItem) \/ r = Append(Append(q, ErrorItem), EndItem)
    PROVE  r \in Seq(Item) /\ Carried(r) = Carried(q) /\ TagsIn(r) = TagsIn(q)
           /\ (RisingTags(q) => RisingTags(r))
<1>1. CASE r = Append(q, EndItem)
    BY <1>1, EndItems, OtherTags
<1>2. CASE r = Append(Append(q, ErrorItem), EndItem)
    <2> DEFINE p == Append(q, ErrorItem)
    <2>1. p \in Seq(Item) /\ Carried(p) = Carried(q) /\ TagsIn(p) = TagsIn(q) /\ (RisingTags(q) => RisingTags(p))
        BY EndItems, OtherTags
    <2>2. r = Append(p, EndItem)
        BY <1>2
    <2> HIDE DEF p
    <2> QED
        BY <2>1, <2>2, EndItems, OtherTags
<1> QED
    BY <1>1, <1>2

\* The queue after a step of the line.
LEMMA LinesTags ==
    ASSUME Types, RisingTags(queue), NEW kind \in {"up", "down"}, Lines(kind)
    PROVE  TagsIn(queue') = TagsIn(queue) /\ RisingTags(queue')
<1>1. CASE queue' = queue
    BY <1>1
<1>2. ASSUME NEW e \in Item, e.kind = kind, queue' = Append(queue, e)
      PROVE  TagsIn(queue') = TagsIn(queue) /\ RisingTags(queue')
    <2>1. queue \in Seq(Item) /\ e.kind # "tag"
        BY <1>2 DEF Types
    <2> QED
        BY <1>2, <2>1, OtherTags
<1> QED
    BY <1>1, <1>2 DEF Lines

LEMMA FoldsTags ==
    ASSUME Types, RisingTags(queue), Folds
    PROVE  TagsIn(queue') \subseteq TagsIn(queue) /\ RisingTags(queue')
<1>1. queue \in Seq(Item)
    BY DEF Types
<1> QED
    BY <1>1, TailTags DEF Folds

LEMMA ReadsStep ==
    ASSUME Inv, ReadsInv, [Next]_wvars
    PROVE  ReadsInv'
<1>1. /\ Types /\ trips \in Nat /\ RisingTags(queue) /\ queue \in Seq(Item)
      /\ gpiEdges \in Seq(Edge)
    BY Numbers DEF Inv, Types, ReadsInv
<1>2. CASE Begins
    <2>1. TagsIn(queue') = TagsIn(queue) /\ RisingTags(queue')
        BY <1>1, <1>2, LinesTags DEF Begins
    <2>2. seen' = seen /\ trips' \in Nat /\ trips <= trips' /\ out' = out /\ tags' = tags /\ late' = late
        BY <1>1, <1>2 DEF Begins, Lines
    <2> QED
        BY <1>1, <2>1, <2>2, ReadsFewer
<1>3. CASE Stops
    <2>1. TagsIn(queue') = TagsIn(queue) /\ RisingTags(queue')
        BY <1>1, <1>3, LinesTags DEF Stops
    <2>2. seen' = seen /\ trips' \in Nat /\ trips <= trips' /\ out' = out /\ tags' = tags /\ late' = late
        BY <1>1, <1>3 DEF Stops, Lines
    <2> QED
        BY <1>1, <2>1, <2>2, ReadsFewer
<1>4. CASE Rests
    BY <1>1, <1>4, ReadsFewer DEF Rests
<1>5. CASE Starts
    <2>1. TagsIn(queue') = {} /\ RisingTags(queue')
        BY <1>1, <1>5, EdgesOnly DEF Starts
    <2> QED
        BY <1>1, <1>5, <2>1, ReadsFewer DEF Starts
<1>6. CASE Finishes
    <2>1. TagsIn(queue') = TagsIn(queue) /\ RisingTags(queue')
        BY <1>1, <1>6, FinishedQueue DEF Finishes
    <2> QED
        BY <1>1, <1>6, <2>1, ReadsFewer DEF Finishes
<1>7. CASE Leaves
    <2>1. TagsIn(queue') = {} /\ RisingTags(queue')
        BY <1>7, EmptyTags DEF Leaves
    <2>2. CASE out' = out
        BY <1>1, <1>7, <2>1, <2>2, ReadsFewer DEF Leaves
    <2>3. CASE out' = Append(out, Window("ended"))
        BY <1>1, <1>7, <2>1, <2>3, ReadsHanded DEF Leaves
    <2> QED
        BY <1>7, <2>2, <2>3 DEF Leaves
<1>8. CASE Opens \/ Releases
    <2>1. TagsIn(queue') \subseteq TagsIn(queue) /\ RisingTags(queue')
        BY <1>1, <1>8, FoldsTags DEF Opens, Releases
    <2>2. seen' = seen /\ trips' = trips /\ out' = out /\ tags' = tags /\ late' = late
        BY <1>8 DEF Opens, Releases, Folds
    <2> QED
        BY <1>1, <2>1, <2>2, ReadsFewer
<1>9. CASE Follows
    <2>1. TagsIn(queue') \subseteq TagsIn(queue) /\ RisingTags(queue')
        BY <1>1, <1>9, FoldsTags DEF Follows
    <2>2. seen' = seen /\ trips' = trips /\ out' = Append(out, Window("next")) /\ tags' = <<>> /\ late' = late
        BY <1>9 DEF Follows, Folds
    <2> QED
        BY <1>1, <2>1, <2>2, ReadsHanded
<1>10. CASE Collects
    <2>1. CASE open # None
        BY <1>1, <1>10, <2>1, ReadsCollected DEF Collects, Folds
    <2>2. CASE open = None
        <3>1. TagsIn(queue') \subseteq TagsIn(queue) /\ RisingTags(queue')
            BY <1>1, <1>10, FoldsTags DEF Collects
        <3>2. seen' = seen /\ trips' = trips /\ out' = out /\ tags' = tags /\ late' = late
            BY <1>10, <2>2 DEF Collects, Folds
        <3> QED
            BY <1>1, <3>1, <3>2, ReadsFewer
    <2> QED
        BY <2>1, <2>2
<1>11. ASSUME NEW why, Closes(why) PROVE ReadsInv'
    BY <1>1, <1>11, ReadsHanded DEF Closes
<1>12. CASE ReadTag
    <2>1. trips # 0
        BY <1>1, <1>12 DEF ReadTag, Types
    <2> QED
        BY <1>1, <1>12, <2>1, ReadsMade DEF ReadTag, assembler
<1>13. CASE PumpRead
    BY <1>1, <1>13, ReadsPumped DEF PumpRead, reader, assembler
<1> QED
    BY <1>2, <1>3, <1>4, <1>5, <1>6, <1>7, <1>8, <1>9, <1>10, <1>11, <1>12, <1>13, StepForms

-----------------------------------------------------------------------------
(* Edges come before the reads of their trips.                             *)

\* What the types say of the items of a queue.
LEMMA ItemTypes ==
    ASSUME NEW q \in Seq(Item)
    PROVE  /\ \A i \in Up(q) \cup Down(q) : q[i].trip \in Nat /\ i \in 1..Len(q) /\ i \in Nat
           /\ \A k \in Carried(q) : /\ k \in 1..Len(q) /\ k \in Nat
                                    /\ q[k].tag \in AnyTag /\ q[k].tag[1] \in Nat /\ q[k].tag[2] \in Nat
           /\ \A e \in Ends(q) : e \in 1..Len(q) /\ e \in Nat
           /\ Len(q) \in Nat
<1>1. Len(q) \in Nat /\ \A i \in 1..Len(q) : i \in Nat /\ q[i] \in Item
    OBVIOUS
<1>2. \A i \in Up(q) \cup Down(q) : q[i].trip \in Nat /\ i \in 1..Len(q)
    BY <1>1 DEF Up, Down, Item, Edge
<1>3. \A k \in Carried(q) : k \in 1..Len(q) /\ q[k].tag \in AnyTag
    BY <1>1 DEF Carried, Item, Edge
<1>4. \A a \in AnyTag : a[1] \in Nat /\ a[2] \in Nat
    BY DEF AnyTag
<1> QED
    BY <1>1, <1>2, <1>3, <1>4 DEF Ends

LEMMA EdgedMore ==
    ASSUME NEW q \in Seq(Item), NEW x \in Item, NEW m \in Nat, Edged(q, m),
           x.kind = "tag" => Announced(x.tag[1], q, m)
    PROVE  LET r == Append(q, x)
           IN  Edged(r, m) /\ \A n : Announced(n, q, m) => Announced(n, r, m)
<1> DEFINE r == Append(q, x)
           last == Len(q) + 1
<1>1. /\ Len(q) \in Nat /\ r[last] = x /\ \A i \in 1..Len(q) : r[i] = q[i]
      /\ Up(q) \subseteq Up(r) /\ Up(q) \subseteq 1..Len(q) /\ Carried(q) \subseteq 1..Len(q)
      /\ Carried(r) = IF x.kind = "tag" THEN Carried(q) \cup {last} ELSE Carried(q)
    BY AppendEdges, AppendItem
<1> HIDE DEF r
<1>2. \A i \in Up(q) : i < last /\ r[i] = q[i] /\ i \in Up(r)
    BY <1>1
<1> HIDE DEF last
<1>3. \A n : Announced(n, q, m) => Announced(n, r, m)
    BY <1>2 DEF Announced
<1>4. \A k \in Carried(q) : r[k].tag[1] <= m \/ \E i \in Up(r) : i < k /\ r[k].tag[1] <= r[i].trip
    BY <1>1, <1>2 DEF Edged
<1>5. ASSUME x.kind = "tag"
      PROVE  r[last].tag[1] <= m \/ \E i \in Up(r) : i < last /\ r[last].tag[1] <= r[i].trip
    BY <1>1, <1>2, <1>5 DEF Announced
<1>6. Edged(r, m)
    BY <1>1, <1>4, <1>5 DEF Edged
<1> QED
    BY <1>3, <1>6 DEF r

LEMMA EdgedTail ==
    ASSUME NEW q \in Seq(Item), q # <<>>, NEW m \in Nat, NEW m1 \in Nat, m <= m1,
           Edged(q, m), Head(q).kind = "up" => Head(q).trip <= m1
    PROVE  LET r == Tail(q)
           IN  Edged(r, m1) /\ \A n \in Nat : Announced(n, q, m) => Announced(n, r, m1)
<1> DEFINE r == Tail(q)
<1>1. /\ Head(q) = q[1]
      /\ \A i \in Up(q) : i \in Nat \ {0} /\ (i # 1 => i - 1 \in Up(r) /\ r[i - 1] = q[i])
      /\ (1 \in Up(q) <=> q[1].kind = "up")
      /\ \A k \in Carried(r) : k \in Nat \ {0} /\ k + 1 \in Carried(q) /\ r[k] = q[k + 1]
    BY TailEdges, TailItem
<1>2. \A i \in Up(q) : q[i].trip \in Nat
    BY ItemTypes
<1>3. \A k \in Carried(q) : q[k].tag[1] \in Nat
    BY ItemTypes
<1> HIDE DEF r
<1>4. ASSUME NEW n \in Nat, Announced(n, q, m) PROVE Announced(n, r, m1)
    <2>1. CASE n <= m
        BY <2>1 DEF Announced
    <2>2. ASSUME NEW i \in Up(q), n <= q[i].trip PROVE Announced(n, r, m1)
        <3>1. CASE i = 1
            BY <1>1, <1>2, <2>2, <3>1 DEF Announced
        <3>2. CASE i # 1
            BY <1>1, <2>2, <3>2 DEF Announced
        <3> QED
            BY <3>1, <3>2
    <2> QED
        BY <1>4, <2>1, <2>2 DEF Announced
<1>5. ASSUME NEW k \in Carried(r)
      PROVE  r[k].tag[1] <= m1 \/ \E i \in Up(r) : i < k /\ r[k].tag[1] <= r[i].trip
    <2>1. k + 1 \in Carried(q) /\ r[k] = q[k + 1] /\ k \in Nat \ {0} /\ r[k].tag[1] \in Nat
        BY <1>1, <1>3
    <2>2. CASE r[k].tag[1] <= m
        BY <2>1, <2>2
    <2>3. ASSUME NEW i \in Up(q), i < k + 1, r[k].tag[1] <= q[i].trip
          PROVE  r[k].tag[1] <= m1 \/ \E j \in Up(r) : j < k /\ r[k].tag[1] <= r[j].trip
        <3>1. CASE i = 1
            BY <1>1, <1>2, <2>1, <2>3, <3>1
        <3>2. CASE i # 1
            <4>1. i - 1 \in Up(r) /\ i - 1 < k /\ r[i - 1] = q[i]
                BY <1>1, <2>1, <2>3, <3>2
            <4> QED
                BY <2>3, <4>1
        <3> QED
            BY <3>1, <3>2
    <2> QED
        BY <2>1, <2>2, <2>3 DEF Edged
<1>6. Edged(r, m1)
    BY <1>5 DEF Edged
<1> QED
    BY <1>4, <1>6 DEF r

LEMMA EdgedNone ==
    ASSUME NEW q, Carried(q) = {}, NEW m
    PROVE  Edged(q, m)
BY DEF Edged

\* The trip whose edge was folded last.
LEMMA FoldedFacts ==
    ASSUME Inv
    PROVE  /\ Types /\ Folded \in Nat /\ LastTrip \in Nat /\ open \in Nat /\ trips \in Nat
           /\ open <= trips
           /\ (open # None => LastTrip < open /\ Folded = open)
           /\ (open = None => Folded = LastTrip)
           /\ queue \in Seq(Item)
<1>1. Types /\ queue \in Seq(Item) /\ (open # None => LastTrip < open)
    BY DEF Inv, Types, EdgeInv
<1> QED
    BY <1>1, Numbers DEF Folded

\* The rest of TripInv.
LEMMA TripRest ==
    ASSUME Types, TripInv, active' => base' < trips', open' = None => tags' = <<>>,
           out' = out \/ \E why : out' = Append(out, Window(why)),
           \A a \in Held' : a[1] <= open',
           Edged(queue', Folded'), \A a \in OnTheWay' : Announced(a[1], queue', Folded')
    PROVE  TripInv'
<1>1. CASE out' = out
    BY <1>1 DEF TripInv
<1>2. ASSUME NEW why, out' = Append(out, Window(why)) PROVE TripInv'
    <2>1. /\ \A i \in 1..Len(out) : out'[i] = out[i]
          /\ \A i \in 1..Len(out') : i = Len(out) + 1 \/ i \in 1..Len(out)
          /\ out'[Len(out) + 1].tags = tags /\ out'[Len(out) + 1].trip = open
        BY <1>2, HandedFacts
    <2>2. \A k \in 1..Len(tags) : tags[k][1] <= open
        BY HeldFacts DEF TripInv
    <2>3. \A i \in 1..Len(out') : \A k \in 1..Len(out'[i].tags) : out'[i].tags[k][1] <= out'[i].trip
        BY <2>1, <2>2 DEF TripInv
    <2> QED
        BY <2>3 DEF TripInv
<1> QED
    BY <1>1, <1>2

\* What is no fold leaves the trip that was folded last.
LEMMA FoldedStays ==
    ASSUME UNCHANGED <<out, open>>
    PROVE  Folded' = Folded /\ LastTrip' = LastTrip
BY DEF Folded, LastTrip

LEMMA TripLines ==
    ASSUME Inv, TripInv, NEW kind \in {"up", "down"}, Lines(kind), UNCHANGED out,
           active' => base' < trips'
    PROVE  TripInv'
<1>1. /\ queue \in Seq(Item) /\ Folded \in Nat /\ Types
      /\ Edged(queue, Folded) /\ \A a \in OnTheWay : Announced(a[1], queue, Folded)
    BY FoldedFacts DEF TripInv
<1>2. /\ Folded' = Folded /\ Held' = Held /\ OnTheWay' = OnTheWay /\ out' = out
      /\ open' = open /\ tags' = tags
    BY FoldedStays DEF Lines, Held, OnTheWay
<1>3. Edged(queue', Folded) /\ \A n : Announced(n, queue, Folded) => Announced(n, queue', Folded)
    <2>1. CASE queue' = queue
        BY <1>1, <2>1
    <2>2. ASSUME NEW e \in Item, e.kind = kind, queue' = Append(queue, e)
          PROVE  Edged(queue', Folded) /\ \A n : Announced(n, queue, Folded) => Announced(n, queue', Folded)
        BY <1>1, <2>2, EdgedMore
    <2> QED
        BY <2>1, <2>2 DEF Lines
<1>4. (open' = None => tags' = <<>>) /\ \A a \in Held' : a[1] <= open'
    BY <1>2 DEF TripInv
<1>5. Edged(queue', Folded') /\ \A a \in OnTheWay' : Announced(a[1], queue', Folded')
    BY <1>1, <1>2, <1>3
<1> QED
    BY <1>1, <1>2, <1>4, <1>5, TripRest

\* What an item that is folded leaves behind.
LEMMA TripFolds ==
    ASSUME Inv, TripInv, Folds, Folded' \in Nat, Folded <= Folded',
           Head(queue).kind = "up" => Head(queue).trip <= Folded'
    PROVE  /\ Edged(queue', Folded')
           /\ \A a \in OnTheWay' : Announced(a[1], queue', Folded')
           /\ (active' => base' < trips')
<1>1. /\ queue \in Seq(Item) /\ Folded \in Nat /\ Types
      /\ Edged(queue, Folded) /\ \A a \in OnTheWay : Announced(a[1], queue, Folded)
    BY FoldedFacts DEF TripInv
<1>2. queue # <<>> /\ queue' = Tail(queue) /\ OnTheWay' = OnTheWay
    BY DEF Folds, OnTheWay
<1>3. \A a \in OnTheWay : a[1] \in Nat
    <2>1. late \in Seq(AnyTag)
        BY <1>1 DEF Types
    <2> QED
        BY <2>1 DEF OnTheWay, AnyTag
<1>4. Edged(queue', Folded') /\ \A n \in Nat : Announced(n, queue, Folded) => Announced(n, queue', Folded')
    BY <1>1, <1>2, EdgedTail
<1>5. active' => base' < trips'
    BY DEF Folds, TripInv
<1> QED
    BY <1>1, <1>2, <1>3, <1>4, <1>5

LEMMA TripFollows ==
    ASSUME Inv, TripInv, Opens \/ Follows
    PROVE  TripInv'
<1>1. /\ Types /\ Folded \in Nat /\ LastTrip \in Nat /\ open \in Nat
      /\ (open # None => LastTrip < open /\ Folded = open) /\ (open = None => Folded = LastTrip)
      /\ queue \in Seq(Item) /\ Ordered(queue)
    BY FoldedFacts DEF Inv, EdgeInv
<1>2. /\ Folds /\ queue # <<>> /\ Head(queue).kind = "up" /\ open' = Head(queue).trip /\ tags' = <<>>
      /\ out' = out \/ \E why : out' = Append(out, Window(why))
    BY DEF Opens, Follows, Folds, TripInv
<1>3. Head(queue).trip \in Nat /\ LastTrip < Head(queue).trip /\ open < Head(queue).trip
    <2>1. After(queue, LastTrip, trips) /\ After(queue, open, trips)
        BY DEF Inv, EdgeInv
    <2> QED
        BY <1>1, <1>2, <2>1, TailUp
<1>4. Folded' = open' /\ Folded' \in Nat /\ Folded <= Folded'
    <2>1. open' # None
        BY <1>1, <1>2, <1>3 DEF None
    <2>2. Folded' = open'
        BY <2>1 DEF Folded
    <2> QED
        BY <1>1, <1>2, <1>3, <2>2
<1>5. Head(queue).trip <= Folded'
    BY <1>2, <1>3, <1>4
<1>6. Held' = {}
    BY <1>2 DEF Held
<1>7. /\ Edged(queue', Folded') /\ \A a \in OnTheWay' : Announced(a[1], queue', Folded')
      /\ (active' => base' < trips')
    BY <1>2, <1>4, <1>5, TripFolds
<1> QED
    BY <1>1, <1>2, <1>6, <1>7, TripRest

LEMMA TripCollects ==
    ASSUME Inv, TripInv, Collects
    PROVE  TripInv'
<1>1. /\ Types /\ Folded \in Nat /\ open \in Nat
      /\ (open # None => LastTrip < open /\ Folded = open) /\ (open = None => Folded = LastTrip)
      /\ queue \in Seq(Item) /\ Edged(queue, Folded) /\ tags \in Seq(AnyTag)
    BY FoldedFacts DEF TripInv, Types
<1>2. /\ Folds /\ queue # <<>> /\ Head(queue).kind = "tag" /\ out' = out /\ open' = open
      /\ tags' = IF open # None THEN Append(tags, Head(queue).tag) ELSE tags
    BY DEF Collects, Folds
<1>3. Folded' = Folded
    BY <1>2, FoldedStays
<1>4. /\ Edged(queue', Folded') /\ \A a \in OnTheWay' : Announced(a[1], queue', Folded')
      /\ (active' => base' < trips')
    BY <1>1, <1>2, <1>3, TripFolds
<1>5. open' = None => tags' = <<>>
    BY <1>2 DEF TripInv
<1>6. ASSUME open # None PROVE \A a \in Held' : a[1] <= open'
    <2> DEFINE a == Head(queue).tag
               r == Append(tags, a)
    <2>1. 1 \in Carried(queue) /\ queue[1] = Head(queue) /\ \A i \in Up(queue) : ~(i < 1)
        <3>1. \A i \in Up(queue) : i \in Nat \ {0}
            BY <1>1, ItemTypes DEF Up
        <3> QED
            BY <1>1, <1>2, <3>1, TailItem
    <2>2. a[1] <= open /\ a \in AnyTag
        BY <1>1, <1>6, <2>1, ItemTypes DEF Edged
    <2>3. /\ Len(r) = Len(tags) + 1 /\ r[Len(tags) + 1] = a /\ Len(tags) \in Nat
          /\ \A k \in 1..Len(tags) : r[k] = tags[k]
        BY <1>1, <2>2, Appended
    <2>4. tags' = r
        BY <1>2, <1>6
    <2>5. \A k \in 1..Len(tags) : tags[k][1] <= open
        BY HeldFacts DEF TripInv
    <2> HIDE DEF r, a
    <2>6. \A k \in 1..Len(r) : r[k][1] <= open
        BY <2>2, <2>3, <2>5
    <2> QED
        BY <1>2, <2>4, <2>6 DEF Held
<1>7. CASE open = None
    <2>1. Held' = Held
        BY <1>2, <1>7 DEF Held
    <2> QED
        BY <1>1, <1>2, <1>4, <1>5, <2>1, TripRest DEF TripInv
<1>8. CASE open # None
    BY <1>1, <1>2, <1>4, <1>5, <1>6, <1>8, TripRest
<1> QED
    BY <1>7, <1>8

\* No call is there any more, or nothing waits.
LEMMA TripEmpty ==
    ASSUME Inv, TripInv, open' = None, tags' = <<>>, queue' = <<>>,
           out' = out \/ \E why : out' = Append(out, Window(why)),
           active' => base' < trips', \A a \in OnTheWay' : Announced(a[1], queue', Folded')
    PROVE  TripInv'
<1>1. Types /\ Held' = {} /\ Edged(queue', Folded')
    BY FoldedFacts, EmptyTags, EdgedNone DEF Held
<1> QED
    BY <1>1, TripRest

LEMMA TripStep ==
    ASSUME Inv, TripInv, [Next]_wvars
    PROVE  TripInv'
<1>1. /\ Types /\ Folded \in Nat /\ open \in Nat /\ trips \in Nat /\ open <= trips
      /\ (open # None => LastTrip < open /\ Folded = open) /\ (open = None => Folded = LastTrip)
      /\ queue \in Seq(Item) /\ base \in Nat /\ base <= trips
    BY FoldedFacts, Numbers
<1>2. /\ Edged(queue, Folded) /\ \A a \in OnTheWay : Announced(a[1], queue, Folded)
      /\ (active => base < trips)
    BY DEF TripInv
<1>3. CASE Begins
    <2>1. ASSUME active' PROVE base' < trips'
        <3>1. phase = "armed"
            BY <1>3, <2>1 DEF Begins
        <3>2. base' = base /\ trips' = trips + 1
            BY <1>3, <3>1 DEF Begins
        <3> QED
            BY <1>1, <3>2
    <2> QED
        BY <1>3, <2>1, TripLines DEF Begins, Lines
<1>4. CASE Stops
    <2>1. active' => base' < trips'
        BY <1>4 DEF Stops
    <2> QED
        BY <1>4, <2>1, TripLines DEF Stops, Lines
<1>5. CASE Rests
    <2>1. UNCHANGED <<active, base, trips, open, tags, queue, out, late>>
        BY <1>5 DEF Rests
    <2>2. Held' = Held /\ OnTheWay' = OnTheWay /\ Folded' = Folded
        BY <2>1, FoldedStays DEF Held, OnTheWay
    <2> QED
        BY <2>1, <2>2 DEF TripInv
<1>6. CASE Starts
    <2>1. UNCHANGED <<active, base, trips, open, tags, out, late>> /\ queue' = gpiEdges /\ phase = "off"
        BY <1>6 DEF Starts
    <2>2. late = <<>>
        BY <2>1 DEF Inv, CallInv
    <2>3. Held' = Held /\ OnTheWay' = {}
        BY <2>1, <2>2 DEF Held, OnTheWay
    <2>4. Edged(queue', Folded')
        <3>1. gpiEdges \in Seq(Edge)
            BY <1>1 DEF Types
        <3> QED
            BY <2>1, <3>1, EdgesOnly, EdgedNone
    <2>5. active' => base' < trips'
        BY <1>2, <2>1
    <2> QED
        BY <1>1, <2>1, <2>3, <2>4, <2>5, TripRest DEF TripInv
<1>7. CASE Finishes
    <2>1. UNCHANGED <<open, tags, out>> /\ late' = <<>> /\ ~active'
        BY <1>7 DEF Finishes
    <2>2. Held' = Held /\ OnTheWay' = {} /\ Folded' = Folded
        BY <2>1, FoldedStays DEF Held, OnTheWay
    <2>3. Edged(queue', Folded)
        <3>1. CASE queue' = Append(queue, EndItem)
            BY <1>1, <1>2, <3>1, EndItems, EdgedMore
        <3>2. CASE queue' = Append(Append(queue, ErrorItem), EndItem)
            <4> DEFINE p == Append(queue, ErrorItem)
            <4>1. p \in Seq(Item) /\ Edged(p, Folded)
                BY <1>1, <1>2, EndItems, EdgedMore, Appended
            <4>2. queue' = Append(p, EndItem)
                BY <3>2
            <4> HIDE DEF p
            <4> QED
                BY <1>1, <4>1, <4>2, EndItems, EdgedMore
        <3> QED
            BY <1>7, <3>1, <3>2 DEF Finishes
    <2> QED
        BY <1>1, <2>1, <2>2, <2>3, TripRest DEF TripInv
<1>8. CASE Leaves
    <2>1. OnTheWay' = {} /\ open' = None /\ tags' = <<>> /\ queue' = <<>> /\ ~active'
        BY <1>8 DEF Leaves, OnTheWay
    <2>2. out' = out \/ \E why : out' = Append(out, Window(why))
        BY <1>8 DEF Leaves
    <2> QED
        BY <2>1, <2>2, TripEmpty
<1>9. CASE Opens \/ Follows
    BY <1>9, TripFollows
<1>10. CASE Releases
    <2>1. UNCHANGED <<open, tags, out>> /\ Folds /\ Head(queue).kind = "down"
        BY <1>10 DEF Releases
    <2>2. Held' = Held /\ Folded' = Folded
        BY <2>1, FoldedStays DEF Held
    <2>3. /\ Edged(queue', Folded') /\ \A a \in OnTheWay' : Announced(a[1], queue', Folded')
          /\ (active' => base' < trips')
        BY <1>1, <2>1, <2>2, TripFolds
    <2> QED
        BY <1>1, <2>1, <2>2, <2>3, TripRest DEF TripInv
<1>11. CASE Collects
    BY <1>11, TripCollects
<1>12. ASSUME NEW why, Closes(why) PROVE TripInv'
    <2>1. /\ queue = <<>> /\ queue' = queue /\ open # None /\ late' = late /\ UNCHANGED <<active, base, trips>>
          /\ out' = Append(out, Window(why)) /\ open' = None /\ tags' = <<>> /\ why \in Why
        BY <1>12 DEF Closes, Why
    <2>2. Folded' = Folded
        <3>1. LastTrip' = open
            BY <1>1, <2>1, WindowHanded
        <3> QED
            BY <1>1, <2>1, <3>1 DEF Folded
    <2>3. OnTheWay' = OnTheWay
        BY <2>1 DEF OnTheWay
    <2>4. (active' => base' < trips') /\ queue' = <<>>
          /\ \A a \in OnTheWay' : Announced(a[1], queue', Folded')
        BY <1>2, <2>1, <2>2, <2>3
    <2> QED
        BY <2>1, <2>4, TripEmpty
<1>13. CASE ReadTag
    <2> DEFINE a == <<trips, seen'[trips]>>
               r == Append(late, a)
    <2>1. UNCHANGED <<active, base, trips, open, tags, out, queue>> /\ active /\ late' = r
        BY <1>13 DEF ReadTag, assembler
    <2>2. Announced(trips, queue, Folded)
        <3>1. phase = "armed" /\ enabled /\ trips \in (base + 1)..trips
            BY <1>1, <1>2, <2>1 DEF Inv, CallInv
        <3>2. trips <= LastTrip \/ trips = open \/ trips \in TripsIn(queue)
            BY <3>1 DEF Inv, CoverInv
        <3>3. CASE trips <= LastTrip \/ trips = open
            <4>1. LastTrip \in Nat
                BY FoldedFacts
            <4> QED
                BY <1>1, <3>3, <4>1 DEF Announced, None
        <3>4. CASE trips \in TripsIn(queue)
            BY <1>1, <3>4 DEF Announced, TripsIn
        <3> QED
            BY <3>2, <3>3, <3>4
    <2>3. /\ Len(r) = Len(late) + 1 /\ r[Len(late) + 1] = a /\ a[1] = trips /\ Len(late) \in Nat
          /\ \A k \in 1..Len(late) : r[k] = late[k]
        <3>1. late \in Seq(AnyTag)
            BY <1>1 DEF Types
        <3>2. ASSUME NEW S, NEW q \in Seq(S), NEW m
              PROVE  /\ Len(q) \in Nat /\ Len(Append(q, m)) = Len(q) + 1
                     /\ \A i \in 1..Len(q) : Append(q, m)[i] = q[i]
                     /\ Append(q, m)[Len(q) + 1] = m
            OBVIOUS
        <3> QED
            BY <3>1, <3>2
    <2> HIDE DEF r, a
    <2>4. \A k \in 1..Len(r) : Announced(r[k][1], queue, Folded)
        BY <1>2, <2>2, <2>3, HeldFacts
    <2>5. Held' = Held /\ Folded' = Folded /\ OnTheWay' = {r[k] : k \in 1..Len(r)}
        BY <2>1, FoldedStays DEF Held, OnTheWay
    <2> QED
        BY <2>1, <2>4, <2>5 DEF TripInv
<1>14. CASE PumpRead
    <2> DEFINE a == Head(late)
               x == [kind |-> "tag", tag |-> a]
    <2>1. /\ UNCHANGED <<active, base, trips, open, tags, out>>
          /\ late # <<>> /\ late' = Tail(late) /\ queue' = Append(queue, x)
        BY <1>14 DEF PumpRead, reader, assembler
    <2>2. /\ a \in AnyTag /\ a = late[1] /\ 1 \in 1..Len(late)
          /\ \A i \in 1..Len(late') : i + 1 \in 1..Len(late) /\ late'[i] = late[i + 1]
        <3>1. late \in Seq(AnyTag)
            BY <1>1 DEF Types
        <3> QED
            BY <2>1, <3>1, Taken
    <2>3. x \in Item /\ x.kind = "tag" /\ x.tag = a
        BY <2>2 DEF Item
    <2> HIDE DEF x, a
    <2>4. a \in OnTheWay /\ OnTheWay' \subseteq OnTheWay
        BY <2>2, HeldFacts DEF OnTheWay
    <2>5. Edged(queue', Folded) /\ \A n : Announced(n, queue, Folded) => Announced(n, queue', Folded)
        BY <1>1, <1>2, <2>1, <2>3, <2>4, EdgedMore
    <2>6. Held' = Held /\ Folded' = Folded
        BY <2>1, FoldedStays DEF Held
    <2>7. Edged(queue', Folded') /\ \A b \in OnTheWay' : Announced(b[1], queue', Folded')
        BY <1>2, <2>4, <2>5, <2>6
    <2> QED
        BY <1>1, <2>1, <2>6, <2>7, TripRest DEF TripInv
<1> QED
    BY <1>3, <1>4, <1>5, <1>6, <1>7, <1>8, <1>9, <1>10, <1>11, <1>12, <1>13, <1>14, StepForms

-----------------------------------------------------------------------------
(* Releases come in turn.                                                  *)

LEMMA DownMore ==
    ASSUME NEW q \in Seq(Item), NEW x \in Item, InTurn(q),
           x.kind = "down" => \A i \in Up(q) : q[i].trip <= x.trip
    PROVE  LET r == Append(q, x)
           IN  /\ InTurn(r)
               /\ DownTrips(r) = IF x.kind = "down" THEN DownTrips(q) \cup {x.trip} ELSE DownTrips(q)
<1> DEFINE r == Append(q, x)
           last == Len(q) + 1
<1>1. /\ Len(q) \in Nat /\ r[last] = x /\ \A i \in 1..Len(q) : r[i] = q[i]
      /\ Up(q) \subseteq 1..Len(q) /\ Down(q) \subseteq 1..Len(q)
      /\ Up(r) = IF x.kind = "up" THEN Up(q) \cup {last} ELSE Up(q)
      /\ Down(r) = IF x.kind = "down" THEN Down(q) \cup {last} ELSE Down(q)
    BY AppendEdges
<1> HIDE DEF r
<1>2. /\ \A i \in Up(q) : ~(last < i) /\ r[i] = q[i]
      /\ \A k \in Down(q) : ~(last < k) /\ r[k] = q[k] /\ ~(last < last)
    BY <1>1
<1>3. ~(last < last)
    BY <1>1
<1> HIDE DEF last
<1>4. DownTrips(r) = IF x.kind = "down" THEN DownTrips(q) \cup {x.trip} ELSE DownTrips(q)
    BY <1>1, <1>2 DEF DownTrips
<1>5. InTurn(r)
    BY <1>1, <1>2, <1>3 DEF InTurn
<1> QED
    BY <1>4, <1>5 DEF r

LEMMA DownTail ==
    ASSUME NEW q \in Seq(Item), q # <<>>, InTurn(q)
    PROVE  LET r == Tail(q)
           IN  /\ InTurn(r) /\ DownTrips(r) \subseteq DownTrips(q)
               /\ Head(q).kind = "down" => Head(q).trip \in DownTrips(q)
               /\ Head(q).kind = "up" => \A n \in DownTrips(r) : Head(q).trip <= n
<1> DEFINE r == Tail(q)
<1>1. /\ Head(q) = q[1]
      /\ \A i \in Up(r) : i \in Nat \ {0} /\ i + 1 \in Up(q) /\ r[i] = q[i + 1]
      /\ \A k \in Down(r) : k \in Nat \ {0} /\ k + 1 \in Down(q)
      /\ (1 \in Up(q) <=> q[1].kind = "up") /\ (1 \in Down(q) <=> q[1].kind = "down")
    BY TailEdges
<1>2. \A k \in Down(r) : r[k] = q[k + 1]
    BY Taken DEF Down
<1> HIDE DEF r
<1>3. DownTrips(r) \subseteq DownTrips(q)
    BY <1>1, <1>2 DEF DownTrips
<1>4. InTurn(r)
    <2>1. \A i \in Up(r), k \in Down(r) : i < k => i + 1 < k + 1
        BY <1>1
    <2> QED
        BY <1>1, <1>2, <2>1 DEF InTurn
<1>5. Head(q).kind = "down" => Head(q).trip \in DownTrips(q)
    BY <1>1 DEF DownTrips
<1>6. ASSUME Head(q).kind = "up" PROVE \A n \in DownTrips(r) : Head(q).trip <= n
    <2>1. \A k \in Down(r) : 1 < k + 1
        BY <1>1
    <2> QED
        BY <1>1, <1>2, <1>6, <2>1 DEF InTurn, DownTrips
<1> QED
    BY <1>3, <1>4, <1>5, <1>6 DEF r

LEMMA NoDowns == Down(<<>>) = {} /\ DownTrips(<<>>) = {} /\ InTurn(<<>>)
<1>1. Down(<<>>) = {} /\ Up(<<>>) = {}
    BY DEF Down, Up
<1> QED
    BY <1>1 DEF DownTrips, InTurn

\* The rest of ReleaseInv.
LEMMA ReleaseRest ==
    ASSUME Types, ReleaseInv, active' => line', InTurn(queue'), InTurn(gpiEdges'),
           trips' \in Nat, trips <= trips',
           \A n \in DownTrips(queue') \cup DownTrips(gpiEdges') : n <= trips' /\ Over(n)',
           \A n \in DownTrips(queue') : open' <= n, settling' => Over(open)',
           \A n \in 0..trips : Over(n) => Over(n)',
           \/ out' = out
           \/ open # None /\ \E why : out' = Append(out, Window(why)) /\ (why \in {"settled", "next"} => Over(open))
    PROVE  ReleaseInv'
<1>1. trips \in Nat /\ open \in Nat /\ open <= trips
    BY Numbers
<1>2. ASSUME NEW n \in 1..trips
      PROVE  n \in 1..trips' /\ (Over(n) => n < trips' \/ ~line')
    <2>1. n \in 0..trips /\ n \in 1..trips'
        BY <1>1
    <2>2. Over(n) => Over(n)'
        BY <2>1
    <2> QED
        BY <2>1, <2>2 DEF Over
<1>3. ASSUME NEW w, w.trip \in 1..trips, w.why \in {"settled", "next"} => Over(w.trip)
      PROVE  w.trip \in 1..trips' /\ (w.why \in {"settled", "next"} => w.trip < trips' \/ ~line')
    <2> DEFINE n == w.trip
    <2>1. n \in 1..trips /\ (w.why \in {"settled", "next"} => Over(n))
        BY <1>3
    <2> HIDE DEF n
    <2>2. n \in 1..trips' /\ (w.why \in {"settled", "next"} => n < trips' \/ ~line')
        BY <1>2, <2>1
    <2> QED
        BY <2>2 DEF n
<1>4. \A i \in 1..Len(out) : /\ out[i].trip \in 1..trips'
                             /\ out[i].why \in {"settled", "next"} => out[i].trip < trips' \/ ~line'
    BY <1>3 DEF ReleaseInv
<1>5. \A i \in 1..Len(out') : /\ out'[i].trip \in 1..trips'
                              /\ out'[i].why \in {"settled", "next"} => out'[i].trip < trips' \/ ~line'
    <2>1. CASE out' = out
        BY <1>4, <2>1
    <2>2. ASSUME NEW why, out' = Append(out, Window(why)), open # None,
                 why \in {"settled", "next"} => Over(open)
          PROVE  \A i \in 1..Len(out') :
                    /\ out'[i].trip \in 1..trips'
                    /\ out'[i].why \in {"settled", "next"} => out'[i].trip < trips' \/ ~line'
        <3>1. /\ \A i \in 1..Len(out) : out'[i] = out[i]
              /\ \A i \in 1..Len(out') : i = Len(out) + 1 \/ i \in 1..Len(out)
              /\ out'[Len(out) + 1] = Window(why) /\ Window(why).trip = open /\ Window(why).why = why
            BY <2>2, HandedFacts
        <3> DEFINE w == Window(why)
        <3>2. open \in 1..trips
            BY <1>1, <2>2 DEF None
        <3>3. w.trip \in 1..trips /\ (w.why \in {"settled", "next"} => Over(w.trip))
            BY <2>2, <3>1, <3>2
        <3> HIDE DEF w
        <3>4. w.trip \in 1..trips' /\ (w.why \in {"settled", "next"} => w.trip < trips' \/ ~line')
            BY <1>3, <3>3
        <3>5. out'[Len(out) + 1] = w
            BY <3>1 DEF w
        <3> QED
            BY <1>4, <3>1, <3>4, <3>5
    <2> QED
        BY <2>1, <2>2
<1>6. /\ InTurn(queue') /\ InTurn(gpiEdges') /\ (active' => line')
      /\ \A n \in DownTrips(queue') \cup DownTrips(gpiEdges') : n <= trips' /\ (n < trips' \/ ~line')
      /\ \A n \in DownTrips(queue') : open' <= n
      /\ (settling' => open' < trips' \/ ~line')
    BY DEF Over
<1> QED
    BY <1>5, <1>6 DEF ReleaseInv, Over

\* A step of the line: the edge it reports is the last in the queue it reaches.
LEMMA LinesQueues ==
    ASSUME Types, NEW kind \in {"up", "down"}, Lines(kind)
    PROVE  \E e \in Item :
              /\ e.kind = kind /\ e.trip = trips'
              /\ queue' \in {queue, Append(queue, e)}
              /\ \/ gpiEdges' \in {gpiEdges, Append(gpiEdges, e)}
                 \/ gpiEdges # <<>> /\ gpiEdges' = Append(Tail(gpiEdges), e)
<1>1. PICK e \in Edge :
         /\ e \in Item /\ e.kind = kind /\ e.trip = trips'
         /\ \/ UNCHANGED <<queue, gpiEdges>>
            \/ phase = "off" /\ gpiEdges' = Offer(gpiEdges, e, QueueSize) /\ UNCHANGED queue
            \/ phase # "off" /\ queue' = Append(queue, e) /\ UNCHANGED gpiEdges
    <2> DEFINE e == [kind |-> kind, trip |-> trips']
    <2>1. e.kind = kind /\ e.trip = trips'
        OBVIOUS
    <2> QED
        BY <2>1 DEF Lines
<1>2. gpiEdges \in Seq(Edge)
    BY DEF Types
<1>3. \/ Offer(gpiEdges, e, QueueSize) = Append(gpiEdges, e)
      \/ gpiEdges # <<>> /\ Offer(gpiEdges, e, QueueSize) = Append(Tail(gpiEdges), e)
    BY <1>2, OfferEdges
<1> QED
    BY <1>1, <1>3

LEMMA ReleaseLines ==
    ASSUME Inv, ReleaseInv, NEW kind \in {"up", "down"}, Lines(kind), UNCHANGED out,
           active' => line', trips' \in Nat, trips <= trips',
           \A n \in 0..trips : Over(n) => Over(n)',
           kind = "down" => trips' = trips /\ ~line'
    PROVE  ReleaseInv'
<1>1. /\ Types /\ queue \in Seq(Item) /\ gpiEdges \in Seq(Item) /\ trips \in Nat /\ open \in Nat
      /\ open <= trips /\ open' = open /\ settling' = settling
    BY Numbers, EdgesOnly DEF Inv, Types, Lines
<1>2. PICK e \in Item :
         /\ e.kind = kind /\ e.trip = trips'
         /\ queue' \in {queue, Append(queue, e)}
         /\ \/ gpiEdges' \in {gpiEdges, Append(gpiEdges, e)}
            \/ gpiEdges # <<>> /\ gpiEdges' = Append(Tail(gpiEdges), e)
    BY <1>1, LinesQueues
<1>3. /\ InTurn(queue) /\ InTurn(gpiEdges)
      /\ After(queue, LastTrip, trips) /\ After(gpiEdges, LastTrip, trips) /\ Ordered(gpiEdges)
    BY DEF ReleaseInv, Inv, EdgeInv
<1>4. ASSUME NEW q \in Seq(Item), InTurn(q), After(q, LastTrip, trips)
      PROVE  /\ InTurn(Append(q, e))
             /\ DownTrips(Append(q, e)) = IF kind = "down" THEN DownTrips(q) \cup {trips} ELSE DownTrips(q)
    <2>1. e.kind = "down" => e.trip = trips /\ \A i \in Up(q) : q[i].trip <= e.trip
        BY <1>2, <1>4 DEF After
    <2> QED
        BY <1>2, <1>4, <2>1, DownMore
<1>5. /\ InTurn(queue')
      /\ DownTrips(queue') \subseteq IF kind = "down" THEN DownTrips(queue) \cup {trips} ELSE DownTrips(queue)
    BY <1>1, <1>2, <1>3, <1>4
<1>6. /\ InTurn(gpiEdges')
      /\ DownTrips(gpiEdges') \subseteq IF kind = "down" THEN DownTrips(gpiEdges) \cup {trips} ELSE DownTrips(gpiEdges)
    <2>1. CASE gpiEdges' \in {gpiEdges, Append(gpiEdges, e)}
        BY <1>1, <1>3, <1>4, <2>1
    <2>2. CASE gpiEdges # <<>> /\ gpiEdges' = Append(Tail(gpiEdges), e)
        <3> DEFINE r == Tail(gpiEdges)
        <3>1. r \in Seq(Item) /\ InTurn(r) /\ DownTrips(r) \subseteq DownTrips(gpiEdges) /\ After(r, LastTrip, trips)
            BY <1>1, <1>3, <2>2, DownTail, TailKeeps
        <3>2. gpiEdges' = Append(r, e)
            BY <2>2
        <3> HIDE DEF r
        <3> QED
            BY <1>4, <3>1, <3>2
    <2> QED
        BY <1>2, <2>1, <2>2
<1>7. ASSUME NEW n \in DownTrips(queue) \cup DownTrips(gpiEdges)
      PROVE  n <= trips' /\ Over(n)'
    <2>1. n <= trips /\ Over(n)
        BY DEF ReleaseInv
    <2>2. n \in Nat
        BY <1>1, ItemTypes DEF DownTrips
    <2>3. n \in 0..trips
        BY <1>1, <2>1, <2>2
    <2> QED
        BY <1>1, <2>1, <2>2, <2>3
<1>8. kind = "down" => trips <= trips' /\ (trips < trips' \/ ~line')
    BY <1>1
<1>9. \A n \in DownTrips(queue') \cup DownTrips(gpiEdges') : n <= trips' /\ Over(n)'
    BY <1>5, <1>6, <1>7, <1>8 DEF Over
<1>10. \A n \in DownTrips(queue') : open' <= n
    BY <1>1, <1>5 DEF ReleaseInv
<1>11. ASSUME settling' PROVE open' < trips' \/ ~line'
    <2>1. Over(open) /\ open \in 0..trips
        BY <1>1, <1>11 DEF ReleaseInv
    <2> DEFINE n == open
    <2>2. n \in 0..trips /\ Over(n)
        BY <2>1
    <2> HIDE DEF n
    <2>3. n < trips' \/ ~line'
        BY <2>2 DEF Over
    <2> QED
        BY <1>1, <2>3 DEF n
<1>12. (settling => Over(open))'
    BY <1>11 DEF Over
<1>13. out' = out
    OBVIOUS
<1> QED
    BY <1>1, <1>5, <1>6, <1>9, <1>10, <1>12, <1>13, ReleaseRest

\* Between two steps of the line.
LEMMA ReleaseQuiet ==
    ASSUME Types, ReleaseInv, UNCHANGED <<trips, line>>, active' => active,
           InTurn(queue'), InTurn(gpiEdges'),
           DownTrips(queue') \cup DownTrips(gpiEdges') \subseteq DownTrips(queue) \cup DownTrips(gpiEdges),
           \A n \in DownTrips(queue') : open' <= n, settling' => open' < trips \/ ~line,
           \/ out' = out
           \/ open # None /\ \E why : out' = Append(out, Window(why)) /\ (why \in {"settled", "next"} => Over(open))
    PROVE  ReleaseInv'
<1>1. trips' \in Nat /\ trips <= trips'
    BY Numbers
<1>2. \A n : Over(n) => Over(n)'
    BY DEF Over
<1>3. (settling => Over(open))'
    BY DEF Over
<1>4. \A n \in DownTrips(queue) \cup DownTrips(gpiEdges) : n <= trips /\ Over(n)
    BY DEF ReleaseInv
<1>5. \A n \in DownTrips(queue') \cup DownTrips(gpiEdges') : n <= trips' /\ Over(n)'
    BY <1>2, <1>4
<1>6. active' => line'
    BY DEF ReleaseInv
<1> QED
    BY <1>1, <1>2, <1>3, <1>5, <1>6, ReleaseRest

LEMMA ReleaseStep ==
    ASSUME Inv, ReleaseInv, [Next]_wvars
    PROVE  ReleaseInv'
<1>1. /\ Types /\ trips \in Nat /\ open \in Nat /\ open <= trips
      /\ queue \in Seq(Item) /\ gpiEdges \in Seq(Item) /\ gpiEdges \in Seq(Edge)
      /\ InTurn(queue) /\ InTurn(gpiEdges) /\ (active => line)
      /\ (settling => Over(open)) /\ \A n \in DownTrips(queue) : open <= n
    BY Numbers, EdgesOnly DEF Inv, Types, ReleaseInv
<1>2. CASE Begins
    <2>1. ~line /\ line' = TRUE /\ trips' = trips + 1 /\ Lines("up") /\ out' = out
        BY <1>2 DEF Begins, Lines
    <2>2. trips' \in Nat /\ trips <= trips' /\ \A n \in 0..trips : n < trips'
        BY <1>1, <2>1
    <2>3. \A n \in 0..trips : Over(n) => Over(n)'
        BY <2>2 DEF Over
    <2>4. active' => line'
        BY <2>1
    <2> QED
        BY <2>1, <2>2, <2>3, <2>4, ReleaseLines
<1>3. CASE Stops
    <2>1. ~line' /\ ~active' /\ trips' = trips /\ Lines("down") /\ out' = out
        BY <1>3 DEF Stops, Lines
    <2>2. trips' \in Nat /\ trips <= trips' /\ \A n \in 0..trips : Over(n) => Over(n)'
        BY <1>1, <2>1 DEF Over
    <2> QED
        BY <2>1, <2>2, ReleaseLines
<1>4. CASE Rests
    <2>1. UNCHANGED <<line, trips, active, gpiEdges, queue, open, settling, out>>
        BY <1>4 DEF Rests
    <2> QED
        BY <1>1, <2>1, ReleaseQuiet DEF Over
<1>5. CASE Starts
    <2>1. /\ UNCHANGED <<line, trips, active, open, settling, out>>
          /\ queue' = gpiEdges /\ gpiEdges' = <<>> /\ phase = "off"
        BY <1>5 DEF Starts
    <2>2. open = None
        BY <2>1 DEF Inv, CallInv
    <2>3. \A n \in DownTrips(queue') : open' <= n
        <3>1. \A n \in DownTrips(gpiEdges) : n \in Nat
            BY <1>1, ItemTypes DEF DownTrips
        <3> QED
            BY <2>1, <2>2, <3>1 DEF None
    <2> QED
        BY <1>1, <2>1, <2>3, NoDowns, ReleaseQuiet DEF Over
<1>6. CASE Finishes
    <2>1. UNCHANGED <<line, trips, open, settling, out, gpiEdges>> /\ ~active'
        BY <1>6 DEF Finishes
    <2>2. InTurn(queue') /\ DownTrips(queue') = DownTrips(queue)
        <3>1. CASE queue' = Append(queue, EndItem)
            BY <1>1, <3>1, EndItems, DownMore
        <3>2. CASE queue' = Append(Append(queue, ErrorItem), EndItem)
            <4> DEFINE p == Append(queue, ErrorItem)
            <4>1. p \in Seq(Item) /\ InTurn(p) /\ DownTrips(p) = DownTrips(queue)
                BY <1>1, EndItems, DownMore, Appended
            <4>2. queue' = Append(p, EndItem)
                BY <3>2
            <4> HIDE DEF p
            <4> QED
                BY <4>1, <4>2, EndItems, DownMore
        <3> QED
            BY <1>6, <3>1, <3>2 DEF Finishes
    <2> QED
        BY <1>1, <2>1, <2>2, ReleaseQuiet DEF Over
<1>7. CASE Leaves
    <2>1. UNCHANGED <<line, trips, gpiEdges>> /\ ~active' /\ queue' = <<>> /\ ~settling'
        BY <1>7 DEF Leaves
    <2>2. \/ out' = out
          \/ open # None /\ \E why : out' = Append(out, Window(why)) /\ (why \in {"settled", "next"} => Over(open))
        BY <1>7 DEF Leaves
    <2>3. DownTrips(queue') = {} /\ InTurn(queue')
        BY <2>1, NoDowns
    <2> QED
        BY <1>1, <2>1, <2>2, <2>3, ReleaseQuiet
<1>8. ASSUME Folds
      PROVE  /\ UNCHANGED <<line, trips, active, gpiEdges>>
             /\ InTurn(queue') /\ DownTrips(queue') \subseteq DownTrips(queue)
             /\ DownTrips(queue') \cup DownTrips(gpiEdges') \subseteq DownTrips(queue) \cup DownTrips(gpiEdges)
             /\ (Head(queue).kind = "down" => Head(queue).trip \in DownTrips(queue))
             /\ (Head(queue).kind = "up" => \A n \in DownTrips(queue') : Head(queue).trip <= n)
    <2>1. UNCHANGED <<line, trips, active, gpiEdges>> /\ queue # <<>> /\ queue' = Tail(queue)
        BY <1>8 DEF Folds
    <2> QED
        BY <1>1, <2>1, DownTail
<1>9. CASE Opens
    <2>1. Folds /\ Head(queue).kind = "up" /\ open' = Head(queue).trip /\ open = None /\ UNCHANGED <<settling, out>>
        BY <1>9 DEF Opens
    <2>2. ~settling
        BY <2>1 DEF Inv, CallInv
    <2> QED
        BY <1>1, <1>8, <2>1, <2>2, ReleaseQuiet
<1>10. CASE Follows
    <2>1. /\ Folds /\ Head(queue).kind = "up" /\ open' = Head(queue).trip
          /\ open # None /\ settling /\ settling' = FALSE /\ out' = Append(out, Window("next"))
        BY <1>10 DEF Follows
    <2>2. ~settling'
        BY <2>1
    <2> QED
        BY <1>1, <1>8, <2>1, <2>2, ReleaseQuiet
<1>11. CASE Releases
    <2>1. Folds /\ Head(queue).kind = "down" /\ UNCHANGED <<open, out>>
        BY <1>11 DEF Releases
    <2>2. open < trips \/ ~line
        <3> DEFINE n == Head(queue).trip
        <3>1. n \in DownTrips(queue)
            BY <1>8, <2>1
        <3>2. n \in Nat /\ open <= n /\ n <= trips /\ Over(n)
            <4>1. \A m \in DownTrips(queue) : m \in Nat
                BY <1>1, ItemTypes DEF DownTrips
            <4> HIDE DEF n
            <4> QED
                BY <1>1, <3>1, <4>1 DEF ReleaseInv
        <3> HIDE DEF n
        <3> QED
            BY <1>1, <3>2 DEF Over
    <2> QED
        BY <1>1, <1>8, <2>1, <2>2, ReleaseQuiet
<1>12. CASE Collects
    <2>1. Folds /\ UNCHANGED <<open, settling, out>>
        BY <1>12 DEF Collects
    <2> QED
        BY <1>1, <1>8, <2>1, ReleaseQuiet DEF Over
<1>13. ASSUME NEW why, Closes(why) PROVE ReleaseInv'
    <2>1. /\ UNCHANGED <<line, trips, active, gpiEdges, queue>> /\ queue = <<>> /\ open # None /\ ~settling'
          /\ out' = Append(out, Window(why))
        BY <1>13 DEF Closes
    <2>2. why \in {"settled", "next"} => Over(open)
        BY <1>1, <1>13 DEF Closes
    <2>3. DownTrips(queue') = {} /\ InTurn(queue')
        BY <2>1, NoDowns
    <2> QED
        BY <1>1, <2>1, <2>2, <2>3, ReleaseQuiet
<1>14. CASE ReadTag
    <2>1. UNCHANGED <<line, trips, active, gpiEdges, queue, open, settling, out>>
        BY <1>14 DEF ReadTag, assembler
    <2> QED
        BY <1>1, <2>1, ReleaseQuiet DEF Over
<1>15. CASE PumpRead
    <2> DEFINE x == [kind |-> "tag", tag |-> Head(late)]
    <2>1. /\ UNCHANGED <<line, trips, active, gpiEdges, open, settling, out>>
          /\ late # <<>> /\ queue' = Append(queue, x)
        BY <1>15 DEF PumpRead, reader, assembler
    <2>2. x \in Item /\ x.kind = "tag"
        <3>1. late \in Seq(AnyTag)
            BY <1>1 DEF Types
        <3>2. Head(late) \in AnyTag
            BY <2>1, <3>1, Taken
        <3> QED
            BY <3>2 DEF Item
    <2> HIDE DEF x
    <2>3. InTurn(queue') /\ DownTrips(queue') = DownTrips(queue)
        BY <1>1, <2>1, <2>2, DownMore
    <2> QED
        BY <1>1, <2>1, <2>3, ReleaseQuiet DEF Over
<1> QED
    BY <1>2, <1>3, <1>4, <1>5, <1>6, <1>7, <1>9, <1>10, <1>11, <1>12, <1>13, <1>14, <1>15, StepForms

-----------------------------------------------------------------------------
(* Nothing comes behind the end of a call.                                 *)

LEMMA EndStep ==
    ASSUME Inv, EndInv, [Next]_wvars
    PROVE  EndInv'
<1>1. /\ Types /\ queue \in Seq(Item) /\ gpiEdges \in Seq(Edge)
      /\ (phase # "ended" => Ends(queue) = {}) /\ (phase = "ended" => Ends(queue) # {})
      /\ Len(gpiEdges) <= QueueSize /\ QueueSize \in Nat \ {0}
    BY WindowsAssumption DEF Inv, Types, EndInv
<1>2. ASSUME NEW x \in Item, x.kind \notin {"end", "error"}, queue' = Append(queue, x), phase' = phase, gpiEdges' = gpiEdges
      PROVE  EndInv'
    <2>1. Ends(queue') = Ends(queue)
        BY <1>1, <1>2, AppendItem
    <2> QED
        BY <1>1, <1>2, <2>1 DEF EndInv
<1>3. ASSUME NEW kind \in {"up", "down"}, Lines(kind) PROVE EndInv'
    <2>1. phase' = phase
        BY <1>3 DEF Lines
    <2>2. CASE UNCHANGED <<queue, gpiEdges>>
        BY <2>1, <2>2 DEF EndInv
    <2>3. ASSUME NEW e \in Edge, gpiEdges' = Offer(gpiEdges, e, QueueSize), UNCHANGED queue PROVE EndInv'
        <3>1. Len(Offer(gpiEdges, e, QueueSize)) <= QueueSize
            <4>1. CASE IsFull(gpiEdges, QueueSize)
                BY <1>1, <4>1 DEF Offer, IsFull
            <4>2. CASE ~IsFull(gpiEdges, QueueSize)
                BY <1>1, <4>2 DEF Offer, IsFull
            <4> QED
                BY <4>1, <4>2
        <3> QED
            BY <1>1, <2>1, <2>3, <3>1 DEF EndInv
    <2>4. ASSUME NEW e \in Item, e.kind = kind, queue' = Append(queue, e), UNCHANGED gpiEdges PROVE EndInv'
        BY <1>2, <2>1, <2>4
    <2> QED
        BY <1>3, <2>2, <2>3, <2>4 DEF Lines
<1>4. CASE Begins \/ Stops
    BY <1>3, <1>4 DEF Begins, Stops
<1>5. CASE Rests
    <2>1. UNCHANGED <<queue, gpiEdges>> /\ (phase' = "ended" <=> phase = "ended")
        BY <1>5 DEF Rests
    <2> QED
        BY <1>1, <2>1 DEF EndInv
<1>6. CASE Starts
    <2>1. queue' = gpiEdges /\ gpiEdges' = <<>> /\ phase' = "setup"
        BY <1>6 DEF Starts
    <2>2. Ends(gpiEdges) = {}
        BY <1>1, EdgesOnly
    <2>3. Len(<<>>) <= QueueSize
        BY <1>1
    <2> QED
        BY <2>1, <2>2, <2>3 DEF EndInv
<1>7. CASE Finishes
    <2>1. gpiEdges' = gpiEdges /\ phase' = "ended"
        BY <1>7 DEF Finishes
    <2>2. Ends(queue') # {}
        <3>1. CASE queue' = Append(queue, EndItem)
            BY <1>1, <3>1, EndItems, AppendItem
        <3>2. CASE queue' = Append(Append(queue, ErrorItem), EndItem)
            <4> DEFINE p == Append(queue, ErrorItem)
            <4>1. p \in Seq(Item)
                BY <1>1, EndItems, Appended
            <4>2. queue' = Append(p, EndItem)
                BY <3>2
            <4> HIDE DEF p
            <4> QED
                BY <4>1, <4>2, EndItems, AppendItem
        <3> QED
            BY <1>7, <3>1, <3>2 DEF Finishes
    <2> QED
        BY <1>1, <2>1, <2>2 DEF EndInv
<1>8. CASE Leaves
    <2>1. gpiEdges' = gpiEdges /\ phase' = "off" /\ queue' = <<>>
        BY <1>8 DEF Leaves
    <2> QED
        BY <1>1, <2>1, EmptyTags DEF EndInv
<1>9. CASE Opens \/ Follows \/ Releases \/ Collects
    <2>1. /\ queue # <<>> /\ queue' = Tail(queue) /\ phase' = phase /\ gpiEdges' = gpiEdges
          /\ Head(queue).kind \notin {"end", "error"}
        BY <1>9 DEF Opens, Follows, Releases, Collects, Folds
    <2>2. /\ \A i \in Ends(queue') : i + 1 \in Ends(queue)
          /\ \A i \in Ends(queue) : i # 1 => i - 1 \in Ends(queue')
          /\ 1 \notin Ends(queue)
        BY <1>1, <2>1, TailItem
    <2> QED
        BY <1>1, <2>1, <2>2 DEF EndInv
<1>10. ASSUME NEW why, Closes(why) PROVE EndInv'
    BY <1>10 DEF Closes, EndInv
<1>11. CASE ReadTag
    BY <1>11 DEF ReadTag, EndInv
<1>12. CASE PumpRead
    <2> DEFINE x == [kind |-> "tag", tag |-> Head(late)]
    <2>1. late # <<>> /\ queue' = Append(queue, x) /\ phase' = phase /\ gpiEdges' = gpiEdges
        BY <1>12 DEF PumpRead
    <2>2. x \in Item /\ x.kind = "tag"
        <3>1. late \in Seq(AnyTag)
            BY <1>1 DEF Types
        <3>2. Head(late) \in AnyTag
            BY <2>1, <3>1, Taken
        <3> QED
            BY <3>2 DEF Item
    <2> HIDE DEF x
    <2> QED
        BY <1>2, <2>1, <2>2
<1> QED
    BY <1>4, <1>5, <1>6, <1>7, <1>8, <1>9, <1>10, <1>11, <1>12, StepForms

-----------------------------------------------------------------------------
(* With prompt reads, all of a trip are still to come behind its edge.     *)

\* An item more: reads come no sooner, and none is awaited any longer.
LEMMA ComingMore ==
    ASSUME NEW q \in Seq(Item), NEW x \in Item
    PROVE  LET r == Append(q, x)
           IN  /\ \A i \in Up(q) : i \in Up(r) /\ r[i] = q[i]
               /\ \A i \in Up(q) : \A a, A : Coming(q, i, a, A) => Coming(r, i, a, A)
               /\ x.kind = "tag" => \A i \in Up(q) : \A A : Coming(r, i, x.tag, A)
               /\ (Behind(q) /\ (x.kind = "tag" => \A i \in Up(q) : q[i].trip <= x.tag[1])) => Behind(r)
               /\ (x.kind = "up" => Ends(q) # {}) => \A n : Later(r, n) => Later(q, n)
<1> DEFINE r == Append(q, x)
           last == Len(q) + 1
<1>1. /\ Len(q) \in Nat /\ r[last] = x /\ \A i \in 1..Len(q) : r[i] = q[i]
      /\ Up(q) \subseteq 1..Len(q) /\ Carried(q) \subseteq 1..Len(q) /\ Ends(q) \subseteq 1..Len(q)
      /\ Up(r) = IF x.kind = "up" THEN Up(q) \cup {last} ELSE Up(q)
      /\ Carried(r) = IF x.kind = "tag" THEN Carried(q) \cup {last} ELSE Carried(q)
      /\ Ends(r) = IF x.kind \in {"end", "error"} THEN Ends(q) \cup {last} ELSE Ends(q)
    BY AppendEdges, AppendItem
<1> HIDE DEF r
<1>2. /\ \A i \in Up(q) : i < last /\ r[i] = q[i]
      /\ \A k \in Carried(q) : ~(last < k) /\ r[k] = q[k]
      /\ \A e \in Ends(q) : ~(last < e)
      /\ ~(last < last)
    BY <1>1
<1> HIDE DEF last
<1>3. \A i \in Up(q) : i \in Up(r) /\ r[i] = q[i]
    BY <1>1, <1>2
<1>4. \A i \in Up(q) : \A a, A : Coming(q, i, a, A) => Coming(r, i, a, A)
    <2>1. \A k \in Carried(q) : k \in Carried(r) /\ r[k] = q[k]
        BY <1>1, <1>2
    <2> QED
        BY <2>1 DEF Coming
<1>5. x.kind = "tag" => \A i \in Up(q) : \A A : Coming(r, i, x.tag, A)
    <2>1. x.kind = "tag" => last \in Carried(r) /\ r[last].tag = x.tag
        BY <1>1
    <2> QED
        BY <1>2, <2>1 DEF Coming
<1>6. ASSUME Behind(q), x.kind = "tag" => \A i \in Up(q) : q[i].trip <= x.tag[1]
      PROVE  Behind(r)
    <2>1. SUFFICES ASSUME NEW i \in Up(r), NEW k \in Carried(r), i < k
                   PROVE  r[i].trip <= r[k].tag[1]
        BY DEF Behind
    <2>2. i \in Up(q)
        BY <1>1, <1>2, <2>1
    <2>3. CASE k \in Carried(q)
        BY <1>2, <1>6, <2>1, <2>2, <2>3 DEF Behind
    <2>4. CASE k = last /\ x.kind = "tag"
        BY <1>1, <1>2, <1>6, <2>2, <2>4
    <2> QED
        BY <1>1, <2>3, <2>4
<1>7. ASSUME x.kind = "up" => Ends(q) # {}, NEW n, Later(r, n)
      PROVE  Later(q, n)
    <2>1. PICK j \in Up(r) : n < r[j].trip /\ \A e \in Ends(r) : j < e
        BY <1>7 DEF Later
    <2>2. \A e \in Ends(q) : e \in Ends(r)
        BY <1>1
    <2>3. j \in Up(q)
        BY <1>1, <1>2, <1>7, <2>1, <2>2
    <2> QED
        BY <1>2, <2>1, <2>2, <2>3 DEF Later
<1> QED
    BY <1>3, <1>4, <1>5, <1>6, <1>7 DEF r

\* An item less, which is no end.
LEMMA ComingTail ==
    ASSUME NEW q \in Seq(Item), q # <<>>, Head(q).kind \notin {"end", "error"}
    PROVE  LET r == Tail(q)
           IN  /\ \A i \in Up(r) : i + 1 \in Up(q) /\ r[i] = q[i + 1]
               /\ \A i \in Up(r) : \A a, A : Coming(q, i + 1, a, A) => Coming(r, i, a, A)
               /\ Behind(q) => Behind(r)
               /\ \A n : Later(r, n) => Later(q, n)
<1> DEFINE r == Tail(q)
<1>1. /\ Head(q) = q[1]
      /\ \A i \in Up(r) : i \in Nat \ {0} /\ i + 1 \in Up(q) /\ r[i] = q[i + 1]
      /\ \A i \in Carried(r) : i \in Nat \ {0} /\ i + 1 \in Carried(q) /\ r[i] = q[i + 1]
      /\ \A i \in Carried(q) : i \in Nat \ {0} /\ (i # 1 => i - 1 \in Carried(r) /\ r[i - 1] = q[i])
      /\ \A i \in Ends(q) : i \in Nat \ {0} /\ (i # 1 => i - 1 \in Ends(r))
      /\ 1 \notin Ends(q)
    BY TailEdges, TailItem
<1> HIDE DEF r
<1>2. ASSUME NEW i \in Up(r), NEW a, NEW A, Coming(q, i + 1, a, A)
      PROVE  Coming(r, i, a, A)
    <2>1. ASSUME NEW k \in Carried(q), i + 1 < k, q[k].tag = a
          PROVE  k - 1 \in Carried(r) /\ i < k - 1 /\ r[k - 1].tag = a
        BY <1>1, <2>1
    <2> QED
        BY <1>2, <2>1 DEF Coming
<1>3. ASSUME Behind(q) PROVE Behind(r)
    <2>1. \A i \in Up(r), k \in Carried(r) : i < k => i + 1 < k + 1
        BY <1>1
    <2> QED
        BY <1>1, <1>3, <2>1 DEF Behind
<1>4. ASSUME NEW n, Later(r, n) PROVE Later(q, n)
    <2>1. PICK j \in Up(r) : n < r[j].trip /\ \A e \in Ends(r) : j < e
        BY <1>4 DEF Later
    <2>2. \A e \in Ends(q) : j + 1 < e
        <3>1. ASSUME NEW e \in Ends(q) PROVE j + 1 < e
            <4>1. e - 1 \in Ends(r) /\ e \in Nat /\ j \in Nat
                BY <1>1
            <4>2. j < e - 1
                BY <2>1, <4>1
            <4> QED
                BY <4>1, <4>2
        <3> QED
            BY <3>1
    <2> QED
        BY <1>1, <2>1, <2>2 DEF Later
<1> QED
    BY <1>1, <1>2, <1>3, <1>4 DEF r

\* The edge of a trip is folded: reads behind it are in the rest of the queue.
LEMMA ComingHead ==
    ASSUME NEW q \in Seq(Item), q # <<>>, Head(q).kind = "up", Behind(q)
    PROVE  LET r == Tail(q)
           IN  /\ 1 \in Up(q) /\ Head(q) = q[1]
               /\ \A a \in TagsIn(r) : Head(q).trip <= a[1]
               /\ \A a, A : Coming(q, 1, a, A) => a \in TagsIn(r) \cup A
               /\ \A n : n < Head(q).trip => Later(q, n)
<1> DEFINE r == Tail(q)
<1>1. /\ Head(q) = q[1] /\ 1 \in Up(q)
      /\ \A i \in Carried(r) : i \in Nat \ {0} /\ i + 1 \in Carried(q) /\ r[i] = q[i + 1]
      /\ \A i \in Carried(q) : i \in Nat \ {0} /\ (i # 1 => i - 1 \in Carried(r) /\ r[i - 1] = q[i])
      /\ \A i \in Ends(q) : i \in Nat \ {0}
      /\ 1 \notin Ends(q)
    BY TailEdges, TailItem
<1> HIDE DEF r
<1>2. \A a \in TagsIn(r) : Head(q).trip <= a[1]
    <2>1. \A k \in Carried(r) : 1 < k + 1
        BY <1>1
    <2> QED
        BY <1>1, <2>1 DEF Behind, TagsIn
<1>3. ASSUME NEW a, NEW A, Coming(q, 1, a, A) PROVE a \in TagsIn(r) \cup A
    <2>1. \A k \in Carried(q) : 1 < k => q[k].tag \in TagsIn(r)
        BY <1>1 DEF TagsIn
    <2> QED
        BY <1>3, <2>1 DEF Coming
<1>4. \A n : n < Head(q).trip => Later(q, n)
    <2>1. \A e \in Ends(q) : 1 < e
        BY <1>1
    <2> QED
        BY <1>1, <2>1 DEF Later
<1> QED
    BY <1>1, <1>2, <1>3, <1>4 DEF r

\* What the invariant says when reads are prompt.
LEMMA PromptFacts ==
    ASSUME PromptInv, prompt
    PROVE  /\ \A a \in OnTheWay : a[1] = trips
           /\ \A i \in Up(gpiEdges) : seen[gpiEdges[i].trip] = 0
           /\ Behind(queue)
           /\ \A i \in Up(queue) : \A t : t = queue[i].trip /\ Awaited(t) =>
                 \A n \in 1..seen[t] : Coming(queue, i, <<t, n>>, OnTheWay)
           /\ (open # None => OpenInv)
           /\ \A i \in 1..Len(out) : out[i].why \in {"settled", "next"} => WholeWindow(out[i])
BY DEF PromptInv

\* The rest of PromptInv, when no read is made.
LEMMA PromptRest ==
    ASSUME Types, PromptInv, prompt, prompt' = prompt, seen' = seen,
           \A a \in OnTheWay' : a[1] = trips', \A i \in Up(gpiEdges') : seen[gpiEdges'[i].trip] = 0,
           Behind(queue'),
           \A i \in Up(queue') : \A t : t = queue'[i].trip /\ (phase' = "ended" => Later(queue', t)) =>
               \A n \in 1..seen[t] : Coming(queue', i, <<t, n>>, OnTheWay'),
           open' # None => OpenInv',
           \/ out' = out
           \/ \E why : out' = Append(out, Window(why))
                       /\ (why \in {"settled", "next"} => tags = [i \in 1..seen[open] |-> <<open, i>>])
    PROVE  PromptInv'
<1>1. \A i \in Up(queue') :
        (phase' = "ended" => Later(queue', queue'[i].trip)) =>
            \A n \in 1..seen'[queue'[i].trip] : Coming(queue', i, <<queue'[i].trip, n>>, OnTheWay')
    OBVIOUS
<1>2. \A i \in 1..Len(out) : out[i].why \in {"settled", "next"} => WholeWindow(out[i])
    BY PromptFacts
<1>3. \A i \in 1..Len(out') : out'[i].why \in {"settled", "next"} => WholeWindow(out'[i])
    <2>1. CASE out' = out
        BY <1>2, <2>1
    <2>2. ASSUME NEW why, out' = Append(out, Window(why)),
                 why \in {"settled", "next"} => tags = [i \in 1..seen[open] |-> <<open, i>>]
          PROVE  \A i \in 1..Len(out') : out'[i].why \in {"settled", "next"} => WholeWindow(out'[i])
        <3> DEFINE w == Window(why)
        <3>1. /\ \A i \in 1..Len(out) : out'[i] = out[i]
              /\ \A i \in 1..Len(out') : i = Len(out) + 1 \/ i \in 1..Len(out)
              /\ out'[Len(out) + 1] = w /\ w.tags = tags /\ w.trip = open /\ w.why = why
            BY <2>2, HandedFacts
        <3> HIDE DEF w
        <3>2. w.why \in {"settled", "next"} => WholeWindow(w)
            BY <2>2, <3>1 DEF WholeWindow
        <3> QED
            BY <1>2, <3>1, <3>2
    <2> QED
        BY <2>1, <2>2
<1>4. ASSUME NEW w PROVE WholeWindow(w) => w.tags = [j \in 1..seen'[w.trip] |-> <<w.trip, j>>]
    BY DEF WholeWindow
<1>5. \A i \in 1..Len(out') : out'[i].why \in {"settled", "next"} =>
         out'[i].tags = [j \in 1..seen'[out'[i].trip] |-> <<out'[i].trip, j>>]
    BY <1>3, <1>4
<1> QED
    BY <1>1, <1>5 DEF PromptInv, Awaited, WholeWindow

\* An open window stays right as long as its reads stay somewhere.
LEMMA OpenKeeps ==
    ASSUME OpenInv, UNCHANGED <<seen, open, tags>>,
           TagsIn(queue') \cup OnTheWay' \subseteq TagsIn(queue) \cup OnTheWay,
           Awaited(open)' => Awaited(open),
           Awaited(open)' => \A n \in 1..seen[open] :
               <<open, n>> \in TagsIn(queue) \cup OnTheWay => <<open, n>> \in TagsIn(queue') \cup OnTheWay'
    PROVE  OpenInv'
<1>1. \A a \in TagsIn(queue') \cup OnTheWay' : open' <= a[1]
    BY DEF OpenInv
<1>2. ASSUME Awaited(open)'
      PROVE  /\ \A k \in 1..Len(tags') : tags'[k] = <<open', k>>
             /\ \A n \in 1..seen'[open'] : n <= Len(tags') \/ <<open', n>> \in TagsIn(queue') \cup OnTheWay'
    BY <1>2 DEF OpenInv
<1> QED
    BY <1>1, <1>2 DEF OpenInv

LEMMA PromptLines ==
    ASSUME Inv, EndInv, PromptInv, prompt, NEW kind \in {"up", "down"}, Lines(kind), UNCHANGED out,
           \A a \in OnTheWay : a[1] = trips', kind = "up" => seen[trips'] = 0
    PROVE  PromptInv'
<1>1. /\ Types /\ queue \in Seq(Item) /\ gpiEdges \in Seq(Item) /\ Ordered(gpiEdges)
      /\ (phase = "ended" => Ends(queue) # {})
    BY EdgesOnly DEF Inv, Types, EdgeInv, EndInv
<1>2. /\ prompt' = prompt /\ UNCHANGED <<seen, late, phase, open, tags, out>> /\ OnTheWay' = OnTheWay
    BY DEF Lines, OnTheWay
<1>3. PICK e \in Item :
         /\ e.kind = kind /\ e.trip = trips'
         /\ queue' \in {queue, Append(queue, e)}
         /\ \/ gpiEdges' \in {gpiEdges, Append(gpiEdges, e)}
            \/ gpiEdges # <<>> /\ gpiEdges' = Append(Tail(gpiEdges), e)
    BY <1>1, LinesQueues
<1>4. /\ \A i \in Up(gpiEdges) : seen[gpiEdges[i].trip] = 0
      /\ Behind(queue)
      /\ \A i \in Up(queue) : \A t : t = queue[i].trip /\ Awaited(t) =>
            \A n \in 1..seen[t] : Coming(queue, i, <<t, n>>, OnTheWay)
      /\ (open # None => OpenInv)
    BY PromptFacts
<1>5. \A i \in Up(gpiEdges') : seen[gpiEdges'[i].trip] = 0
    <2>1. ASSUME NEW q \in Seq(Item), \A i \in Up(q) : seen[q[i].trip] = 0
          PROVE  \A i \in Up(Append(q, e)) : seen[Append(q, e)[i].trip] = 0
        <3> DEFINE r == Append(q, e)
        <3>1. /\ \A i \in 1..Len(q) : r[i] = q[i]
              /\ r[Len(q) + 1] = e /\ Up(q) \subseteq 1..Len(q)
              /\ Up(r) = IF e.kind = "up" THEN Up(q) \cup {Len(q) + 1} ELSE Up(q)
            BY AppendEdges
        <3> HIDE DEF r
        <3>2. \A i \in Up(r) : seen[r[i].trip] = 0
            BY <1>3, <2>1, <3>1
        <3> QED
            BY <3>2 DEF r
    <2>2. CASE gpiEdges' \in {gpiEdges, Append(gpiEdges, e)}
        BY <1>1, <1>4, <2>1, <2>2
    <2>3. CASE gpiEdges # <<>> /\ gpiEdges' = Append(Tail(gpiEdges), e)
        <3> DEFINE r == Tail(gpiEdges)
        <3>1. r \in Seq(Item) /\ \A i \in Up(r) : i + 1 \in Up(gpiEdges) /\ r[i] = gpiEdges[i + 1]
            BY <1>1, <2>3, TailEdges
        <3>2. gpiEdges' = Append(r, e)
            BY <2>3
        <3> HIDE DEF r
        <3>3. \A i \in Up(r) : seen[r[i].trip] = 0
            BY <1>4, <3>1
        <3> QED
            BY <2>1, <3>1, <3>2, <3>3
    <2> QED
        BY <1>3, <2>2, <2>3
<1>6. /\ TagsIn(queue') = TagsIn(queue) /\ Behind(queue')
      /\ \A n : Awaited(n)' => Awaited(n)
    <2>1. CASE queue' = queue
        BY <1>2, <1>4, <2>1 DEF Awaited
    <2>2. CASE queue' = Append(queue, e)
        <3>1. TagsIn(queue') = TagsIn(queue) /\ Behind(queue')
            BY <1>1, <1>3, <1>4, <2>2, ComingMore, OtherTags
        <3>2. Ends(queue) # {} => \A n : Later(queue', n) => Later(queue, n)
            BY <1>1, <1>3, <2>2, ComingMore
        <3> QED
            BY <1>1, <1>2, <3>1, <3>2 DEF Awaited
    <2> QED
        BY <1>3, <2>1, <2>2
<1>7. ASSUME NEW i \in Up(queue'), NEW t, t = queue'[i].trip, phase' = "ended" => Later(queue', t),
             NEW n \in 1..seen[t]
      PROVE  Coming(queue', i, <<t, n>>, OnTheWay')
    <2>1. Awaited(t)
        BY <1>6, <1>7 DEF Awaited
    <2>2. CASE queue' = queue
        BY <1>2, <1>4, <1>7, <2>1, <2>2
    <2>3. CASE queue' = Append(queue, e)
        <3>1. /\ Up(queue') = IF e.kind = "up" THEN Up(queue) \cup {Len(queue) + 1} ELSE Up(queue)
              /\ queue'[Len(queue) + 1] = e
            BY <1>1, <2>3, AppendEdges
        <3>2. CASE i \in Up(queue)
            <4>1. queue'[i] = queue[i] /\ \A a, A : Coming(queue, i, a, A) => Coming(queue', i, a, A)
                BY <1>1, <2>3, <3>2, ComingMore
            <4> QED
                BY <1>2, <1>4, <1>7, <2>1, <3>2, <4>1
        <3>3. CASE i \notin Up(queue)
            <4>1. seen[t] = 0
                BY <1>3, <1>7, <3>1, <3>3
            <4> QED
                BY <1>7, <4>1
        <3> QED
            BY <3>2, <3>3
    <2> QED
        BY <1>3, <2>2, <2>3
<1>8. ASSUME open' # None PROVE OpenInv'
    <2>1. Awaited(open)' => Awaited(open)
        <3>1. \A n : (phase' = "ended" => Later(queue', n)) => (phase = "ended" => Later(queue, n))
            BY <1>6 DEF Awaited
        <3> QED
            BY <1>2, <3>1 DEF Awaited
    <2> QED
        BY <1>2, <1>4, <1>6, <1>8, <2>1, OpenKeeps
<1>9. \A a \in OnTheWay' : a[1] = trips'
    BY <1>2
<1> QED
    BY <1>1, <1>2, <1>5, <1>6, <1>7, <1>8, <1>9, PromptRest

\* An item is folded: reads that were to come still are.
LEMMA PromptFolds ==
    ASSUME Types, PromptInv, prompt, Folds, Head(queue).kind \notin {"end", "error"}
    PROVE  /\ prompt' = prompt /\ seen' = seen /\ OnTheWay' = OnTheWay
           /\ \A a \in OnTheWay' : a[1] = trips'
           /\ \A i \in Up(gpiEdges') : seen[gpiEdges'[i].trip] = 0
           /\ Behind(queue')
           /\ \A i \in Up(queue') : \A t : t = queue'[i].trip /\ (phase' = "ended" => Later(queue', t)) =>
                 \A n \in 1..seen[t] : Coming(queue', i, <<t, n>>, OnTheWay')
           /\ \A n : (phase' = "ended" => Later(queue', n)) => Awaited(n)
<1>1. /\ UNCHANGED <<trips, prompt, seen, late, gpiEdges, phase>> /\ queue # <<>> /\ queue' = Tail(queue)
      /\ queue \in Seq(Item)
    BY DEF Folds, Types
<1>2. OnTheWay' = OnTheWay
    BY <1>1 DEF OnTheWay
<1>3. /\ \A i \in Up(queue') : i + 1 \in Up(queue) /\ queue'[i] = queue[i + 1]
      /\ \A i \in Up(queue') : \A a, A : Coming(queue, i + 1, a, A) => Coming(queue', i, a, A)
      /\ Behind(queue) => Behind(queue')
      /\ \A n : Later(queue', n) => Later(queue, n)
    BY <1>1, ComingTail
<1>4. /\ \A a \in OnTheWay : a[1] = trips
      /\ \A i \in Up(gpiEdges) : seen[gpiEdges[i].trip] = 0
      /\ Behind(queue)
      /\ \A i \in Up(queue) : \A t : t = queue[i].trip /\ Awaited(t) =>
            \A n \in 1..seen[t] : Coming(queue, i, <<t, n>>, OnTheWay)
    BY PromptFacts
<1>5. \A n : (phase' = "ended" => Later(queue', n)) => Awaited(n)
    BY <1>1, <1>3 DEF Awaited
<1>6. ASSUME NEW i \in Up(queue'), NEW t, t = queue'[i].trip, phase' = "ended" => Later(queue', t),
             NEW n \in 1..seen[t]
      PROVE  Coming(queue', i, <<t, n>>, OnTheWay')
    <2>1. i + 1 \in Up(queue) /\ t = queue[i + 1].trip /\ Awaited(t)
        BY <1>3, <1>5, <1>6
    <2>2. Coming(queue, i + 1, <<t, n>>, OnTheWay)
        BY <1>4, <1>6, <2>1
    <2> QED
        BY <1>2, <1>3, <1>6, <2>2
<1> QED
    BY <1>1, <1>2, <1>3, <1>4, <1>5, <1>6

\* Tags of the open window are reads that were made.
LEMMA HeldMade ==
    ASSUME Types, ReadsInv
    PROVE  /\ Len(tags) \in Nat
           /\ \A a \in Held \cup TagsIn(queue) \cup OnTheWay :
                 a \in AnyTag /\ a[1] \in 1..trips /\ a[2] \in 1..seen[a[1]]
BY DEF ReadsInv, Made, Types

\* A window with all its reads is whole.
LEMMA WholeTags ==
    ASSUME Types, ReadsInv, open # None, \A k \in 1..Len(tags) : tags[k] = <<open, k>>,
           \A n \in 1..seen[open] : n <= Len(tags)
    PROVE  tags = [i \in 1..seen[open] |-> <<open, i>>]
<1>1. Len(tags) \in Nat /\ seen[open] \in Nat /\ tags \in Seq(AnyTag)
    <2>1. open \in Trips
        BY Numbers DEF Trips, None
    <2> QED
        BY <2>1 DEF Types
<1>2. CASE Len(tags) # 0
    <2>1. Len(tags) \in 1..Len(tags)
        BY <1>1, <1>2
    <2>2. tags[Len(tags)] = <<open, Len(tags)>> /\ tags[Len(tags)] \in Held
        BY <2>1, HeldFacts
    <2>3. Len(tags) \in 1..seen[open]
        BY <2>2, HeldMade
    <2>4. seen[open] \in 1..seen[open]
        BY <1>1, <2>3
    <2>5. Len(tags) = seen[open]
        BY <1>1, <2>3, <2>4
    <2>6. tags = [i \in 1..Len(tags) |-> tags[i]]
        BY <1>1
    <2> QED
        BY <2>5, <2>6
<1>3. CASE Len(tags) = 0
    <2>1. seen[open] = 0
        <3>1. seen[open] # 0 => seen[open] \in 1..seen[open]
            BY <1>1
        <3> QED
            BY <1>1, <1>3, <3>1
    <2>2. tags = [i \in 1..Len(tags) |-> tags[i]]
        BY <1>1
    <2> QED
        BY <1>3, <2>1, <2>2
<1> QED
    BY <1>2, <1>3

\* The next trip takes the place of the one that is open, which has all its reads.
LEMMA PromptOpens ==
    ASSUME Inv, ReadsInv, TripInv, PromptInv, prompt, Opens \/ Follows
    PROVE  PromptInv'
<1>1. /\ Types /\ queue \in Seq(Item) /\ Ordered(queue) /\ After(queue, open, trips)
      /\ trips \in Nat /\ open \in Nat /\ trips \in 0..MaxTrips /\ MaxTrips \in Nat /\ seen \in [Trips -> Nat]
    BY Numbers DEF Inv, Types, EdgeInv
<1>2. /\ Folds /\ queue # <<>> /\ queue' = Tail(queue) /\ Head(queue).kind = "up"
      /\ open' = Head(queue).trip /\ tags' = <<>> /\ UNCHANGED <<phase, trips, seen, prompt>>
    BY DEF Opens, Follows, Folds, TripInv
<1> DEFINE h == Head(queue).trip
<1>3. h \in Nat /\ open < h /\ h <= trips
    BY <1>1, <1>2, TailUp
<1>4. /\ prompt' = prompt /\ seen' = seen /\ OnTheWay' = OnTheWay
      /\ \A a \in OnTheWay' : a[1] = trips'
      /\ \A i \in Up(gpiEdges') : seen[gpiEdges'[i].trip] = 0
      /\ Behind(queue')
      /\ \A i \in Up(queue') : \A t : t = queue'[i].trip /\ (phase' = "ended" => Later(queue', t)) =>
            \A n \in 1..seen[t] : Coming(queue', i, <<t, n>>, OnTheWay')
      /\ \A n : (phase' = "ended" => Later(queue', n)) => Awaited(n)
    BY <1>1, <1>2, PromptFolds
<1>5. /\ Behind(queue)
      /\ \A i \in Up(queue) : \A t : t = queue[i].trip /\ Awaited(t) =>
            \A n \in 1..seen[t] : Coming(queue, i, <<t, n>>, OnTheWay)
      /\ (open # None => OpenInv)
    BY PromptFacts
<1>6. /\ 1 \in Up(queue) /\ h = queue[1].trip
      /\ \A a \in TagsIn(queue') : h <= a[1]
      /\ \A a, A : Coming(queue, 1, a, A) => a \in TagsIn(queue') \cup A
      /\ \A n : n < h => Later(queue, n)
    BY <1>1, <1>2, <1>5, ComingHead
<1>7. open' = h
    BY <1>2
<1> HIDE DEF h
<1>8. OpenInv'
    <2>1. \A a \in TagsIn(queue') \cup OnTheWay' : open' <= a[1]
        BY <1>2, <1>3, <1>4, <1>6, <1>7
    <2>2. ASSUME phase' = "ended" => Later(queue', open')
          PROVE  \A n \in 1..seen[open'] : <<open', n>> \in TagsIn(queue') \cup OnTheWay'
        <3>1. Awaited(h)
            BY <1>4, <1>7, <2>2
        <3>2. \A n \in 1..seen[h] : Coming(queue, 1, <<h, n>>, OnTheWay)
            BY <1>5, <1>6, <3>1
        <3> QED
            BY <1>4, <1>6, <1>7, <3>2
    <2>3. \A k \in 1..Len(tags') : tags'[k] = <<open', k>>
        BY <1>2
    <2> QED
        BY <1>4, <2>1, <2>2, <2>3 DEF OpenInv, Awaited
<1>9. ASSUME open # None PROVE tags = [i \in 1..seen[open] |-> <<open, i>>]
    <2>1. Awaited(open)
        BY <1>3, <1>6 DEF Awaited
    <2>2. /\ \A k \in 1..Len(tags) : tags[k] = <<open, k>>
          /\ \A n \in 1..seen[open] : n <= Len(tags) \/ <<open, n>> \in TagsIn(queue) \cup OnTheWay
        BY <1>5, <1>9, <2>1 DEF OpenInv
    <2>3. \A n \in 1..seen[open] : n <= Len(tags)
        <3>1. TagsIn(queue) = TagsIn(queue')
            <4>1. RisingTags(queue) /\ Head(queue).kind # "tag"
                BY <1>2 DEF ReadsInv
            <4> QED
                BY <1>1, <1>2, <4>1, TailTags
        <3>2. \A a \in TagsIn(queue') \cup OnTheWay : h <= a[1]
            BY <1>2, <1>3, <1>4, <1>6
        <3>3. \A n : <<open, n>>[1] = open /\ ~(h <= open)
            BY <1>1, <1>3
        <3>4. \A n : <<open, n>> \notin TagsIn(queue) \cup OnTheWay
            BY <3>1, <3>2, <3>3
        <3> QED
            BY <2>2, <3>4
    <2> QED
        BY <1>1, <1>9, <2>2, <2>3, WholeTags
<1>10. \/ out' = out
       \/ \E why : out' = Append(out, Window(why))
                   /\ (why \in {"settled", "next"} => tags = [i \in 1..seen[open] |-> <<open, i>>])
    BY <1>9 DEF Opens, Follows
<1> QED
    BY <1>1, <1>4, <1>8, <1>10, PromptRest

\* A release changes nothing of it.
LEMMA PromptReleases ==
    ASSUME Inv, ReadsInv, PromptInv, prompt, Releases
    PROVE  PromptInv'
<1>1. /\ Types /\ Folds /\ queue # <<>> /\ queue' = Tail(queue) /\ Head(queue).kind = "down"
      /\ UNCHANGED <<open, tags, out, phase, seen>> /\ queue \in Seq(Item)
    BY DEF Inv, Types, Releases, Folds
<1>2. /\ prompt' = prompt /\ seen' = seen /\ OnTheWay' = OnTheWay
      /\ \A a \in OnTheWay' : a[1] = trips'
      /\ \A i \in Up(gpiEdges') : seen[gpiEdges'[i].trip] = 0
      /\ Behind(queue')
      /\ \A i \in Up(queue') : \A t : t = queue'[i].trip /\ (phase' = "ended" => Later(queue', t)) =>
            \A n \in 1..seen[t] : Coming(queue', i, <<t, n>>, OnTheWay')
      /\ \A n : (phase' = "ended" => Later(queue', n)) => Awaited(n)
    BY <1>1, PromptFolds
<1>3. TagsIn(queue') = TagsIn(queue)
    <2>1. RisingTags(queue) /\ Head(queue).kind # "tag"
        BY <1>1 DEF ReadsInv
    <2> QED
        BY <1>1, <2>1, TailTags
<1>4. Awaited(open)' => Awaited(open)
    BY <1>1, <1>2 DEF Awaited
<1>5. ASSUME open' # None PROVE OpenInv'
    <2>1. OpenInv
        BY <1>1, <1>5, PromptFacts
    <2> QED
        BY <1>1, <1>2, <1>3, <1>4, <2>1, OpenKeeps
<1>6. out' = out
    BY <1>1
<1> QED
    BY <1>1, <1>2, <1>5, <1>6, PromptRest

\* A tag goes into the open window: it is the next one of the trip.
LEMMA PromptCollects ==
    ASSUME Inv, ReadsInv, TripInv, PromptInv, prompt, Collects
    PROVE  PromptInv'
<1>1. /\ Types /\ Folds /\ queue # <<>> /\ queue' = Tail(queue) /\ Head(queue).kind = "tag"
      /\ UNCHANGED <<open, out, phase, seen>> /\ queue \in Seq(Item) /\ tags \in Seq(AnyTag)
      /\ open \in Nat /\ (open # None => Folded = open) /\ Edged(queue, Folded)
      /\ tags' = IF open # None THEN Append(tags, Head(queue).tag) ELSE tags
    BY FoldedFacts DEF Types, Collects, Folds, TripInv
<1>2. /\ prompt' = prompt /\ seen' = seen /\ OnTheWay' = OnTheWay
      /\ \A a \in OnTheWay' : a[1] = trips'
      /\ \A i \in Up(gpiEdges') : seen[gpiEdges'[i].trip] = 0
      /\ Behind(queue')
      /\ \A i \in Up(queue') : \A t : t = queue'[i].trip /\ (phase' = "ended" => Later(queue', t)) =>
            \A n \in 1..seen[t] : Coming(queue', i, <<t, n>>, OnTheWay')
      /\ \A n : (phase' = "ended" => Later(queue', n)) => Awaited(n)
    BY <1>1, PromptFolds
<1> DEFINE a == Head(queue).tag
           r == Append(tags, a)
<1>3. /\ TagsIn(queue) = TagsIn(queue') \cup {a}
      /\ \A b \in TagsIn(queue') : Earlier(a, b)
    BY <1>1, TailTags DEF ReadsInv
<1>4. /\ \A b \in OnTheWay : Earlier(a, b)
      /\ \A k \in 1..Len(tags) : Earlier(tags[k], a)
      /\ a \in AnyTag /\ a[1] \in Nat /\ a[2] \in Nat /\ a[2] \in 1..seen[a[1]] /\ a = <<a[1], a[2]>>
    <2>1. Before(Held, TagsIn(queue)) /\ Before(TagsIn(queue), OnTheWay) /\ a \in TagsIn(queue)
        BY <1>3 DEF ReadsInv, Before
    <2>2. a \in AnyTag /\ a[2] \in 1..seen[a[1]]
        BY <1>1, <2>1, HeldMade
    <2> HIDE DEF a
    <2>3. a[1] \in Nat /\ a[2] \in Nat /\ a = <<a[1], a[2]>>
        BY <2>2 DEF AnyTag
    <2> QED
        BY <2>1, <2>2, <2>3, HeldFacts DEF Before
<1>5. /\ Len(tags) \in Nat /\ Len(r) = Len(tags) + 1 /\ r[Len(tags) + 1] = a
      /\ \A k \in 1..Len(tags) : r[k] = tags[k]
    BY <1>1, <1>4, Appended
<1>6. open # None => a[1] <= open
    <2>1. 1 \in Carried(queue) /\ queue[1] = Head(queue) /\ \A i \in Up(queue) : ~(i < 1)
        <3>1. \A i \in Up(queue) : i \in Nat \ {0}
            BY <1>1, ItemTypes DEF Up
        <3> QED
            BY <1>1, <3>1, TailItem
    <2> QED
        BY <1>1, <2>1 DEF Edged
<1>7. open # None => tags' = r
    BY <1>1
<1> HIDE DEF r, a
<1>8. ASSUME open' # None PROVE OpenInv'
    <2>1. OpenInv /\ open # None
        BY <1>1, <1>8, PromptFacts
    <2>2. \A b \in TagsIn(queue') \cup OnTheWay' : open' <= b[1]
        BY <1>1, <1>2, <1>3, <2>1 DEF OpenInv
    <2>3. a[1] = open
        <3>1. open <= a[1]
            BY <1>3, <2>1 DEF OpenInv
        <3> QED
            BY <1>1, <1>4, <1>6, <2>1, <3>1
    <2>4. ASSUME phase' = "ended" => Later(queue', open')
          PROVE  /\ \A k \in 1..Len(tags') : tags'[k] = <<open', k>>
                 /\ \A n \in 1..seen'[open'] : n <= Len(tags') \/ <<open', n>> \in TagsIn(queue') \cup OnTheWay'
        <3>1. Awaited(open)
            BY <1>1, <1>2, <2>4
        <3>2. /\ \A k \in 1..Len(tags) : tags[k] = <<open, k>>
              /\ \A n \in 1..seen[open] : n <= Len(tags) \/ <<open, n>> \in TagsIn(queue) \cup OnTheWay
            BY <2>1, <3>1 DEF OpenInv
        <3>3. Len(tags) < a[2]
            <4>1. CASE Len(tags) # 0
                <5>1. Len(tags) \in 1..Len(tags)
                    BY <1>5, <4>1
                <5>2. Earlier(<<open, Len(tags)>>, a)
                    BY <1>4, <3>2, <5>1
                <5> QED
                    BY <1>1, <1>4, <1>5, <2>3, <5>2 DEF Earlier
            <4>2. CASE Len(tags) = 0
                BY <1>4, <4>2
            <4> QED
                BY <4>1, <4>2
        <3>4. a[2] = Len(tags) + 1
            <4>1. SUFFICES ASSUME Len(tags) + 1 < a[2] PROVE FALSE
                BY <1>4, <1>5, <3>3
            <4> DEFINE n == Len(tags) + 1
            <4>2. n \in Nat /\ ~(n <= Len(tags)) /\ n \in 1..seen[open] /\ n < a[2]
                <5>1. seen[open] \in Nat
                    <6>1. open \in Trips
                        BY <1>1, <2>1, Numbers DEF Trips, None
                    <6> QED
                        BY <1>1, <6>1 DEF Types
                <5>2. a[2] \in 1..seen[open]
                    BY <1>4, <2>3
                <5> QED
                    BY <1>4, <1>5, <4>1, <5>1, <5>2
            <4> HIDE DEF n
            <4>3. <<open, n>> \in TagsIn(queue) \cup OnTheWay
                BY <3>2, <4>2
            <4>4. <<open, n>> = a \/ Earlier(a, <<open, n>>)
                BY <1>3, <1>4, <4>3
            <4> QED
                BY <1>1, <1>4, <2>3, <4>2, <4>4 DEF Earlier
        <3>5. a = <<open, Len(tags) + 1>>
            BY <1>4, <2>3, <3>4
        <3>6. \A k \in 1..Len(r) : r[k] = <<open, k>>
            <4>1. \A k \in 1..Len(r) : k \in 1..Len(tags) \/ k = Len(tags) + 1
                BY <1>5
            <4> QED
                BY <1>5, <3>2, <3>5, <4>1
        <3>7. ASSUME NEW n \in 1..seen[open]
              PROVE  n <= Len(r) \/ <<open, n>> \in TagsIn(queue') \cup OnTheWay'
            <4>1. n \in Nat
                OBVIOUS
            <4>2. CASE n <= Len(tags)
                BY <1>5, <4>1, <4>2
            <4>3. CASE <<open, n>> = a
                <5>1. n = Len(tags) + 1
                    BY <3>5, <4>3
                <5> QED
                    BY <1>5, <5>1
            <4> QED
                BY <1>2, <1>3, <3>2, <4>2, <4>3
        <3> QED
            BY <1>1, <1>7, <2>1, <3>6, <3>7
    <2> QED
        BY <2>2, <2>4 DEF OpenInv, Awaited
<1>9. out' = out
    BY <1>1
<1> QED
    BY <1>1, <1>2, <1>8, <1>9, PromptRest

\* The call is over: reads on their way are lost, all of them of the last trip.
LEMMA PromptFinishes ==
    ASSUME Inv, ReadsInv, EndInv, PromptInv, prompt, Finishes
    PROVE  PromptInv'
<1>1. /\ Types /\ queue \in Seq(Item) /\ trips \in Nat /\ open \in Nat /\ phase # "ended" /\ phase # "off"
      /\ late' = <<>> /\ UNCHANGED <<open, tags, out, seen, prompt, trips>> /\ gpiEdges' = <<>>
      /\ Ends(queue) = {} /\ After(queue, LastTrip, trips)
    BY Numbers DEF Inv, Types, Finishes, CallInv, EdgeInv, EndInv
<1>2. OnTheWay' = {}
    BY <1>1 DEF OnTheWay
<1>3. /\ \A a \in OnTheWay : a[1] = trips
      /\ Behind(queue)
      /\ \A i \in Up(queue) : \A t : t = queue[i].trip /\ Awaited(t) =>
            \A n \in 1..seen[t] : Coming(queue, i, <<t, n>>, OnTheWay)
      /\ (open # None => OpenInv)
    BY PromptFacts
<1>4. /\ Up(queue') = Up(queue) /\ Behind(queue') /\ TagsIn(queue') = TagsIn(queue)
      /\ \A i \in Up(queue) : queue'[i] = queue[i]
      /\ \A i \in Up(queue) : \A a, A : Coming(queue, i, a, A) => Coming(queue', i, a, A)
    <2>1. ASSUME NEW q \in Seq(Item), NEW x \in {EndItem, ErrorItem}, Behind(q)
          PROVE  LET r == Append(q, x)
                 IN  /\ r \in Seq(Item) /\ Up(r) = Up(q) /\ Behind(r) /\ TagsIn(r) = TagsIn(q)
                     /\ \A i \in Up(q) : r[i] = q[i]
                     /\ \A i \in Up(q) : \A a, A : Coming(q, i, a, A) => Coming(r, i, a, A)
        <3>1. x \in Item /\ x.kind \notin {"up", "tag"}
            BY <2>1, EndItems
        <3> DEFINE r == Append(q, x)
        <3>2. r \in Seq(Item) /\ Up(r) = Up(q)
            BY <2>1, <3>1, AppendEdges
        <3>3. TagsIn(r) = TagsIn(q)
            BY <2>1, <3>1, OtherTags
        <3>4. Behind(r) /\ \A i \in Up(q) : r[i] = q[i]
            BY <2>1, <3>1, ComingMore
        <3>5. \A i \in Up(q) : \A a, A : Coming(q, i, a, A) => Coming(r, i, a, A)
            BY <2>1, <3>1, ComingMore
        <3> QED
            BY <3>2, <3>3, <3>4, <3>5
    <2>2. CASE queue' = Append(queue, EndItem)
        BY <1>1, <1>3, <2>1, <2>2
    <2>3. CASE queue' = Append(Append(queue, ErrorItem), EndItem)
        <3> DEFINE p == Append(queue, ErrorItem)
        <3>1. /\ p \in Seq(Item) /\ Up(p) = Up(queue) /\ Behind(p) /\ TagsIn(p) = TagsIn(queue)
              /\ \A i \in Up(queue) : p[i] = queue[i]
              /\ \A i \in Up(queue) : \A a, A : Coming(queue, i, a, A) => Coming(p, i, a, A)
            BY <1>1, <1>3, <2>1
        <3>2. queue' = Append(p, EndItem)
            BY <2>3
        <3> HIDE DEF p
        <3>3. /\ Up(queue') = Up(p) /\ Behind(queue') /\ TagsIn(queue') = TagsIn(p)
              /\ \A i \in Up(p) : queue'[i] = p[i]
              /\ \A i \in Up(p) : \A a, A : Coming(p, i, a, A) => Coming(queue', i, a, A)
            BY <2>1, <3>1, <3>2
        <3> QED
            BY <3>1, <3>3
    <2> QED
        BY <2>2, <2>3 DEF Finishes
<1>5. ASSUME NEW t \in Nat, Later(queue', t) PROVE \A a \in OnTheWay : t < a[1]
    <2>1. PICK j \in Up(queue) : t < queue[j].trip
        BY <1>4, <1>5 DEF Later
    <2>2. queue[j].trip \in Nat /\ queue[j].trip <= trips
        BY <1>1, <2>1, ItemTypes DEF After
    <2>3. t < trips
        BY <1>1, <2>1, <2>2
    <2> QED
        BY <1>3, <2>3
<1>6. \A t : Awaited(t)
    BY <1>1 DEF Awaited
<1>7. phase' = "ended"
    BY DEF Finishes
<1>8. ASSUME NEW i \in Up(queue'), NEW t, t = queue'[i].trip, phase' = "ended" => Later(queue', t),
             NEW n \in 1..seen[t]
      PROVE  Coming(queue', i, <<t, n>>, OnTheWay')
    <2>1. i \in Up(queue) /\ t = queue[i].trip /\ t \in Nat /\ Later(queue', t)
        BY <1>1, <1>4, <1>7, <1>8, ItemTypes
    <2>2. <<t, n>> \notin OnTheWay
        BY <1>5, <2>1
    <2>3. Coming(queue, i, <<t, n>>, {})
        <3>1. Coming(queue, i, <<t, n>>, OnTheWay)
            BY <1>3, <1>6, <1>8, <2>1
        <3> QED
            BY <2>2, <3>1 DEF Coming
    <2> QED
        BY <1>2, <1>4, <2>1, <2>3
<1>9. ASSUME open' # None PROVE OpenInv'
    <2>1. OpenInv
        BY <1>1, <1>3, <1>9
    <2>2. Awaited(open)' => Awaited(open)
        BY <1>6
    <2>3. ASSUME Awaited(open)'
          PROVE  \A n \in 1..seen[open] :
                    <<open, n>> \in TagsIn(queue) \cup OnTheWay => <<open, n>> \in TagsIn(queue') \cup OnTheWay'
        <3>1. Later(queue', open)
            BY <1>1, <1>7, <2>3 DEF Awaited
        <3>2. \A n : <<open, n>> \notin OnTheWay
            BY <1>1, <1>5, <3>1
        <3> QED
            BY <1>4, <3>2
    <2> QED
        BY <1>1, <1>2, <1>4, <2>1, <2>2, <2>3, OpenKeeps
<1>10. \A i \in Up(gpiEdges') : seen[gpiEdges'[i].trip] = 0
    BY <1>1, EmptyQueue
<1>11. out' = out /\ prompt' = prompt /\ \A a \in OnTheWay' : a[1] = trips'
    BY <1>1, <1>2
<1> QED
    BY <1>1, <1>4, <1>8, <1>9, <1>10, <1>11, PromptRest

\* The grace period of the last trip is over: all its reads are there.
LEMMA PromptCloses ==
    ASSUME Inv, ReadsInv, EndInv, PromptInv, prompt, NEW why, Closes(why)
    PROVE  PromptInv'
<1>1. /\ Types /\ tags \in Seq(AnyTag) /\ open \in Nat /\ seen \in [Trips -> Nat] /\ open <= trips
      /\ trips <= MaxTrips /\ MaxTrips \in Nat /\ trips \in Nat
      /\ queue = <<>> /\ queue' = <<>> /\ open # None /\ open' = None /\ out' = Append(out, Window(why))
      /\ why \in {"settled", "forced"} /\ (why = "settled" => late = <<>>)
      /\ UNCHANGED <<trips, prompt, seen, late, gpiEdges, phase>>
    BY Numbers DEF Inv, Types, Closes
<1>2. /\ \A a \in OnTheWay : a[1] = trips
      /\ \A i \in Up(gpiEdges) : seen[gpiEdges[i].trip] = 0
      /\ OpenInv
    BY <1>1, PromptFacts
<1>3. Up(<<>>) = {} /\ Behind(<<>>) /\ TagsIn(<<>>) = {}
    BY EmptyQueue, EmptyTags DEF Behind
<1>4. ASSUME why \in {"settled", "next"} PROVE tags = [i \in 1..seen[open] |-> <<open, i>>]
    <2>1. late = <<>> /\ Awaited(open)
        <3>1. phase # "ended"
            BY <1>1, EmptyTags DEF EndInv
        <3> QED
            BY <1>1, <1>4, <3>1 DEF Awaited
    <2>2. OnTheWay = {} /\ TagsIn(queue) = {}
        BY <1>1, <1>3, <2>1 DEF OnTheWay
    <2>3. /\ \A k \in 1..Len(tags) : tags[k] = <<open, k>>
          /\ \A n \in 1..seen[open] : n <= Len(tags)
        BY <1>2, <2>1, <2>2 DEF OpenInv
    <2> QED
        BY <1>1, <2>3, WholeTags
<1>5. OnTheWay' = OnTheWay
    BY <1>1 DEF OnTheWay
<1> QED
    BY <1>1, <1>2, <1>3, <1>4, <1>5, PromptRest

\* A read is made: it is of the last trip, and its line is still active.
LEMMA PromptReads ==
    ASSUME Inv, ReadsInv, ReleaseInv, PromptInv, prompt, ReadTag
    PROVE  PromptInv'
<1> DEFINE a == <<trips, seen'[trips]>>
           r == Append(late, a)
<1>1. /\ Types /\ queue \in Seq(Item) /\ trips \in Nat /\ open \in Nat /\ open <= trips /\ trips <= MaxTrips
      /\ MaxTrips \in Nat /\ LastTrip \in Nat /\ late \in Seq(AnyTag) /\ seen \in [Trips -> Nat]
      /\ active /\ trips # 0 /\ phase = "armed" /\ line /\ gpiEdges = <<>> /\ After(queue, LastTrip, trips)
      /\ UNCHANGED <<trips, prompt, gpiEdges, phase, queue, open, tags, out>> /\ late' = r
      /\ seen' = [seen EXCEPT ![trips] = @ + 1]
    BY Numbers DEF Inv, Types, CallInv, EdgeInv, ReleaseInv, ReadTag, assembler
<1>2. /\ trips \in Trips /\ seen'[trips] = seen[trips] + 1 /\ seen[trips] \in Nat
      /\ \A t \in 1..trips : t \in Trips /\ (t # trips => seen'[t] = seen[t])
    <2>1. trips \in Trips /\ \A t \in 1..trips : t \in Trips
        BY <1>1 DEF Trips
    <2> QED
        BY <1>1, <2>1
<1>3. /\ Len(late) \in Nat /\ Len(r) = Len(late) + 1 /\ r[Len(late) + 1] = a
      /\ \A k \in 1..Len(late) : r[k] = late[k]
    <2>1. a \in AnyTag
        BY <1>1, <1>2 DEF AnyTag
    <2> HIDE DEF a
    <2> QED
        BY <1>1, <2>1, Appended
<1>4. a[1] = trips
    OBVIOUS
<1>5. \A n \in 1..seen'[trips] : n \in 1..seen[trips] \/ <<trips, n>> = a
    BY <1>2
<1> HIDE DEF r, a
<1>6. OnTheWay' = OnTheWay \cup {a}
    <2>1. 1..Len(r) = 1..Len(late) \cup {Len(late) + 1}
        BY <1>3
    <2>2. {r[k] : k \in 1..Len(r)} = {late[k] : k \in 1..Len(late)} \cup {a}
        BY <1>3, <2>1
    <2> QED
        BY <1>1, <2>2 DEF OnTheWay
<1>7. \A t \in 1..trips : \A n \in 1..seen'[t] : n \in 1..seen[t] \/ <<t, n>> = a
    BY <1>2, <1>5
<1>8. /\ \A b \in OnTheWay : b[1] = trips
      /\ Behind(queue)
      /\ \A i \in Up(queue) : \A t : t = queue[i].trip /\ Awaited(t) =>
            \A n \in 1..seen[t] : Coming(queue, i, <<t, n>>, OnTheWay)
      /\ (open # None => OpenInv)
      /\ \A i \in 1..Len(out) : out[i].why \in {"settled", "next"} => WholeWindow(out[i])
    BY PromptFacts
<1>9. \A t : Awaited(t)
    BY <1>1 DEF Awaited
<1>10. \A b \in OnTheWay' : b[1] = trips
    BY <1>4, <1>6, <1>8
<1>11. ASSUME NEW i \in Up(queue), NEW t, t = queue[i].trip, NEW n \in 1..seen'[t]
       PROVE  Coming(queue, i, <<t, n>>, OnTheWay')
    <2>1. t \in 1..trips
        <3>1. t \in Nat /\ LastTrip < t /\ t <= trips
            BY <1>1, <1>11, ItemTypes DEF After
        <3> QED
            BY <1>1, <3>1
    <2>2. CASE n \in 1..seen[t]
        <3>1. Coming(queue, i, <<t, n>>, OnTheWay)
            BY <1>8, <1>9, <1>11, <2>2
        <3> QED
            BY <1>6, <3>1 DEF Coming
    <2>3. CASE <<t, n>> = a
        BY <1>6, <2>3 DEF Coming
    <2> QED
        BY <1>7, <1>11, <2>1, <2>2, <2>3
<1>12. ASSUME open # None
       PROVE  /\ \A b \in TagsIn(queue) \cup OnTheWay' : open <= b[1]
              /\ \A k \in 1..Len(tags) : tags[k] = <<open, k>>
              /\ \A n \in 1..seen'[open] : n <= Len(tags) \/ <<open, n>> \in TagsIn(queue) \cup OnTheWay'
    <2>1. /\ \A b \in TagsIn(queue) \cup OnTheWay : open <= b[1]
          /\ \A k \in 1..Len(tags) : tags[k] = <<open, k>>
          /\ \A n \in 1..seen[open] : n <= Len(tags) \/ <<open, n>> \in TagsIn(queue) \cup OnTheWay
        BY <1>8, <1>9, <1>12 DEF OpenInv
    <2>2. open \in 1..trips
        BY <1>1, <1>12 DEF None
    <2> QED
        BY <1>1, <1>4, <1>6, <1>7, <2>1, <2>2
<1>13. ASSUME NEW i \in 1..Len(out), out[i].why \in {"settled", "next"}
       PROVE  out[i].tags = [j \in 1..seen'[out[i].trip] |-> <<out[i].trip, j>>]
    <2>1. out[i].trip \in 1..trips /\ Over(out[i].trip) /\ WholeWindow(out[i])
        BY <1>8, <1>13 DEF ReleaseInv
    <2>2. seen'[out[i].trip] = seen[out[i].trip]
        <3> DEFINE t == out[i].trip
        <3>1. t \in 1..trips /\ Over(t)
            BY <2>1
        <3> HIDE DEF t
        <3>2. t # trips
            BY <1>1, <3>1 DEF Over
        <3>3. seen'[t] = seen[t]
            BY <1>2, <3>1, <3>2
        <3> QED
            BY <3>3 DEF t
    <2> QED
        BY <2>1, <2>2 DEF WholeWindow
<1>14. \A i \in Up(gpiEdges') : seen'[gpiEdges'[i].trip] = 0
    BY <1>1, EmptyQueue
<1>15. \A i \in Up(queue') : \A n \in 1..seen'[queue'[i].trip] : Coming(queue', i, <<queue'[i].trip, n>>, OnTheWay')
    BY <1>1, <1>11
<1>16. (open # None => OpenInv)'
    BY <1>1, <1>12 DEF OpenInv
<1>17. \A i \in 1..Len(out') : out'[i].why \in {"settled", "next"} =>
          out'[i].tags = [j \in 1..seen'[out'[i].trip] |-> <<out'[i].trip, j>>]
    BY <1>1, <1>13
<1>18. /\ \A b \in OnTheWay' : b[1] = trips'
       /\ Behind(queue')
    BY <1>1, <1>8, <1>10
<1> QED
    BY <1>14, <1>15, <1>16, <1>17, <1>18 DEF PromptInv, WholeWindow

\* A read reaches the queue: it is of the last trip, behind its edge.
LEMMA PromptPumps ==
    ASSUME Inv, PromptInv, prompt, PumpRead
    PROVE  PromptInv'
<1> DEFINE a == Head(late)
           x == [kind |-> "tag", tag |-> a]
<1>1. /\ Types /\ queue \in Seq(Item) /\ late \in Seq(AnyTag) /\ late # <<>> /\ phase = "armed"
      /\ trips \in Nat /\ After(queue, LastTrip, trips)
      /\ UNCHANGED <<trips, prompt, seen, gpiEdges, phase, open, tags, out>>
      /\ late' = Tail(late) /\ queue' = Append(queue, x)
    BY Numbers DEF Inv, Types, CallInv, EdgeInv, PumpRead, reader, assembler
<1>2. /\ a \in AnyTag /\ a = late[1] /\ 1 \in 1..Len(late)
      /\ \A i \in 1..Len(late') : i + 1 \in 1..Len(late) /\ late'[i] = late[i + 1]
      /\ \A i \in 1..Len(late) : i # 1 => i - 1 \in 1..Len(late') /\ late'[i - 1] = late[i]
    BY <1>1, Taken
<1>3. x \in Item /\ x.kind = "tag" /\ x.tag = a
    BY <1>2 DEF Item
<1> HIDE DEF a, x
<1>4. OnTheWay = OnTheWay' \cup {a}
    <2>1. \A b \in OnTheWay : b = a \/ b \in OnTheWay'
        <3>1. \A i \in 1..Len(late) : late[i] = a \/ late[i] \in OnTheWay'
            BY <1>2 DEF OnTheWay
        <3> QED
            BY <3>1 DEF OnTheWay
    <2>2. OnTheWay' \subseteq OnTheWay /\ a \in OnTheWay
        BY <1>2 DEF OnTheWay
    <2> QED
        BY <2>1, <2>2
<1>5. /\ \A b \in OnTheWay : b[1] = trips
      /\ \A i \in Up(gpiEdges) : seen[gpiEdges[i].trip] = 0
      /\ Behind(queue)
      /\ \A i \in Up(queue) : \A t : t = queue[i].trip /\ Awaited(t) =>
            \A n \in 1..seen[t] : Coming(queue, i, <<t, n>>, OnTheWay)
      /\ (open # None => OpenInv)
    BY PromptFacts
<1>6. /\ TagsIn(queue') = TagsIn(queue) \cup {a} /\ Up(queue') = Up(queue)
    BY <1>1, <1>3, AppendItem, AppendEdges
<1>7. /\ \A i \in Up(queue) : queue'[i] = queue[i]
      /\ \A i \in Up(queue) : \A b, A : Coming(queue, i, b, A) => Coming(queue', i, b, A)
      /\ \A i \in Up(queue) : \A A : Coming(queue', i, a, A)
      /\ Behind(queue')
    <2>1. \A i \in Up(queue) : queue[i].trip <= a[1]
        BY <1>1, <1>4, <1>5 DEF After
    <2> QED
        BY <1>1, <1>3, <1>5, <2>1, ComingMore
<1>8. \A t : Awaited(t)
    BY <1>1 DEF Awaited
<1>9. ASSUME NEW i \in Up(queue'), NEW t, t = queue'[i].trip, NEW n \in 1..seen[t]
      PROVE  Coming(queue', i, <<t, n>>, OnTheWay')
    <2>1. i \in Up(queue) /\ t = queue[i].trip
        BY <1>6, <1>7, <1>9
    <2>2. Coming(queue', i, <<t, n>>, OnTheWay)
        BY <1>5, <1>7, <1>8, <1>9, <2>1
    <2>3. CASE <<t, n>> = a
        BY <1>7, <2>1, <2>3
    <2>4. CASE <<t, n>> # a
        BY <1>4, <2>2, <2>4 DEF Coming
    <2> QED
        BY <2>3, <2>4
<1>10. ASSUME open' # None PROVE OpenInv'
    <2>1. OpenInv /\ (Awaited(open)' => Awaited(open))
        BY <1>1, <1>5, <1>8, <1>10
    <2>2. TagsIn(queue') \cup OnTheWay' = TagsIn(queue) \cup OnTheWay
        BY <1>4, <1>6
    <2> QED
        BY <1>1, <2>1, <2>2, OpenKeeps
<1>11. out' = out /\ prompt' = prompt /\ seen' = seen /\ \A b \in OnTheWay' : b[1] = trips'
    BY <1>1, <1>4, <1>5
<1>12. \A i \in Up(gpiEdges') : seen[gpiEdges'[i].trip] = 0
    BY <1>1, <1>5
<1> QED
    BY <1>1, <1>7, <1>9, <1>10, <1>11, <1>12, PromptRest

LEMMA PromptStep ==
    ASSUME ContentsInv, [Next]_wvars
    PROVE  PromptInv'
<1>1. Inv /\ ReadsInv /\ TripInv /\ ReleaseInv /\ EndInv /\ PromptInv /\ Types /\ trips \in Nat
    BY Numbers DEF ContentsInv, Inv
<1>2. prompt' = prompt
    BY <1>1, StepForms
    DEF Begins, Stops, Lines, Rests, Starts, Finishes, Leaves, Opens, Follows, Releases, Collects, Folds,
        Closes, ReadTag, PumpRead, reader
<1>3. CASE ~prompt
    BY <1>2, <1>3 DEF PromptInv
<1>4. ASSUME prompt PROVE PromptInv'
    <2>1. /\ \A a \in OnTheWay : a[1] = trips
          /\ \A i \in Up(gpiEdges) : seen[gpiEdges[i].trip] = 0
          /\ Behind(queue)
          /\ \A i \in Up(queue) : \A t : t = queue[i].trip /\ Awaited(t) =>
                \A n \in 1..seen[t] : Coming(queue, i, <<t, n>>, OnTheWay)
          /\ (open # None => OpenInv)
        BY <1>1, <1>4, PromptFacts
    <2>2. CASE Begins
        <3>1. late = <<>> /\ trips' = trips + 1 /\ trips < MaxTrips /\ Lines("up") /\ out' = out
            BY <1>4, <2>2 DEF Begins, Lines
        <3>2. OnTheWay = {}
            BY <3>1 DEF OnTheWay
        <3>3. seen[trips'] = 0
            <4>1. MaxTrips \in Nat /\ \A t \in Trips : t > trips => seen[t] = 0
                BY <1>1, Numbers DEF ReadsInv
            <4>2. trips' \in Trips /\ trips' > trips
                BY <1>1, <3>1, <4>1 DEF Trips
            <4> QED
                BY <4>1, <4>2
        <3> QED
            BY <1>1, <1>4, <3>1, <3>2, <3>3, PromptLines
    <2>3. CASE Stops
        <3>1. Lines("down") /\ trips' = trips /\ out' = out
            BY <2>3 DEF Stops, Lines
        <3> QED
            BY <1>1, <1>4, <2>1, <3>1, PromptLines
    <2>4. CASE Rests
        <3>1. /\ UNCHANGED <<trips, seen, late, gpiEdges, queue, open, tags, out>>
              /\ (phase' = "ended" <=> phase = "ended")
            BY <2>4 DEF Rests
        <3>2. OnTheWay' = OnTheWay /\ \A n : (phase' = "ended" => Later(queue', n)) => Awaited(n)
            BY <3>1 DEF OnTheWay, Awaited
        <3>3. open' # None => OpenInv'
            <4>1. Awaited(open)' => Awaited(open)
                BY <3>1 DEF Awaited
            <4> QED
                BY <2>1, <3>1, <3>2, <4>1, OpenKeeps
        <3> QED
            BY <1>1, <1>2, <1>4, <2>1, <3>1, <3>2, <3>3, PromptRest
    <2>5. CASE Starts
        <3>1. /\ UNCHANGED <<trips, seen, late, open, out>> /\ queue' = gpiEdges /\ gpiEdges' = <<>>
              /\ open = None /\ gpiEdges \in Seq(Edge)
            BY <1>1, <2>5 DEF Starts, Inv, CallInv, Types
        <3>2. OnTheWay' = OnTheWay /\ Behind(queue')
            BY <3>1, EdgesOnly DEF OnTheWay, Behind
        <3>3. \A i \in Up(queue') : \A t : t = queue'[i].trip => seen[t] = 0
            BY <2>1, <3>1
        <3>4. \A i \in Up(queue') : \A t : t = queue'[i].trip /\ (phase' = "ended" => Later(queue', t)) =>
                 \A n \in 1..seen[t] : Coming(queue', i, <<t, n>>, OnTheWay')
            BY <3>3
        <3>5. Up(gpiEdges') = {}
            BY <3>1, EmptyQueue
        <3> QED
            BY <1>1, <1>2, <1>4, <2>1, <3>1, <3>2, <3>4, <3>5, PromptRest
    <2>6. CASE Finishes
        BY <1>1, <1>4, <2>6, PromptFinishes
    <2>7. CASE Leaves
        <3>1. /\ UNCHANGED <<trips, seen, gpiEdges>> /\ late' = <<>> /\ queue' = <<>> /\ open' = None
              /\ out' = out \/ \E why : out' = Append(out, Window(why))
                                        /\ (why \in {"settled", "next"} => tags = [i \in 1..seen[open] |-> <<open, i>>])
            BY <2>7 DEF Leaves
        <3>2. OnTheWay' = {} /\ Up(queue') = {} /\ Behind(queue')
            BY <3>1, EmptyQueue DEF OnTheWay, Behind
        <3>3. \A i \in Up(gpiEdges') : seen[gpiEdges'[i].trip] = 0
            BY <2>1, <3>1
        <3> QED
            BY <1>1, <1>2, <1>4, <3>1, <3>2, <3>3, PromptRest
    <2>8. CASE Opens \/ Follows
        BY <1>1, <1>4, <2>8, PromptOpens
    <2>9. CASE Releases
        BY <1>1, <1>4, <2>9, PromptReleases
    <2>10. CASE Collects
        BY <1>1, <1>4, <2>10, PromptCollects
    <2>11. ASSUME NEW why, Closes(why) PROVE PromptInv'
        BY <1>1, <1>4, <2>11, PromptCloses
    <2>12. CASE ReadTag
        BY <1>1, <1>4, <2>12, PromptReads
    <2>13. CASE PumpRead
        BY <1>1, <1>4, <2>13, PromptPumps
    <2> QED
        BY <1>1, <2>2, <2>3, <2>4, <2>5, <2>6, <2>7, <2>8, <2>9, <2>10, <2>11, <2>12, <2>13, StepForms
<1> QED
    BY <1>3, <1>4

-----------------------------------------------------------------------------
(* The theorem.                                                            *)

LEMMA InitContents == WindowsInit => ContentsInv
<1> SUFFICES ASSUME WindowsInit PROVE ContentsInv
    OBVIOUS
<1>1. /\ Inv /\ line = FALSE /\ trips = 0 /\ active = FALSE /\ settling = FALSE /\ phase = "off"
      /\ late = <<>> /\ gpiEdges = <<>> /\ queue = <<>> /\ tags = <<>> /\ out = <<>> /\ open = None
      /\ \A t \in Trips : seen[t] = 0
    BY InitInv DEF WindowsInit
<1>2. /\ Handed = {} /\ Held = {} /\ OnTheWay = {} /\ Len(out) = 0
      /\ TagsIn(queue) = {} /\ Carried(queue) = {} /\ RisingTags(queue) /\ Up(queue) = {} /\ Ends(queue) = {}
      /\ Rising(tags) /\ Rising(late)
    BY <1>1, EmptyTags, EmptyQueue DEF Handed, Held, OnTheWay, Rising
<1>3. ReadsInv
    <2>1. \A t \in Trips : seen[t] <= MaxReads
        BY <1>1, WindowsAssumption
    <2> QED
        BY <1>1, <1>2, <2>1 DEF ReadsInv, Before
<1>4. TripInv
    BY <1>1, <1>2 DEF TripInv, Edged
<1>5. ReleaseInv
    BY <1>1, <1>2, NoDowns DEF ReleaseInv
<1>6. EndInv
    BY <1>1, <1>2, WindowsAssumption DEF EndInv
<1>7. PromptInv
    BY <1>1, <1>2 DEF PromptInv, Behind
<1> QED
    BY <1>1, <1>3, <1>4, <1>5, <1>6, <1>7 DEF ContentsInv

LEMMA NextContents ==
    ASSUME ~BlindGaps, ContentsInv, [Next]_wvars
    PROVE  ContentsInv'
<1>1. Inv /\ ReadsInv /\ TripInv /\ ReleaseInv /\ EndInv
    BY DEF ContentsInv
<1> QED
    BY <1>1, NextInv, ReadsStep, TripStep, ReleaseStep, EndStep, PromptStep DEF ContentsInv

LEMMA ContentsHolds == ContentsInv => Contents
<1> SUFFICES ASSUME ContentsInv PROVE Contents
    OBVIOUS
<1>1. /\ Inv /\ ReadsInv /\ TripInv /\ ReleaseInv /\ EndInv /\ PromptInv /\ Types
      /\ MaxTrips \in Nat /\ trips \in Nat /\ trips <= MaxTrips /\ MaxReads \in Nat
    BY Numbers, WindowsAssumption DEF ContentsInv, Inv
<1>2. /\ Range(late) = OnTheWay /\ Range(tags) = Held
      /\ DOMAIN out = 1..Len(out) /\ \A w \in Range(out) : \E i \in 1..Len(out) : w = out[i]
      /\ \A i \in 1..Len(out) : DOMAIN out[i].tags = 1..Len(out[i].tags) /\ out[i].why \in Why
    <2>1. DOMAIN late = 1..Len(late) /\ DOMAIN tags = 1..Len(tags) /\ DOMAIN out = 1..Len(out)
        BY <1>1 DEF Types
    <2>2. \A i \in 1..Len(out) : out[i] \in AnyWindow
        BY <1>1 DEF Types
    <2>3. \A w \in AnyWindow : DOMAIN w.tags = 1..Len(w.tags) /\ w.why \in Why
        BY DEF AnyWindow
    <2> QED
        BY <2>1, <2>2, <2>3 DEF Range, OnTheWay, Held
<1>3. TypeOK
    <2>1. Range(late) \subseteq Tag /\ Range(tags) \subseteq Tag
        <3>1. ASSUME NEW a \in Made PROVE a \in Tag
            <4>1. a \in AnyTag /\ a[1] \in 1..trips /\ a[2] \in 1..seen[a[1]] /\ a = <<a[1], a[2]>>
                BY <3>1 DEF Made, AnyTag
            <4>2. a[1] \in Trips /\ seen[a[1]] \in Nat /\ seen[a[1]] <= MaxReads
                BY <1>1, <4>1 DEF Trips, Types, ReadsInv
            <4>3. a[2] \in 1..MaxReads
                BY <1>1, <4>1, <4>2
            <4> QED
                BY <4>1, <4>2, <4>3 DEF Tag
        <3> QED
            BY <1>1, <1>2, <3>1 DEF ReadsInv
    <2>2. \A t \in Trips : seen[t] \in 0..MaxReads
        BY <1>1 DEF Types, ReadsInv
    <2>3. \A w \in Range(out) : w.trip \in 1..trips /\ w.why \in Why
        BY <1>1, <1>2 DEF ReleaseInv
    <2>4. {line, active, enabled, connected, settling} \subseteq BOOLEAN
        BY <1>1 DEF Types
    <2>5. trips \in 0..MaxTrips /\ open \in 0..trips /\ Len(gpiEdges) <= QueueSize
        BY <1>1 DEF Types, EndInv
    <2>6. /\ open = None => ~settling /\ tags = <<>>
          /\ phase = "off" => open = None /\ queue = <<>>
        BY <1>1 DEF Inv, CallInv, TripInv
    <2> QED
        BY <2>1, <2>2, <2>3, <2>4, <2>5, <2>6 DEF TypeOK
<1>4. TagsOnce
    <2>1. \A w \in Range(out) : \A tag \in Range(w.tags) : tag[1] <= w.trip
        BY <1>1, <1>2 DEF TripInv, Range
    <2>2. \A i, j \in DOMAIN out : \A k \in DOMAIN out[i].tags, l \in DOMAIN out[j].tags :
              i < j \/ (i = j /\ k < l) => Earlier(out[i].tags[k], out[j].tags[l])
        BY <1>1, <1>2 DEF ReadsInv
    <2> QED
        BY <2>1, <2>2 DEF TagsOnce
<1>5. Whole
    BY <1>1, <1>2 DEF Whole, PromptInv, WholeWindow
<1> QED
    BY <1>3, <1>4, <1>5 DEF Contents

\* What the windows of a call hold, whatever settles, is forced closed, finishes
\* or is lost in between: each read once and in the order of reading, never one
\* of a trip that had not begun; and if reads arrive within the grace period and
\* before the next trip, a window that its trip has closed has all of its trip
\* (assemble_windows of windows.py: the tags that come after the closing edge).
THEOREM WindowsHoldTheirReads ==
    ASSUME ~BlindGaps
    PROVE  Spec => []Contents
<1>1. ContentsInv /\ [Next]_wvars => ContentsInv'
    BY NextContents
<1> QED
    BY <1>1, InitContents, ContentsHolds, PTL DEF Spec
=============================================================================
