--------------------------- MODULE WebhookProofs ---------------------------
(***************************************************************************)
(* Webhook proved for any set of tags, any sizes of queue, batch and       *)
(* backlog and any time of departure: nothing is lost in silence, and with *)
(* a receiver that answers at once no tag departs that is being read.      *)
(***************************************************************************)
EXTENDS Webhook, FiniteSetTheorems, SequenceTheorems, TLAPS

(***************************************************************************)
(* The inductive invariant.                                                *)
(***************************************************************************)

\* The sequence counts on from k.
Counts(s, k) == \A i \in 1..Len(s) : s[i] = k + i

\* The number of events that have left the backlog.
Left == emitted - Len(pending)

\* What has become of each event: those that left come before those that are
\* pending, and the receiver may be ahead of what was acknowledged.
Ledger ==
    /\ emitted \in Nat /\ posted \in Nat /\ dropped \in Nat
    /\ pending \in Seq(Nat) /\ Counts(pending, Left)
    /\ posted + dropped = Left
    /\ gone \subseteq 1..Left /\ Cardinality(gone) = dropped
    /\ received \subseteq 1..emitted
    /\ 1..Left \subseteq received \cup gone
    /\ \A n \in received : 1..n \subseteq received \cup gone

Visit == [reads : 1..MinReads, silence : 0..DepartAfter]

\* The state of the loop.
LoopInv ==
    /\ source \in BOOLEAN /\ cancelled \in BOOLEAN /\ slow \in BOOLEAN
    /\ pc \in {"get", "post", "goodbye", "done"}
    /\ queue \in Seq(Epcs) /\ Len(queue) <= QueueSize
    /\ DOMAIN visits \subseteq Epcs
    /\ \A e \in DOMAIN visits : visits[e] \in Visit
    /\ gap \in [Epcs -> 0..DepartAfter]
    /\ Len(pending) <= MaxPending
    /\ Posting => pending # <<>>

\* With a receiver that answers at once, and while the loop goes on, a visit is
\* as old as the last read of its tag, unless reads of the tag wait in the
\* queue, which are new then.
AgeInv ==
    ~slow /\ pc \in {"get", "post"} =>
        /\ \A e \in Epcs : e \in Range(queue) => gap[e] = 0
        /\ \A e \in DOMAIN visits :
             /\ \/ e \in Range(queue) \/ e \in silent
                \/ visits[e].silence = gap[e]
             /\ visits[e].silence = DepartAfter => e \in silent

-----------------------------------------------------------------------------
(* Sequences that count.                                                   *)

\* What is left when the first c are cut off, and what those were.
LEMMA Cut ==
    ASSUME NEW s \in Seq(Nat), NEW k \in Nat, Counts(s, k), NEW c \in 0..Len(s)
    PROVE  /\ SubSeq(s, c + 1, Len(s)) \in Seq(Nat)
           /\ Len(SubSeq(s, c + 1, Len(s))) = Len(s) - c
           /\ Counts(SubSeq(s, c + 1, Len(s)), k + c)
           /\ {s[i] : i \in 1..c} = (k + 1)..(k + c)
<1>1. PICK n \in Nat : n = Len(s)
    OBVIOUS
<1>2. /\ SubSeq(s, c + 1, n) \in Seq(Nat)
      /\ Len(SubSeq(s, c + 1, n)) = n - c
      /\ \A i \in 1..(n - c) : SubSeq(s, c + 1, n)[i] = s[c + i]
    BY <1>1
<1>3. ASSUME NEW i \in 1..(n - c) PROVE SubSeq(s, c + 1, n)[i] = (k + c) + i
    <2>1. c + i \in 1..n
        BY <1>1
    <2> QED
        BY <1>1, <1>2, <2>1 DEF Counts
<1>4. ASSUME NEW m \in (k + 1)..(k + c) PROVE m \in {s[i] : i \in 1..c}
    <2>1. m - k \in 1..c /\ m - k \in 1..n
        BY <1>1
    <2>2. s[m - k] = k + (m - k)
        BY <1>1, <2>1 DEF Counts
    <2> QED
        BY <2>1, <2>2
<1>5. ASSUME NEW i \in 1..c PROVE s[i] \in (k + 1)..(k + c)
    BY <1>1 DEF Counts
<1> QED
    BY <1>1, <1>2, <1>3, <1>4, <1>5 DEF Counts

\* The first c of a sequence.
LEMMA Prefix ==
    ASSUME NEW s \in Seq(Nat), NEW k \in Nat, Counts(s, k), NEW c \in 0..Len(s)
    PROVE  /\ Len(SubSeq(s, 1, c)) = c
           /\ Range(SubSeq(s, 1, c)) = (k + 1)..(k + c)
<1>1. /\ DOMAIN SubSeq(s, 1, c) = 1..c /\ Len(SubSeq(s, 1, c)) = c
      /\ \A i \in 1..c : SubSeq(s, 1, c)[i] = s[i]
    OBVIOUS
<1>2. Range(SubSeq(s, 1, c)) = {s[i] : i \in 1..c}
    BY <1>1, Zenon DEF Range
<1>3. {s[i] : i \in 1..c} = (k + 1)..(k + c)
    BY Cut, Zenon
<1> QED
    BY <1>1, <1>2, <1>3, Zenon

\* m more of them.
LEMMA Extend ==
    ASSUME NEW s \in Seq(Nat), NEW k \in Nat, Counts(s, k),
           NEW e \in Nat, e = k + Len(s), NEW m \in Nat
    PROVE  /\ s \o [i \in 1..m |-> e + i] \in Seq(Nat)
           /\ Len(s \o [i \in 1..m |-> e + i]) = Len(s) + m
           /\ Counts(s \o [i \in 1..m |-> e + i], k)
<1> DEFINE new == [i \in 1..m |-> e + i]
<1>1. new \in Seq(Nat) /\ Len(new) = m /\ \A i \in 1..m : new[i] = e + i
    OBVIOUS
<1> HIDE DEF new
<1>2. PICK n \in Nat : n = Len(s)
    OBVIOUS
<1>3. /\ s \o new \in Seq(Nat) /\ Len(s \o new) = n + m
      /\ \A i \in 1..(n + m) :
           (s \o new)[i] = IF i <= n THEN s[i] ELSE new[i - n]
    <2>1. /\ s \o new \in Seq(Nat) /\ Len(s \o new) = Len(s) + Len(new)
          /\ \A i \in 1..Len(s) + Len(new) :
               (s \o new)[i] = IF i <= Len(s) THEN s[i] ELSE new[i - Len(s)]
        BY <1>1, ConcatProperties, Zenon
    <2> QED
        BY <1>1, <1>2, <2>1, Zenon
<1>4. ASSUME NEW i \in 1..(n + m) PROVE (s \o new)[i] = k + i
    <2>1. CASE i <= n
        BY <1>2, <1>3, <2>1 DEF Counts
    <2>2. CASE i > n
        <3>1. i - n \in 1..m
            BY <2>2
        <3>2. new[i - n] = e + (i - n)
            BY <1>1, <3>1
        <3> QED
            BY <1>2, <1>3, <2>2, <3>2
    <2>3. i <= n \/ i > n
        OBVIOUS
    <2> QED
        BY <2>1, <2>2, <2>3
<1> QED
    BY <1>2, <1>3, <1>4 DEF Counts, new

-----------------------------------------------------------------------------
(* The ledger.                                                             *)

\* The receiver takes in, or the backlog loses, the c events after the k first.
LEMMA PrefixGrows ==
    ASSUME NEW R, NEW G, R \subseteq Nat, NEW k \in Nat, NEW c \in Nat,
           NEW D, D = (k + 1)..(k + c),
           1..k \subseteq R \cup G,
           \A n \in R : 1..n \subseteq R \cup G
    PROVE  /\ \A n \in R \cup D : 1..n \subseteq (R \cup D) \cup G
           /\ \A n \in R : 1..n \subseteq R \cup (G \cup D)
           /\ 1..(k + c) \subseteq (R \cup D) \cup G
<1>1. ASSUME NEW n \in D, NEW i \in 1..n PROVE i \in 1..k \/ i \in D
    OBVIOUS
<1>2. ASSUME NEW i \in 1..(k + c) PROVE i \in 1..k \/ i \in D
    OBVIOUS
<1>3. ASSUME NEW n \in R \cup D PROVE 1..n \subseteq (R \cup D) \cup G
    BY <1>1, Zenon
<1>4. 1..(k + c) \subseteq (R \cup D) \cup G
    BY <1>2, Zenon
<1> QED
    BY <1>3, <1>4, Zenon

\* The numbers behind the ledger.
LEMMA LedgerNumbers ==
    ASSUME Ledger
    PROVE  \E k, n \in Nat : /\ k = Left /\ n = Len(pending) /\ emitted = k + n
                             /\ posted + dropped = k
<1>1. Len(pending) \in Nat /\ posted + dropped \in Nat
    BY DEF Ledger
<1> QED
    BY <1>1 DEF Ledger, Left

LEMMA Sizes == /\ QueueSize \in Nat \ {0} /\ BatchMax \in Nat \ {0}
               /\ Backlog \in Nat \ {0} /\ MaxPending \in Nat
<1>1. /\ QueueSize \in Nat \ {0} /\ BatchMax \in Nat \ {0}
      /\ Backlog \in Nat \ {0}
    BY WebhookAssumption
<1> QED
    BY <1>1 DEF MaxPending

\* What a post carries.
LEMMA ChunkIs ==
    ASSUME Ledger, NEW k \in Nat, NEW n \in Nat, k = Left, n = Len(pending)
    PROVE  \E c \in 0..n : /\ c = Len(Chunk) /\ Range(Chunk) = (k + 1)..(k + c)
                           /\ n # 0 => c # 0
<1>1. PICK c \in 0..n : c = UpTo(n, BatchMax) /\ (n # 0 => c # 0)
    BY Sizes DEF UpTo
<1>2. Chunk = SubSeq(pending, 1, c)
    BY <1>1 DEF Chunk
<1>3. pending \in Seq(Nat) /\ Counts(pending, k)
    BY DEF Ledger
<1>4. Len(SubSeq(pending, 1, c)) = c /\ Range(SubSeq(pending, 1, c)) = (k + 1)..(k + c)
    BY <1>3, Prefix
<1> QED
    BY <1>1, <1>2, <1>4

LEMMA PerhapsLedger ==
    ASSUME Ledger, Perhaps,
           UNCHANGED <<pending, posted, dropped, gone, emitted>>
    PROVE  Ledger'
<1>1. PICK k \in Nat, n \in Nat : k = Left /\ n = Len(pending) /\ emitted = k + n
    BY LedgerNumbers
<1>2. PICK c \in 0..n : Range(Chunk) = (k + 1)..(k + c)
    BY <1>1, ChunkIs
<1>3. CASE received' = received
    BY <1>3 DEF Ledger, Left
<1>4. CASE received' = received \cup Range(Chunk)
    <2>1. received \subseteq Nat /\ 1..k \subseteq received \cup gone
        BY <1>1 DEF Ledger
    <2>2. \A i \in received : 1..i \subseteq received \cup gone
        BY DEF Ledger
    <2>3. c \in Nat /\ received' = received \cup ((k + 1)..(k + c))
        BY <1>2, <1>4
    <2>5. \A i \in received' : 1..i \subseteq received' \cup gone
        BY <2>1, <2>2, <2>3, PrefixGrows
    <2>4. received' \subseteq 1..emitted
        BY <1>1, <1>2, <1>4 DEF Ledger
    <2> QED
        BY <1>4, <2>4, <2>5 DEF Ledger, Left
<1> QED
    BY <1>3, <1>4 DEF Perhaps

LEMMA AcknowledgedLedger ==
    ASSUME Ledger, Acknowledged, UNCHANGED <<dropped, gone, emitted>>
    PROVE  Ledger' /\ Len(pending') <= Len(pending)
<1>1. PICK k \in Nat, n \in Nat : /\ k = Left /\ n = Len(pending)
                                  /\ emitted = k + n /\ posted + dropped = k
    BY LedgerNumbers
<1>2. PICK c \in 0..n : c = Len(Chunk) /\ Range(Chunk) = (k + 1)..(k + c)
    BY <1>1, ChunkIs
<1>3. pending' = SubSeq(pending, c + 1, Len(pending)) /\ posted' = posted + c
    BY <1>1, <1>2 DEF Acknowledged
<1>4. /\ pending' \in Seq(Nat) /\ Len(pending') = n - c
      /\ Counts(pending', k + c)
    BY <1>1, <1>3, Cut DEF Ledger
<1>5. Left' = k + c
    BY <1>1, <1>4 DEF Left
<1>6. posted' \in Nat /\ posted' + dropped' = k + c
    BY <1>1, <1>3 DEF Ledger
<1>7. /\ received \subseteq Nat /\ 1..k \subseteq received \cup gone
      /\ \A i \in received : 1..i \subseteq received \cup gone
    BY <1>1 DEF Ledger
<1>8. c \in Nat /\ received' = received \cup ((k + 1)..(k + c))
    BY <1>2 DEF Acknowledged
<1>9. /\ \A i \in received' : 1..i \subseteq received' \cup gone
      /\ 1..(k + c) \subseteq received' \cup gone
    BY <1>7, <1>8, PrefixGrows
<1>10. received' \subseteq 1..emitted /\ gone \subseteq 1..(k + c)
    BY <1>1, <1>8 DEF Ledger
<1>11. Counts(pending', Left')
    BY <1>4, <1>5
<1>12. n - c <= n
    OBVIOUS
<1>13. Len(pending') <= Len(pending)
    BY <1>1, <1>4, <1>12
<1>14. emitted' \in Nat /\ dropped' \in Nat /\ Cardinality(gone') = dropped'
    BY DEF Ledger
<1> QED
    BY <1>4, <1>5, <1>6, <1>9, <1>10, <1>11, <1>13, <1>14, Zenon DEF Ledger

LEMMA EmitLedger ==
    ASSUME Ledger, NEW count \in Nat, Emit(count)
    PROVE  Ledger' /\ Len(pending') <= MaxPending
<1>1. PICK k \in Nat, n \in Nat : /\ k = Left /\ n = Len(pending)
                                  /\ emitted = k + n /\ posted + dropped = k
    BY LedgerNumbers
<1> DEFINE events == pending \o [i \in 1..count |-> emitted + i]
<1>2. events \in Seq(Nat) /\ Len(events) = n + count /\ Counts(events, k)
    BY <1>1, Extend DEF Ledger
<1>3. Trim(events) /\ emitted' = emitted + count /\ UNCHANGED <<posted, received>>
    BY DEF Emit
<1> HIDE DEF events
<1>4. PICK o \in 0..(n + count) :
          o = IF Len(events) > MaxPending THEN Len(events) - MaxPending ELSE 0
    <2>1. PICK l \in Nat, b \in Nat : l = n + count /\ b = MaxPending
        BY Sizes
    <2>2. PICK o \in 0..l : o = IF l > b THEN l - b ELSE 0
        OBVIOUS
    <2> QED
        BY <1>2, <2>1, <2>2
<1>5. /\ pending' = SubSeq(events, o + 1, Len(events))
      /\ dropped' = dropped + o
      /\ gone' = gone \cup {events[i] : i \in 1..o}
    BY <1>3, <1>4 DEF Trim
<1>6. /\ pending' \in Seq(Nat) /\ Len(pending') = (n + count) - o
      /\ Counts(pending', k + o) /\ {events[i] : i \in 1..o} = (k + 1)..(k + o)
    BY <1>2, <1>5, Cut
<1>7. Left' = k + o
    BY <1>1, <1>3, <1>6 DEF Left
<1>8. dropped' \in Nat /\ posted' \in Nat /\ posted' + dropped' = k + o
    BY <1>1, <1>3, <1>5 DEF Ledger
<1>9. gone' \subseteq 1..(k + o) /\ Cardinality(gone') = dropped'
    <2>1. gone \subseteq 1..k /\ Cardinality(gone) = dropped /\ dropped \in Nat
        BY <1>1 DEF Ledger
    <2>2. IsFiniteSet(1..k) /\ IsFiniteSet((k + 1)..(k + o))
        BY FS_Interval
    <2>3. IsFiniteSet(gone)
        BY <2>1, <2>2, FS_Subset
    <2>4. Cardinality((k + 1)..(k + o)) = o
        BY FS_Interval
    <2>5. gone \cap ((k + 1)..(k + o)) = {}
        BY <2>1
    <2>6. Cardinality({}) = 0
        BY FS_EmptySet
    <2>7. Cardinality(gone \cup ((k + 1)..(k + o)))
            = Cardinality(gone) + Cardinality((k + 1)..(k + o))
                - Cardinality(gone \cap ((k + 1)..(k + o)))
        BY <2>2, <2>3, FS_Union, Zenon
    <2>8. Cardinality(gone \cup ((k + 1)..(k + o))) = dropped + o - 0
        BY <2>1, <2>4, <2>5, <2>6, <2>7, Zenon
    <2>9. dropped + o - 0 = dropped + o
        BY <2>1
    <2>10. gone' = gone \cup ((k + 1)..(k + o)) /\ dropped' = dropped + o
        BY <1>5, <1>6
    <2>11. gone \cup ((k + 1)..(k + o)) \subseteq 1..(k + o)
        BY <2>1
    <2> QED
        BY <2>8, <2>9, <2>10, <2>11, Zenon
<1>10. /\ received \subseteq Nat /\ 1..k \subseteq received \cup gone
       /\ \A i \in received : 1..i \subseteq received \cup gone
    BY <1>1 DEF Ledger
<1>11. o \in Nat /\ gone' = gone \cup ((k + 1)..(k + o))
    BY <1>5, <1>6
<1>12. /\ \A i \in received' : 1..i \subseteq received' \cup gone'
       /\ 1..(k + o) \subseteq received' \cup gone'
    BY <1>3, <1>10, <1>11, PrefixGrows
<1>13. received' \subseteq 1..emitted' /\ emitted' \in Nat
    BY <1>1, <1>3 DEF Ledger
<1>14. Counts(pending', Left')
    BY <1>6, <1>7
<1>15. Len(pending') <= MaxPending
    BY <1>2, <1>4, <1>6, Sizes
<1> QED
    BY <1>6, <1>7, <1>8, <1>9, <1>12, <1>13, <1>14, <1>15 DEF Ledger

-----------------------------------------------------------------------------
(* The tracker.                                                            *)

\* What the table of visits is.
Table(v) == DOMAIN v \subseteq Epcs /\ \A e \in DOMAIN v : v[e] \in Visit

LEMMA Times == MinReads \in Nat \ {0} /\ DepartAfter \in Nat \ {0}
BY PresenceAssumption

\* A read of a tag: its visit is new or goes on, the others stay.
LEMMA ObserveTable ==
    ASSUME NEW v, Table(v), NEW e \in Epcs
    PROVE  /\ Table(Observe(v, e))
           /\ DOMAIN Observe(v, e) = DOMAIN v \cup {e}
           /\ Observe(v, e)[e].silence = 0
           /\ \A d \in DOMAIN v \ {e} : Observe(v, e)[d] = v[d]
           /\ Present(v) \subseteq Present(Observe(v, e))
<1> DEFINE new == [reads |-> Seen(v, e), silence |-> 0]
<1>1. Observe(v, e) = [d \in DOMAIN v \cup {e} |-> IF d = e THEN new ELSE v[d]]
    BY DEF Observe, Replaced
<1>2. Seen(v, e) \in 1..MinReads
    BY Times DEF Table, Visit, UpTo, Seen
<1>3. new \in Visit
    BY <1>2, Times DEF Visit
<1>4. e \in DOMAIN v /\ v[e].reads = MinReads => new.reads = MinReads
    BY Times DEF UpTo, Seen
<1> HIDE DEF new
<1>5. DOMAIN Observe(v, e) = DOMAIN v \cup {e}
    BY <1>1
<1>6. /\ Observe(v, e)[e] = new
      /\ \A d \in DOMAIN v \ {e} : Observe(v, e)[d] = v[d]
    BY <1>1
<1>7. Table(Observe(v, e))
    BY <1>3, <1>5, <1>6 DEF Table
<1>8. Present(v) \subseteq Present(Observe(v, e))
    BY <1>4, <1>5, <1>6 DEF Present, Announced
<1> QED
    BY <1>5, <1>6, <1>7, <1>8 DEF new

\* A check ends visits and changes none; who departs has been silent.
LEMMA CheckTable ==
    ASSUME NEW v, Table(v)
    PROVE  /\ Table(Check(v))
           /\ DOMAIN Check(v) = DOMAIN v \ Over(v)
           /\ \A e \in DOMAIN Check(v) : Check(v)[e] = v[e]
           /\ Present(v) \ Present(Check(v)) \subseteq Over(v)
           /\ Cardinality(Departs(v)) \in Nat
<1>1. Check(v) = [e \in DOMAIN v \ Over(v) |-> v[e]]
    BY DEF Check, Restrict
<1>2. Departs(v) \subseteq Epcs
    BY DEF Departs, Over, Table
<1>3. Cardinality(Departs(v)) \in Nat
    BY <1>2, WebhookAssumption, FS_Subset, FS_CardinalityType
<1>4. Present(v) \ Present(Check(v)) \subseteq Over(v)
    BY <1>1 DEF Present, Announced
<1> QED
    BY <1>1, <1>3, <1>4 DEF Table

\* The clock makes visits older and ends none.
LEMMA LaterTable ==
    ASSUME NEW v, Table(v)
    PROVE  /\ Table(Later(v)) /\ DOMAIN Later(v) = DOMAIN v
           /\ \A e \in DOMAIN v :
                Later(v)[e].silence = UpTo(v[e].silence + 1, DepartAfter)
           /\ Present(Later(v)) = Present(v)
<1>1. DOMAIN Later(v) = DOMAIN v
    BY DEF Later
<1>2. ASSUME NEW e \in DOMAIN v
      PROVE  /\ Later(v)[e] = [reads |-> v[e].reads,
                               silence |-> UpTo(v[e].silence + 1, DepartAfter)]
             /\ Later(v)[e] \in Visit
    <2>1. v[e] \in Visit
        BY DEF Table
    <2>2. UpTo(v[e].silence + 1, DepartAfter) \in 0..DepartAfter
        BY <2>1, Times DEF Visit, UpTo
    <2>3. Later(v)[e] = [v[e] EXCEPT !.silence = UpTo(v[e].silence + 1, DepartAfter)]
        BY DEF Later
    <2> QED
        BY <2>1, <2>2, <2>3 DEF Visit
<1>3. Present(Later(v)) = Present(v)
    BY <1>1, <1>2 DEF Present, Announced
<1> QED
    BY <1>1, <1>2, <1>3 DEF Table

-----------------------------------------------------------------------------
(* The steps.                                                              *)

LEMMA LoopTable == ASSUME LoopInv PROVE Table(visits)
BY DEF LoopInv, Table

\* A tag is taken from the queue.
LEMMA TakeTagStep ==
    ASSUME LoopInv, TakeTag
    PROVE  \E e \in Epcs :
             /\ queue # <<>> /\ e = Head(queue) /\ queue' = Tail(queue)
             /\ visits' = Check(Observe(visits, e))
             /\ silent' = silent \ {e} /\ gap' = gap
             /\ \E count \in Nat : Emit(count)
<1> DEFINE e == Head(queue)
           yes(b) == IF b THEN 1 ELSE 0
           after == Observe(visits, e)
<1>1. queue # <<>> /\ e \in Epcs
    BY DEF TakeTag, LoopInv
<1>2. Table(after)
    BY <1>1, LoopTable, ObserveTable
<1>3. Cardinality(Departs(after)) \in Nat
    BY <1>2, CheckTable
<1>4. /\ visits' = Check(after) /\ silent' = silent \ {e}
      /\ Emit(yes(IncludeTags) + yes(Arrives(visits, e)) + Cardinality(Departs(after)))
      /\ queue' = Tail(queue) /\ gap' = gap
    BY DEF TakeTag
<1>5. yes(IncludeTags) + yes(Arrives(visits, e)) + Cardinality(Departs(after)) \in Nat
    BY <1>3
<1> HIDE DEF e, yes, after
<1>6. \E count \in Nat : Emit(count)
    BY <1>4, <1>5
<1> QED
    BY <1>1, <1>4, <1>6 DEF e, after

\* A quiet tick.
LEMMA QuietTickStep ==
    ASSUME LoopInv, QuietTick
    PROVE  /\ visits' = Check(visits) /\ UNCHANGED <<queue, gap, silent>>
           /\ \E count \in Nat : Emit(count)
<1>1. Cardinality(Departs(visits)) \in Nat
    BY LoopTable, CheckTable
<1> QED
    BY <1>1 DEF QuietTick

\* What the steps do to the ledger.
LEMMA LedgerStep ==
    ASSUME Ledger, LoopInv, [Next]_hvars
    PROVE  Ledger' /\ Len(pending') <= MaxPending
<1>1. CASE UNCHANGED delivery
    BY <1>1 DEF delivery, Ledger, Left, LoopInv
<1>2. CASE Perhaps /\ UNCHANGED <<pending, posted, dropped, gone, emitted>>
    BY <1>2, PerhapsLedger DEF LoopInv
<1>3. CASE Acknowledged /\ UNCHANGED <<dropped, gone, emitted>>
    <2>1. Ledger' /\ Len(pending') <= Len(pending)
        BY <1>3, AcknowledgedLedger
    <2>2. /\ Len(pending') \in Nat /\ Len(pending) \in Nat
          /\ Len(pending) <= MaxPending /\ MaxPending \in Nat
        BY <2>1, Sizes DEF Ledger, LoopInv
    <2> QED
        BY <2>1, <2>2
<1>4. CASE \E count \in Nat : Emit(count)
    BY <1>4, EmitLedger
<1>5. ASSUME NEW e \in Epcs, Read(e) PROVE UNCHANGED delivery
    BY <1>5 DEF Read
<1>6. ASSUME SourceEnds \/ Clock \/ StreamEnds \/ PostRejected \/ UNCHANGED hvars
      PROVE  UNCHANGED delivery
    BY <1>6 DEF SourceEnds, Clock, StreamEnds, PostRejected, hvars
<1>7. ASSUME TakeTag \/ QuietTick PROVE \E count \in Nat : Emit(count)
    BY <1>7, TakeTagStep, QuietTickStep
<1>8. ASSUME PostFails \/ LastPostEnds \/ Cancel
      PROVE  \/ Perhaps /\ UNCHANGED <<pending, posted, dropped, gone, emitted>>
             \/ UNCHANGED delivery
    BY <1>8 DEF PostFails, LastPostEnds, Cancel, delivery
<1>9. ASSUME PostSucceeds PROVE Acknowledged /\ UNCHANGED <<dropped, gone, emitted>>
    BY <1>9 DEF PostSucceeds
<1> QED
    BY <1>1, <1>2, <1>3, <1>4, <1>5, <1>6, <1>7, <1>8, <1>9 DEF Next, Loop, Flush

\* ... and to the loop.
LEMMA LoopStep ==
    ASSUME LoopInv, Ledger, Ledger', Len(pending') <= MaxPending, [Next]_hvars
    PROVE  LoopInv'
<1>1. ASSUME NEW e \in Epcs, Read(e) PROVE LoopInv'
    <2>1. queue' \in Seq(Epcs) /\ Len(queue') <= QueueSize
        <3>1. queue \in Seq(Epcs) /\ Len(queue) < QueueSize /\ queue' = Append(queue, e)
            BY <1>1 DEF LoopInv, Read
        <3> QED
            BY <3>1, Sizes
    <2>2. gap' \in [Epcs -> 0..DepartAfter]
        BY <1>1, Times DEF LoopInv, Read
    <2> QED
        BY <1>1, <2>1, <2>2 DEF LoopInv, Read, delivery, Posting
<1>2. ASSUME SourceEnds PROVE LoopInv'
    BY <1>2 DEF LoopInv, SourceEnds, tracking, delivery, Posting
<1>3. ASSUME Clock PROVE LoopInv'
    <2>1. Table(visits')
        BY <1>3, LoopTable, LaterTable DEF Clock
    <2>2. gap' \in [Epcs -> 0..DepartAfter]
        BY <1>3, Times DEF Clock, LoopInv, UpTo
    <2> QED
        BY <1>3, <2>1, <2>2 DEF LoopInv, Clock, Table, delivery, Posting
<1>4. ASSUME TakeTag PROVE LoopInv'
    <2>1. PICK e \in Epcs : /\ queue # <<>> /\ queue' = Tail(queue)
                            /\ visits' = Check(Observe(visits, e))
                            /\ gap' = gap /\ \E count \in Nat : Emit(count)
        BY <1>4, TakeTagStep
    <2>2. Table(visits')
        BY <2>1, LoopTable, ObserveTable, CheckTable
    <2>3. queue' \in Seq(Epcs) /\ Len(queue') <= QueueSize
        <3>1. queue \in Seq(Epcs) /\ Len(queue) <= QueueSize
            BY DEF LoopInv
        <3> QED
            BY <2>1, <3>1, Sizes
    <2>4. pc' \in {"get", "post"} /\ Posting' => pending' # <<>>
        BY <2>1 DEF Emit, Posting
    <2>5. pc' \in {"get", "post"} /\ UNCHANGED <<source, cancelled, slow>>
        BY <2>1 DEF Emit
    <2> QED
        BY <2>1, <2>2, <2>3, <2>4, <2>5 DEF LoopInv, Table
<1>5. ASSUME QuietTick PROVE LoopInv'
    <2>1. /\ visits' = Check(visits) /\ UNCHANGED <<queue, gap>>
          /\ \E count \in Nat : Emit(count)
        BY <1>5, QuietTickStep
    <2>2. Table(visits')
        BY <2>1, LoopTable, CheckTable
    <2>3. /\ pc' \in {"get", "post"} /\ UNCHANGED <<source, cancelled, slow>>
          /\ Posting' => pending' # <<>>
        BY <2>1 DEF Emit, Posting
    <2> QED
        BY <2>1, <2>2, <2>3 DEF LoopInv, Table
<1>6. ASSUME Leave, UNCHANGED <<tracking, pending, slow>>, cancelled' \in BOOLEAN
      PROVE  LoopInv'
    <2>1. queue' \in Seq(Epcs) /\ Len(queue') <= QueueSize
        BY <1>6, Sizes DEF Leave
    <2> QED
        BY <1>6, <2>1 DEF LoopInv, Leave, tracking, Posting
<1>7. ASSUME StreamEnds PROVE LoopInv'
    BY <1>6, <1>7 DEF StreamEnds, delivery, LoopInv
<1>8. ASSUME PostSucceeds PROVE LoopInv'
    BY <1>8 DEF PostSucceeds, LoopInv, Returns, tracking, Posting
<1>9. ASSUME PostFails \/ LastPostEnds PROVE LoopInv'
    BY <1>9 DEF PostFails, LastPostEnds, LoopInv, Returns, tracking, Posting
<1>10. ASSUME PostRejected PROVE LoopInv'
    <2>1. CASE pc = "post"
        BY <1>6, <1>10, <2>1 DEF PostRejected, delivery, LoopInv
    <2>2. CASE pc # "post"
        BY <1>10, <2>2 DEF PostRejected, LoopInv, tracking, delivery, Posting
    <2> QED
        BY <2>1, <2>2
<1>11. ASSUME Cancel PROVE LoopInv'
    <2>1. CASE pc # "goodbye"
        BY <1>6, <1>11, <2>1 DEF Cancel
    <2>2. CASE pc = "goodbye"
        BY <1>11, <2>2 DEF Cancel, LoopInv, tracking, Posting
    <2> QED
        BY <2>1, <2>2
<1>12. CASE UNCHANGED hvars
    BY <1>12 DEF hvars, tracking, delivery, LoopInv, Posting
<1> QED
    BY <1>1, <1>2, <1>3, <1>4, <1>5, <1>7, <1>8, <1>9, <1>10, <1>11, <1>12
       DEF Next, Loop, Flush

-----------------------------------------------------------------------------
(* The ages of visits.                                                     *)

\* A tag whose visit is over has been silent, if its receiver is prompt.
LEMMA OverSilent ==
    ASSUME LoopInv, AgeInv, ~slow, NEW e \in DOMAIN visits,
           visits[e].silence >= DepartAfter, pc \in {"get", "post"}
    PROVE  e \in silent
<1>1. visits[e].silence \in 0..DepartAfter
    BY DEF LoopInv, Visit
<1>2. visits[e].silence = DepartAfter
    BY <1>1, Times
<1> QED
    BY <1>2 DEF AgeInv

\* What is taken from the queue was in it, and so was the rest.
LEMMA QueueRange ==
    ASSUME NEW q \in Seq(Epcs), q # <<>>
    PROVE  /\ Head(q) \in Range(q)
           /\ Range(Tail(q)) \subseteq Range(q)
           /\ \A e \in Range(q) : e = Head(q) \/ e \in Range(Tail(q))
<1>1. PICK n \in Nat \ {0} : n = Len(q)
    OBVIOUS
<1>2. DOMAIN q = 1..n /\ Head(q) = q[1] /\ 1 \in 1..n
    BY <1>1
<1>3. /\ DOMAIN Tail(q) = 1..(n - 1)
      /\ \A i \in 1..(n - 1) : Tail(q)[i] = q[i + 1] /\ i + 1 \in 1..n
    BY <1>1
<1>4. ASSUME NEW i \in 1..n, i # 1
      PROVE  i - 1 \in 1..(n - 1) /\ Tail(q)[i - 1] = q[i]
    <2>1. i - 1 \in 1..(n - 1) /\ (i - 1) + 1 = i
        BY <1>4
    <2> QED
        BY <1>3, <2>1
<1>5. Head(q) \in Range(q)
    BY <1>2 DEF Range
<1>6. ASSUME NEW i \in 1..(n - 1) PROVE Tail(q)[i] \in Range(q)
    BY <1>2, <1>3 DEF Range
<1>7. ASSUME NEW i \in 1..n PROVE q[i] = Head(q) \/ q[i] \in Range(Tail(q))
    <2>1. CASE i = 1
        BY <1>2, <2>1
    <2>2. CASE i # 1
        BY <1>3, <1>4, <2>2, Zenon DEF Range
    <2> QED
        BY <2>1, <2>2
<1>8. Range(q) = {q[i] : i \in 1..n} /\ Range(Tail(q)) = {Tail(q)[i] : i \in 1..(n - 1)}
    BY <1>2, <1>3, Zenon DEF Range
<1> QED
    BY <1>5, <1>6, <1>7, <1>8

LEMMA AgeStep ==
    ASSUME LoopInv, AgeInv, [Next]_hvars
    PROVE  AgeInv'
<1>0. queue \in Seq(Epcs) /\ Table(visits)
    BY LoopTable DEF LoopInv
<1>1. ASSUME NEW e \in Epcs, Read(e) PROVE AgeInv'
    <2>1. Range(queue') = Range(queue) \cup {e}
        <3>1. PICK n \in Nat : n = Len(queue)
            BY <1>0
        <3>2. /\ DOMAIN queue = 1..n /\ DOMAIN queue' = 1..(n + 1)
              /\ \A i \in 1..n : queue'[i] = queue[i] /\ i \in 1..(n + 1)
              /\ queue'[n + 1] = e /\ n + 1 \in 1..(n + 1)
              /\ \A i \in 1..(n + 1) : i \in 1..n \/ i = n + 1
            BY <1>0, <1>1, <3>1 DEF Read
        <3> QED
            BY <3>2, Zenon DEF Range
    <2>2. gap' = [gap EXCEPT ![e] = 0] /\ gap \in [Epcs -> 0..DepartAfter]
        BY <1>1 DEF Read, LoopInv
    <2> QED
        BY <1>1, <2>1, <2>2 DEF AgeInv, Read, LoopInv
<1>2. ASSUME Clock, ~slow PROVE AgeInv'
    <2>1. queue = <<>> /\ queue' = queue /\ pc = "get" /\ UNCHANGED <<pc, slow>>
        BY <1>2 DEF Clock
    <2>2. Range(queue) = {}
        BY <2>1 DEF Range
    <2>3. ASSUME NEW e \in DOMAIN visits'
          PROVE  /\ e \in silent' \/ visits'[e].silence = gap'[e]
                 /\ visits'[e].silence = DepartAfter => e \in silent'
        <3>1. e \in DOMAIN visits /\ e \in Epcs
            BY <1>0, <1>2, LaterTable DEF Clock, Table
        <3>2. visits'[e].silence = UpTo(visits[e].silence + 1, DepartAfter)
            BY <1>0, <1>2, <3>1, LaterTable DEF Clock
        <3>3. gap'[e] = UpTo(gap[e] + 1, DepartAfter)
            BY <1>2, <3>1 DEF Clock
        <3>4. e \in silent \/ visits[e].silence = gap[e]
            BY <1>2, <2>1, <2>2, <3>1 DEF AgeInv
        <3>5. silent \subseteq silent' /\ (gap'[e] = DepartAfter => e \in silent')
            BY <1>2, <3>1 DEF Clock
        <3> QED
            BY <3>2, <3>3, <3>4, <3>5
    <2> QED
        BY <2>1, <2>2, <2>3 DEF AgeInv
<1>3. ASSUME TakeTag PROVE AgeInv'
    <2>1. PICK e \in Epcs : /\ queue # <<>> /\ e = Head(queue)
                            /\ queue' = Tail(queue)
                            /\ visits' = Check(Observe(visits, e))
                            /\ silent' = silent \ {e} /\ gap' = gap
                            /\ \E count \in Nat : Emit(count)
        BY <1>3, TakeTagStep
    <2>2. slow' = slow /\ pc = "get"
        BY <1>3, <2>1 DEF Emit, TakeTag
    <2>3. e \in Range(queue) /\ Range(queue') \subseteq Range(queue)
          /\ \A d \in Range(queue) : d = e \/ d \in Range(queue')
        BY <1>0, <2>1, QueueRange
    <2>4. ASSUME ~slow, NEW d \in DOMAIN visits'
          PROVE  /\ d \in Range(queue') \/ d \in silent' \/ visits'[d].silence = gap'[d]
                 /\ visits'[d].silence = DepartAfter => d \in silent'
        <3>1. /\ d \in DOMAIN Observe(visits, e)
              /\ visits'[d] = Observe(visits, e)[d]
            BY <1>0, <2>1, ObserveTable, CheckTable
        <3>2. CASE d = e
            <4>0. Observe(visits, e)[e].silence = 0
                BY <1>0, ObserveTable
            <4>1. visits'[d].silence = 0
                BY <3>1, <3>2, <4>0, Zenon
            <4>2. \A c \in Epcs : c \in Range(queue) => gap[c] = 0
                BY <2>2, <2>4 DEF AgeInv
            <4>3. gap[d] = 0
                BY <2>3, <3>2, <4>2, Zenon
            <4>4. gap'[d] = 0 /\ visits'[d].silence # DepartAfter
                BY <2>1, <4>1, <4>3, Times
            <4> QED
                BY <4>1, <4>4
        <3>3. CASE d # e
            <4>1. d \in DOMAIN visits /\ visits'[d] = visits[d]
                BY <1>0, <3>1, <3>3, ObserveTable
            <4> QED
                BY <2>1, <2>2, <2>3, <2>4, <3>3, <4>1 DEF AgeInv
        <3> QED
            BY <3>2, <3>3
    <2> QED
        BY <2>1, <2>2, <2>3, <2>4 DEF AgeInv
<1>4. ASSUME QuietTick PROVE AgeInv'
    <2>1. /\ visits' = Check(visits) /\ UNCHANGED <<queue, gap, silent>>
          /\ \E count \in Nat : Emit(count)
        BY <1>4, QuietTickStep
    <2>2. slow' = slow /\ pc = "get"
        BY <1>4, <2>1 DEF Emit, QuietTick
    <2>3. /\ DOMAIN visits' \subseteq DOMAIN visits
          /\ \A e \in DOMAIN visits' : visits'[e] = visits[e]
        BY <1>0, <2>1, CheckTable
    <2> QED
        BY <2>1, <2>2, <2>3 DEF AgeInv
<1>5. ASSUME UNCHANGED tracking, UNCHANGED <<queue, slow>>,
             pc' \in {"get", "post"} => pc \in {"get", "post"}
      PROVE  AgeInv'
    BY <1>5 DEF AgeInv, tracking
<1>6. ASSUME pc' \notin {"get", "post"} PROVE AgeInv'
    BY <1>6 DEF AgeInv
<1>7. ASSUME SourceEnds \/ UNCHANGED hvars PROVE AgeInv'
    BY <1>5, <1>7 DEF SourceEnds, hvars
<1>8. ASSUME Leave PROVE pc' \notin {"get", "post"}
    BY <1>8 DEF Leave
<1>9. ASSUME StreamEnds \/ LastPostEnds \/ Cancel \/ PostRejected
      PROVE  pc' \notin {"get", "post"}
    BY <1>8, <1>9 DEF StreamEnds, LastPostEnds, Cancel, PostRejected
<1>10. ASSUME PostSucceeds \/ PostFails PROVE AgeInv'
    BY <1>5, <1>10 DEF PostSucceeds, PostFails, Returns
<1>11. ASSUME Clock, slow PROVE AgeInv'
    BY <1>11 DEF Clock, AgeInv
<1> QED
    BY <1>1, <1>2, <1>3, <1>4, <1>6, <1>7, <1>9, <1>10, <1>11
       DEF Next, Loop, Flush

-----------------------------------------------------------------------------
(* The theorems.                                                           *)

Inv == Ledger /\ LoopInv /\ AgeInv

LEMMA InitInv == WebhookInit => Inv
<1> SUFFICES ASSUME WebhookInit PROVE Inv
    OBVIOUS
<1>1. Ledger
    <2>1. Cardinality({}) = 0
        BY FS_EmptySet
    <2>2. pending \in Seq(Nat) /\ Len(pending) = 0 /\ emitted = 0
        BY DEF WebhookInit
    <2>3. Left = 0 /\ 1..Left = {} /\ 1..Len(pending) = {}
        BY <2>2 DEF Left
    <2>4. Counts(pending, Left)
        BY <2>3 DEF Counts
    <2>5. gone = {} /\ received = {} /\ dropped = 0 /\ posted = 0
        BY DEF WebhookInit
    <2>6. Cardinality(gone) = dropped
        BY <2>1, <2>5
    <2> QED
        BY <2>2, <2>3, <2>4, <2>5, <2>6 DEF Ledger
<1>2. LoopInv
    <2>1. DOMAIN visits = {}
        BY DEF WebhookInit, NoVisits
    <2>2. gap \in [Epcs -> 0..DepartAfter]
        BY Times DEF WebhookInit
    <2>3. queue \in Seq(Epcs) /\ Len(queue) = 0 /\ Len(pending) = 0 /\ pc = "get"
        BY DEF WebhookInit
    <2>4. Len(queue) <= QueueSize /\ Len(pending) <= MaxPending
        BY <2>3, Sizes
    <2> QED
        BY <2>1, <2>2, <2>3, <2>4 DEF WebhookInit, LoopInv, Posting
<1>3. AgeInv
    BY DEF WebhookInit, AgeInv, NoVisits, Range
<1> QED
    BY <1>1, <1>2, <1>3 DEF Inv

\* What every state of run() keeps: the ledger of events, the state of the loop
\* and the ages of visits.
THEOREM WebhookInvariance == Spec => []Inv
<1>1. Inv /\ [Next]_hvars => Inv'
    BY LedgerStep, LoopStep, AgeStep DEF Inv
<1> QED
    BY <1>1, InitInv, PTL DEF Spec

\* The types, and the bounds of the two queues.
THEOREM WebhookTypes == Spec => []TypeOK
<1>1. Inv => TypeOK
    <2> SUFFICES ASSUME Inv PROVE TypeOK
        OBVIOUS
    <2>1. Range(queue) \subseteq Epcs
        BY DEF Inv, LoopInv, Range
    <2>2. gone \subseteq 1..emitted /\ received \subseteq 1..emitted
        <3>1. PICK k \in Nat, n \in Nat : k = Left /\ emitted = k + n
            BY LedgerNumbers DEF Inv
        <3> QED
            BY <3>1 DEF Inv, Ledger
    <2>3. \A e \in DOMAIN visits : visits[e].reads \in 1..MinReads
                                   /\ visits[e].silence \in 0..DepartAfter
        BY DEF Inv, LoopInv, Visit
    <2> QED
        BY <2>1, <2>2, <2>3 DEF Inv, LoopInv, TypeOK
<1> QED
    BY <1>1, WebhookInvariance, PTL

\* Every event is acknowledged, dropped and counted, or pending, and the
\* receiver learns of them in order, whatever becomes of the posts.
THEOREM NothingLost == Spec => []Accounted
<1>1. Inv => Accounted
    <2> SUFFICES ASSUME Inv PROVE Accounted
        OBVIOUS
    <2>1. PICK k \in Nat, n \in Nat : /\ k = Left /\ n = Len(pending)
                                      /\ emitted = k + n /\ posted + dropped = k
        BY LedgerNumbers DEF Inv
    <2>2. ASSUME NEW i \in 1..emitted
          PROVE  i \in received \/ i \in gone \/ i \in Range(pending)
        <3>1. CASE i \in 1..k
            BY <2>1, <3>1 DEF Inv, Ledger
        <3>2. CASE i \notin 1..k
            <4>1. i - k \in 1..n
                BY <2>1, <3>2
            <4>2. pending[i - k] = k + (i - k)
                BY <2>1, <4>1 DEF Inv, Ledger, Counts
            <4>3. i - k \in DOMAIN pending /\ pending[i - k] = i
                BY <2>1, <4>1, <4>2 DEF Inv, Ledger
            <4> QED
                BY <4>3 DEF Range
        <3> QED
            BY <3>1, <3>2
    <2>3. emitted = posted + dropped + Len(pending)
        BY <2>1
    <2>4. dropped = Cardinality(gone) /\ \A i \in received : 1..i \subseteq received \cup gone
        BY DEF Inv, Ledger
    <2> QED
        BY <2>2, <2>3, <2>4 DEF Accounted
<1> QED
    BY <1>1, WebhookInvariance, PTL

\* With a receiver that answers at once no tag departs that is being read.
THEOREM PromptReceiver == Spec => PromptDepartures
<1>1. Inv /\ [Next]_hvars => [~slow => Departing \subseteq silent]_hvars
    <2> SUFFICES ASSUME Inv, Next, ~slow PROVE Departing \subseteq silent
        OBVIOUS
    <2>1. Table(visits)
        BY LoopTable DEF Inv
    <2>2. CASE TakeTag
        <3>1. PICK e \in Epcs : visits' = Check(Observe(visits, e))
            BY <2>2, TakeTagStep DEF Inv
        <3>2. Departing \subseteq Over(Observe(visits, e))
            BY <2>1, <3>1, ObserveTable, CheckTable DEF Departing
        <3>3. ASSUME NEW d \in Over(Observe(visits, e)) PROVE d \in silent
            <4>0. Observe(visits, e)[e].silence = 0
                BY <2>1, ObserveTable
            <4>1. d # e
                <5>1. Observe(visits, e)[d].silence >= DepartAfter
                    BY <3>3 DEF Over
                <5>2. ~(0 >= DepartAfter)
                    BY Times
                <5> QED
                    BY <4>0, <5>1, <5>2, Zenon
            <4>2. d \in DOMAIN visits /\ visits[d].silence >= DepartAfter
                BY <2>1, <3>3, <4>1, ObserveTable DEF Over
            <4>3. pc \in {"get", "post"}
                BY <2>2 DEF TakeTag
            <4> QED
                BY <4>2, <4>3, OverSilent DEF Inv
        <3> QED
            BY <3>2, <3>3
    <2>3. CASE QuietTick
        <3>1. Departing \subseteq Over(visits)
            BY <2>1, <2>3, QuietTickStep, CheckTable DEF Departing, Inv
        <3>2. pc \in {"get", "post"}
            BY <2>3 DEF QuietTick
        <3> QED
            BY <3>1, <3>2, OverSilent DEF Over, Inv
    <2>4. CASE Clock
        BY <2>1, <2>4, LaterTable DEF Clock, Departing
    <2>5. CASE UNCHANGED visits
        BY <2>5 DEF Departing, Present, Announced
    <2>6. TakeTag \/ QuietTick \/ Clock \/ UNCHANGED visits
        BY DEF Next, Read, SourceEnds, Loop, StreamEnds, Flush, PostSucceeds,
           PostFails, PostRejected, LastPostEnds, Cancel, tracking
    <2> QED
        BY <2>2, <2>3, <2>4, <2>5, <2>6
<1> QED
    BY <1>1, WebhookInvariance, PTL DEF Spec, PromptDepartures
=============================================================================
