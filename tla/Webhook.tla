------------------------------- MODULE Webhook -------------------------------
(***************************************************************************)
(* WebhookSink.run(): an inventory pumped by ticked_stream() into a queue, *)
(* a PresenceTracker over it, and the backlog of events that is posted to  *)
(* an HTTP endpoint in batches.  While a post is awaited the inventory     *)
(* goes on and nobody looks at it.                                         *)
(*                                                                         *)
(* Events are numbered in the order in which they come about; what they    *)
(* say does not matter here.  The receiver is external: it may be slow,    *)
(* refuse, fail, or take a batch in and not get to say so.                 *)
(***************************************************************************)
EXTENDS Presence, Integers, FiniteSets, Sequences

CONSTANTS
    Epcs,           \* tags
    IncludeTags,    \* include_tags
    QueueSize,      \* maxsize of the queue of ticked_stream()
    BatchMax,       \* batch_max
    Backlog,        \* batches kept while the receiver is down, 10 in the code
    MaxReads        \* bound: reads

ASSUME WebhookAssumption ==
    /\ IsFiniteSet(Epcs) /\ IncludeTags \in BOOLEAN
    /\ {QueueSize, BatchMax, Backlog} \subseteq Nat \ {0}
    /\ MaxReads \in Nat

VARIABLES
    source,     \* does the inventory go on?
    queue,      \* the queue of ticked_stream()
    visits,     \* the visits of the tracker
    pc,         \* awaits an item (get), a post, the last posts (goodbye); done
    cancelled,  \* has the task been cancelled?
    pending,    \* events to be posted
    posted,     \* entries acknowledged
    dropped,    \* entries discarded
    received,   \* the events the receiver has taken in
    gone,       \* history: the events discarded
    emitted,    \* events so far
    gap,        \* history: for how long each tag was not read
    silent,     \* history: tags not read for DepartAfter since last observed
    slow,       \* does time pass while a post is awaited?
    reads       \* reads so far

tracking == <<visits, gap, silent>>
delivery == <<pending, posted, dropped, received, gone, emitted>>
hvars == <<source, queue, tracking, pc, cancelled, delivery, slow, reads>>

MaxPending == BatchMax * Backlog

WebhookInit ==
    /\ source = TRUE /\ queue = <<>> /\ visits = NoVisits
    /\ pc = "get" /\ cancelled = FALSE
    /\ pending = <<>> /\ posted = 0 /\ dropped = 0
    /\ received = {} /\ gone = {} /\ emitted = 0
    /\ gap = [e \in Epcs |-> DepartAfter] /\ silent = Epcs
    /\ slow \in BOOLEAN /\ reads = 0

-----------------------------------------------------------------------------
(* The inventory, the pump and the clock.                                  *)

\* A read is put into the queue; a full queue makes the pump wait, and the
\* reads with it, in client.reports.
Read(e) ==
    /\ source /\ reads < MaxReads /\ Len(queue) < QueueSize
    /\ queue' = Append(queue, e)
    /\ gap' = [gap EXCEPT ![e] = 0]
    /\ reads' = reads + 1
    /\ UNCHANGED <<source, visits, silent, pc, cancelled, delivery, slow>>

\* duration, max_tags, or an exception: the pump's task is done.
SourceEnds ==
    /\ source
    /\ source' = FALSE
    /\ UNCHANGED <<queue, tracking, pc, cancelled, delivery, slow, reads>>

Posting == pc \in {"post", "goodbye"}

\* Time passes while the loop has nothing to do, or awaits a slow post.
Clock ==
    /\ (pc = "get" /\ queue = <<>>) \/ (Posting /\ slow)
    /\ gap' = [e \in Epcs |-> UpTo(gap[e] + 1, DepartAfter)]
    /\ silent' = silent \cup {e \in Epcs : gap'[e] = DepartAfter}
    /\ visits' = Later(visits)
    /\ UNCHANGED <<source, queue, pc, cancelled, delivery, slow, reads>>

-----------------------------------------------------------------------------
(* The loop over ticked_stream().                                          *)

\* Mutant of Trim: the backlog grows.
TrimNothing(events) == pending' = events /\ UNCHANGED <<dropped, gone>>

\* The backlog with its oldest entries dropped.
Trim(events) ==
    LET overflow == IF Len(events) > MaxPending THEN Len(events) - MaxPending ELSE 0
    IN  /\ pending' = SubSeq(events, overflow + 1, Len(events))
        /\ dropped' = dropped + overflow
        /\ gone' = gone \cup {events[i] : i \in 1..overflow}

\* So many events came about; the batch is posted when it is full, or when
\* flush_interval has elapsed, which it may have.
Emit(count) ==
    /\ emitted' = emitted + count
    /\ Trim(pending \o [i \in 1..count |-> emitted + i])
    /\ \/ pending' # <<>> /\ pc' = "post"
       \/ Len(pending') < BatchMax /\ pc' = "get"
    /\ UNCHANGED <<source, cancelled, posted, received, slow, reads>>

\* A tag from the queue: its read, its arrival and the departures of others.
TakeTag ==
    /\ pc = "get" /\ queue # <<>>
    /\ LET e == Head(queue)
           after == Observe(visits, e)
           yes(b) == IF b THEN 1 ELSE 0
       IN  /\ visits' = Check(after)
           /\ silent' = silent \ {e}
           /\ Emit(yes(IncludeTags) + yes(Arrives(visits, e))
                   + Cardinality(Departs(after)))
    /\ queue' = Tail(queue) /\ UNCHANGED gap

\* Mutant of QuietTick: no heartbeat while the field is silent.
QuietTickUnseen ==
    /\ pc = "get" /\ queue = <<>> /\ source
    /\ UNCHANGED hvars

\* A tick without a read brings a heartbeat, and that a check.
QuietTick ==
    /\ pc = "get" /\ queue = <<>> /\ source
    /\ visits' = Check(visits)
    /\ Emit(Cardinality(Departs(visits)))
    /\ UNCHANGED <<queue, gap, silent>>

\* The loop is left, in whatever way: ticked_stream() cancels its pump, and
\* what is pending gets a last chance.
Leave ==
    /\ source' = FALSE /\ queue' = <<>>
    /\ pc' = IF pending = <<>> THEN "done" ELSE "goodbye"

\* A tick without a read after the inventory has ended.
StreamEnds ==
    /\ pc = "get" /\ queue = <<>> /\ ~source
    /\ Leave
    /\ UNCHANGED <<tracking, cancelled, delivery, slow, reads>>

Loop == TakeTag \/ QuietTick \/ StreamEnds

-----------------------------------------------------------------------------
(* flush()                                                                 *)

Chunk == SubSeq(pending, 1, UpTo(Len(pending), BatchMax))

\* What the receiver may have taken in when no response says so.
Perhaps == received' \in {received, received \cup Range(Chunk)}

\* flush() returns.
Returns == pc' = IF pc = "post" THEN "get" ELSE "done"

\* Mutant of Acknowledged: the rest of the backlog goes with the chunk.
AcknowledgedAll ==
    /\ received' = received \cup Range(Chunk)
    /\ pending' = <<>> /\ posted' = posted + Len(pending)

\* A response of success, seen by flush().
Acknowledged ==
    /\ received' = received \cup Range(Chunk)
    /\ pending' = SubSeq(pending, Len(Chunk) + 1, Len(pending))
    /\ posted' = posted + Len(Chunk)

\* 200; flush() goes on with the next chunk.
PostSucceeds ==
    /\ Posting /\ ~cancelled
    /\ Acknowledged
    /\ IF pending' = <<>> THEN Returns ELSE UNCHANGED pc
    /\ UNCHANGED <<source, queue, tracking, cancelled, dropped, gone, emitted,
                   slow, reads>>

\* No response, or one that promises better times: the batch is kept.
PostFails ==
    /\ Posting /\ ~cancelled
    /\ Perhaps
    /\ Returns
    /\ UNCHANGED <<source, queue, tracking, cancelled, pending, posted,
                   dropped, gone, emitted, slow, reads>>

\* 403 or 400: WebhookError, which the goodbye suppresses.
PostRejected ==
    /\ Posting /\ ~cancelled
    /\ IF pc = "post" THEN Leave
       ELSE pc' = "done" /\ UNCHANGED <<source, queue>>
    /\ UNCHANGED <<tracking, cancelled, delivery, slow, reads>>

\* Mutant of LastPostEnds: the cancellation is swallowed and posting goes on.
LastPostRetries ==
    /\ pc = "goodbye" /\ cancelled
    /\ Perhaps
    /\ UNCHANGED <<source, queue, tracking, pc, cancelled, pending, posted,
                   dropped, gone, emitted, slow, reads>>

\* The goodbye of a task that was cancelled: whatever comes of its post,
\* resurface_swallowed_cancel() raises before the response is looked at.
LastPostEnds ==
    /\ pc = "goodbye" /\ cancelled
    /\ Perhaps
    /\ pc' = "done"
    /\ UNCHANGED <<source, queue, tracking, cancelled, pending, posted,
                   dropped, gone, emitted, slow, reads>>

\* The task is cancelled, or the 5 s of the goodbye are over.
Cancel ==
    /\ pc \in {"get", "post", "goodbye"} /\ ~cancelled
    /\ cancelled' = TRUE
    /\ IF Posting THEN Perhaps ELSE UNCHANGED received
    /\ IF pc = "goodbye" THEN pc' = "done" /\ UNCHANGED <<source, queue>>
       ELSE Leave
    /\ UNCHANGED <<tracking, pending, posted, dropped, gone, emitted, slow,
                   reads>>

Flush == PostSucceeds \/ PostFails \/ PostRejected \/ LastPostEnds

-----------------------------------------------------------------------------
Next == \/ \E e \in Epcs : Read(e)
        \/ SourceEnds \/ Clock \/ Loop \/ Flush \/ Cancel

\* The event loop runs, a post ends by request_timeout, and time goes on, also
\* from one flush to the next.
Fairness == /\ WF_hvars(TakeTag) /\ WF_hvars(QuietTick) /\ WF_hvars(StreamEnds)
            /\ WF_hvars(Flush) /\ SF_hvars(Clock)

Spec == WebhookInit /\ [][Next]_hvars /\ Fairness

-----------------------------------------------------------------------------
(* Properties                                                              *)

\* Types, and the bounds of the two queues between the awaits.
TypeOK ==
    /\ {source, cancelled, slow} \subseteq BOOLEAN
    /\ pc \in {"get", "post", "goodbye", "done"}
    /\ DOMAIN visits \subseteq Epcs
    /\ \A e \in DOMAIN visits : visits[e].reads \in 1..MinReads
                                /\ visits[e].silence \in 0..DepartAfter
    /\ Len(queue) <= QueueSize /\ Range(queue) \subseteq Epcs
    /\ Len(pending) <= MaxPending
    /\ Posting => pending # <<>>
    /\ received \subseteq 1..emitted /\ gone \subseteq 1..emitted

\* No event is lost in silence: each was acknowledged, is counted as dropped
\* or is still pending, whichever posts failed half-way; and the receiver
\* learns of them in the order in which they came about.
Accounted ==
    /\ dropped = Cardinality(gone)
    /\ emitted = posted + dropped + Len(pending)
    /\ \A n \in 1..emitted : n \in received \/ n \in gone \/ n \in Range(pending)
    /\ \A n \in received : 1..n \subseteq received \cup gone

\* The tags that depart in this step.
Departing == Present(visits) \ Present(visits')

\* check() returns "departed events for tags that have been silent longer than
\* depart_after": a tag whose reads wait in the queue has not been silent.
TrueDepartures == [][Departing \subseteq silent]_hvars

\* The same with a receiver that answers at once: no order of reads, ticks,
\* posts and retries makes a tag depart that is being read.
PromptDepartures == [][~slow => Departing \subseteq silent]_hvars

\* A tag that falls silent departs, also when no other tag is read any more.
SilentTagsDepart ==
    \A e \in Epcs : <>[](gap[e] >= DepartAfter)
                        => <>[](e \notin Present(visits) \/ pc = "done")

\* The end of the inventory and a cancellation end run(), receiver or not.
RunEnds == ~source ~> pc = "done"
=============================================================================
